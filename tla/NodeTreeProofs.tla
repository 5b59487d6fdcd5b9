---------------------------- MODULE NodeTreeProofs ----------------------------
(***************************************************************************)
(* Proofs about NodeTree, for any memory for nodes and iterators: lists of *)
(* children are sound, references have owners, and, where no directory has *)
(* two iterators at a time, iterations are complete.                       *)
(*                                                                         *)
(* The lemmas go by the functions of node.c and tree.c.  They are about    *)
(* any memory m and counts w of the references that the application and    *)
(* the call which is under way own, because the lists get changed within a *)
(* call while the counts are moving.                                       *)
(***************************************************************************)
EXTENDS NodeTree, TLAPS, FiniteSetTheorems, SequenceTheorems

\* The children of a directory.
Kids(m, d) == {n \in Nodes \ {Root} : m.parent[n] = d}

\* The links of a list, from a head h over links nx, lead through a set K of
\* nodes by ascending names, and no two of them have the same name.
IsFirst(h, nam, K) ==
    IF K = {} THEN h = NoNode ELSE h \in K /\ \A c \in K : nam[h] <= nam[c]

IsNext(x, y, nam, K) ==
    \/ y = NoNode /\ \A c \in K : nam[c] <= nam[x]
    \/ /\ y \in K /\ nam[x] < nam[y]
       /\ \A c \in K : nam[c] <= nam[x] \/ nam[y] <= nam[c]

Ordered(h, nx, nam, K) ==
    /\ IsFirst(h, nam, K)
    /\ \A x \in K : IsNext(x, nx[x], nam, K)
    /\ \A x, y \in K : nam[x] = nam[y] => x = y

\* No directory is below itself: no set of nodes has all its parents within.
NoLoop(par) ==
    \A S \in SUBSET (Nodes \ {Root}) : S # {} => \E x \in S : par[x] \notin S

PosOf(m, x) == {i \in Iters : m.it[i].pos = x}
DirOf(m, x) == {i \in Iters : m.it[i].dir = x}
Parents(m, x) == IF m.parent[x] # NoNode THEN 1 ELSE 0

\* Each reference has one owner, w counts those of the application and of the
\* call which is under way.
Owned(m, w) ==
    \A x \in Nodes :
       m.ref[x] = w[x] + Parents(m, x) + Cardinality(PosOf(m, x)) + Cardinality(DirOf(m, x))

\* The nodes of a tree are below live directories, without loops.
IsTree(m) ==
    /\ m.parent[Root] = Root
    /\ \A x \in Nodes : m.parent[x] # NoNode => m.ref[m.parent[x]] > 0
    /\ NoLoop(m.parent)

\* The list of a directory is what it should be.
IsList(m, d) ==
    /\ Ordered(m.head[d], m.next, m.name, Kids(m, d))
    /\ m.count[d] = Cardinality(Kids(m, d))

Lists(m) == \A d \in Dirs : IsList(m, d)

\* Iterators which are not open have no position, open ones are in the registry.
\* The root is no child.
Itered(m) ==
    \A i \in Iters :
       /\ m.it[i].pos # Root
       /\ m.it[i].dir = NoNode => m.it[i].pos = NoNode
       /\ m.it[i].dir # NoNode => \E k \in 1 .. Len(m.reg) : m.reg[k] = i

\* The invariant.
NTInv == NTTypeOK /\ Owned(t, app) /\ IsTree(t) /\ Lists(t) /\ Itered(t)

\* No two iterators are on the same directory.
Alone(m) ==
    \A i, j \in Iters : m.it[i].dir = m.it[j].dir /\ m.it[i].dir # NoNode => i = j

\* An iterator has returned those lasting children which are not behind it.
Follows(m, i, vis, st) ==
    /\ vis \subseteq st /\ st \subseteq Kids(m, m.it[i].dir)
    /\ m.it[i].pos = NoNode => vis = {}
    /\ m.it[i].pos # NoNode =>
         /\ m.it[i].pos \in Kids(m, m.it[i].dir)
         /\ \A c \in st : c \in vis <=> m.name[c] <= m.name[m.it[i].pos]

-----------------------------------------------------------------------------
(* Induction and recursion over numbers                                    *)

\* A set of natural numbers has a least element.
LEMMA LeastNumber ==
    ASSUME NEW T \in SUBSET Nat, T # {}
    PROVE  \E x \in T : \A y \in T : x <= y
<1> SUFFICES ASSUME \A x \in T : \E y \in T : y < x
             PROVE  FALSE
  <2>1. \A x, y \in T : ~ (x <= y) => y < x
    OBVIOUS
  <2> QED BY <2>1
<1>1. PICK z \in T : TRUE
  OBVIOUS
<1> DEFINE W == {w \in 0 .. z : \A m \in T : w < m}
           f == [w \in W |-> w + 1]
<1>2. 0 \in W
  OBVIOUS
<1>3. \A w \in W : w + 1 \in W
  OBVIOUS
<1>4. IsFiniteSet(W)
  <2>1. IsFiniteSet(0 .. z) /\ W \in SUBSET (0 .. z)
    BY FS_Interval
  <2> QED BY <2>1, FS_Subset
<1>5. IsFiniteSet(W \ {0}) /\ Cardinality(W \ {0}) = Cardinality(W) - 1
  BY <1>2, <1>4, FS_RemoveElement
<1>6. Cardinality(W) \in Nat
  BY <1>4, FS_CardinalityType
<1>7. f \in [W -> W \ {0}]
  BY <1>3
<1>8. \E x, y \in W : x # y /\ f[x] = f[y]
  <2>1. Cardinality(W \ {0}) < Cardinality(W)
    BY <1>5, <1>6
  <2> HIDE DEF f, W
  <2> QED BY <1>4, <1>5, <1>7, <2>1, FS_PigeonHole
<1> QED BY <1>8

\* What holds of 0, and of a number up to N after the one before it.
LEMMA Induct ==
    ASSUME NEW N \in Nat, NEW T, 0 \in T, \A i \in 1 .. N : i - 1 \in T => i \in T
    PROVE  \A i \in 0 .. N : i \in T
<1> DEFINE Out == {i \in 0 .. N : i \notin T}
<1> SUFFICES ASSUME Out # {} PROVE FALSE
  OBVIOUS
<1>1. PICK x \in Out : \A y \in Out : x <= y
  <2>1. Out \in SUBSET Nat
    OBVIOUS
  <2> HIDE DEF Out
  <2> QED BY <2>1, LeastNumber
<1>2. x # 0 /\ x \in 1 .. N /\ x - 1 \in 0 .. N /\ ~ (x <= x - 1)
  OBVIOUS
<1>3. x - 1 \in T
  BY <1>1, <1>2
<1> QED BY <1>2, <1>3

\* h has the results of iterating N functions on a base.
Iterates(h, N, base, g) == h[0] = base /\ \A i \in 1 .. N : h[i] = g[i][h[i - 1]]

\* A recursion over the numbers up to N is defined.
LEMMA Recursion ==
    ASSUME NEW N \in Nat, NEW V, NEW base \in V, NEW g \in [1 .. N -> [V -> V]]
    PROVE  \E h \in [0 .. N -> V] : Iterates(h, N, base, g)
<1> USE DEF Iterates
<1> DEFINE T == {m \in 0 .. N : \E h \in [0 .. m -> V] :
                    h[0] = base /\ \A i \in 1 .. m : h[i] = g[i][h[i - 1]]}
<1>1. 0 \in T
  <2> DEFINE f == [i \in 0 .. 0 |-> base]
  <2>1. f \in [0 .. 0 -> V] /\ f[0] = base /\ 1 .. 0 = {}
    OBVIOUS
  <2>2. \A i \in 1 .. 0 : f[i] = g[i][f[i - 1]]
    BY <2>1
  <2> HIDE DEF f
  <2> QED BY <2>1, <2>2
<1>2. ASSUME NEW m \in 1 .. N, m - 1 \in T PROVE m \in T
  <2>1. PICK h \in [0 .. m - 1 -> V] :
           h[0] = base /\ \A i \in 1 .. m - 1 : h[i] = g[i][h[i - 1]]
    BY <1>2
  <2> DEFINE f == [i \in 0 .. m |-> IF i = m THEN g[m][h[m - 1]] ELSE h[i]]
  <2>2. f \in [0 .. m -> V]
    <3>1. h[m - 1] \in V /\ g[m] \in [V -> V]
      BY <2>1
    <3> QED BY <3>1
  <2>3. f[0] = base /\ \A i \in 1 .. m : f[i] = g[i][f[i - 1]]
    <3>1. f[0] = base
      BY <2>1
    <3>2. ASSUME NEW i \in 1 .. m PROVE f[i] = g[i][f[i - 1]]
      <4>1. i - 1 \in 0 .. m /\ i - 1 # m /\ f[i - 1] = h[i - 1]
        OBVIOUS
      <4>2. CASE i = m
        BY <4>1, <4>2
      <4>3. CASE i # m
        BY <2>1, <4>1, <4>3
      <4> QED BY <4>2, <4>3
    <3> QED BY <3>1, <3>2
  <2> HIDE DEF f
  <2> QED BY <2>2, <2>3, SMTT(30)
<1>3. N \in T
  <2>1. \A m \in 1 .. N : m - 1 \in T => m \in T
    BY <1>2
  <2>2. N \in 0 .. N
    OBVIOUS
  <2> HIDE DEF T
  <2> QED BY <1>1, <2>1, <2>2, Induct
<1> QED BY <1>3

-----------------------------------------------------------------------------
(* Lists in order                                                          *)

\* Memory for nodes, and the NULL pointer, by the assumption on the constants.
LEMMA NodesFacts ==
    /\ Nodes \in SUBSET Nat /\ IsFiniteSet(Nodes) /\ NoNode \notin Nodes /\ NoNode \notin Dirs
    /\ Dirs \subseteq Nodes /\ Root \in Dirs /\ Root \in Nodes
BY NTAssumption DEF Nodes, NoNode

\* Among some nodes one has the smallest name.
LEMMA SmallestName ==
    ASSUME NEW nam \in [Nodes -> Nat], NEW K \in SUBSET Nodes, K # {}
    PROVE  \E x \in K : \A c \in K : nam[x] <= nam[c]
<1> DEFINE V == {nam[c] : c \in K}
<1>1. V \in SUBSET Nat /\ V # {}
  OBVIOUS
<1>2. PICK v \in V : \A w \in V : v <= w
  <2> HIDE DEF V
  <2> QED BY <1>1, LeastNumber
<1> QED BY <1>2

\* Among some nodes of bounded names one has the greatest name.
LEMMA GreatestName ==
    ASSUME NEW nam \in [Nodes -> Nat], NEW K \in SUBSET Nodes, K # {},
           NEW v \in Nat, \A c \in K : nam[c] < v
    PROVE  \E x \in K : \A c \in K : nam[c] <= nam[x]
<1> DEFINE far == [c \in Nodes |-> IF c \in K THEN v - nam[c] ELSE 0]
<1>1. far \in [Nodes -> Nat]
  OBVIOUS
<1>2. PICK x \in K : \A c \in K : far[x] <= far[c]
  <2> HIDE DEF far
  <2> QED BY <1>1, SmallestName
<1>3. ASSUME NEW c \in K PROVE nam[c] <= nam[x]
  <2>1. v - nam[x] <= v - nam[c] /\ nam[x] \in Nat /\ nam[c] \in Nat
    BY <1>2
  <2> QED BY <2>1
<1> QED BY <1>3

\* The names of some nodes are bounded.
LEMMA NamesBounded ==
    ASSUME NEW nam \in [Nodes -> Nat], NEW K \in SUBSET Nodes
    PROVE  \E v \in Nat : \A c \in K : nam[c] < v
<1> DEFINE Above1(x) == {c \in K : nam[c] > nam[x]}
           many == [x \in Nodes |-> Cardinality(Above1(x))]
<1>1. ASSUME NEW x \in Nodes PROVE IsFiniteSet(Above1(x)) /\ Cardinality(Above1(x)) \in Nat
  <2>1. Above1(x) \subseteq Nodes /\ IsFiniteSet(Nodes)
    BY NodesFacts
  <2>2. IsFiniteSet(Above1(x))
    <3> HIDE DEF Above1
    <3> QED BY <2>1, FS_Subset
  <2> HIDE DEF Above1
  <2> QED BY <2>2, FS_CardinalityType
<1>2. many \in [Nodes -> Nat]
  BY <1>1
<1>3. CASE K = {}
  BY <1>3
<1>4. CASE K # {}
  <2>1. PICK x \in K : \A c \in K : many[x] <= many[c]
    <3> HIDE DEF many
    <3> QED BY <1>2, <1>4, SmallestName
  <2>2. ASSUME NEW c \in K PROVE nam[c] < nam[x] + 1
    <3>1. SUFFICES ASSUME nam[x] < nam[c] PROVE FALSE
      BY <3>1
    <3>2. Above1(c) \subseteq Above1(x) /\ c \in Above1(x) /\ c \notin Above1(c)
      BY <3>1
    <3>3. Cardinality(Above1(c)) < Cardinality(Above1(x))
      <4>1. IsFiniteSet(Above1(x)) /\ Above1(c) # Above1(x)
        BY <1>1, <3>2
      <4> HIDE DEF Above1
      <4> QED BY <3>2, <4>1, FS_Subset, FS_CardinalityType
    <3>4. many[x] <= many[c] /\ many[x] \in Nat /\ many[c] \in Nat
      BY <1>2, <2>1
    <3> QED BY <3>3, <3>4
  <2>3. nam[x] + 1 \in Nat
    OBVIOUS
  <2> QED BY <2>2, <2>3
<1> QED BY <1>3, <1>4

\* The place in a list where nodes begin which are not smaller than v: behind
\* the node pre, before the node y.
IsPlace(pre, nam, v, K) ==
    \/ pre = NoNode /\ \A c \in K : v <= nam[c]
    \/ pre \in K /\ nam[pre] < v /\ \A c \in K : nam[c] < v => nam[c] <= nam[pre]

IsAt(y, nam, v, K) ==
    \/ y = NoNode /\ \A c \in K : nam[c] < v
    \/ y \in K /\ v <= nam[y] /\ \A c \in K : nam[c] < v \/ nam[y] <= nam[c]

\* A walk has to stop at that place, and not before.
StopsAt(stop, nam, v, K) ==
    \A c \in K : /\ nam[c] < v => c \notin stop
                 /\ IsAt(c, nam, v, K) => c \in stop

\* A walk along an ordered list passes what has smaller names than a number v,
\* if it may pass these and has to stop at what comes next.
LEMMA PassedIs ==
    ASSUME NEW m, NEW d, NEW stop, NEW nam \in [Nodes -> Nat], NEW K \in SUBSET Nodes,
           Ordered(m.head[d], m.next, nam, K), NEW v \in Nat, StopsAt(stop, nam, v, K)
    PROVE  Passed(m, d, stop) = {c \in K : nam[c] < v}
<1> DEFINE P == {c \in K : nam[c] < v}
           Closed(S) == /\ m.head[d] \in S \cup stop \cup {NoNode}
                        /\ \A x \in S : m.next[x] \in S \cup stop \cup {NoNode}
<1>1. Passed(m, d, stop) = {x \in Nodes : \A S \in SUBSET Nodes : Closed(S) => x \in S}
  BY DEF Passed, Least
<1>2. Closed(P)
  <2>1. m.head[d] \in P \cup stop \cup {NoNode}
    <3>1. CASE K = {}
      BY <3>1 DEF Ordered, IsFirst
    <3>2. CASE K # {}
      <4>1. m.head[d] \in K /\ \A c \in K : nam[m.head[d]] <= nam[c]
        BY <3>2 DEF Ordered, IsFirst
      <4>2. nam[m.head[d]] \in Nat
        BY <4>1
      <4>3. ASSUME ~ (nam[m.head[d]] < v) PROVE m.head[d] \in stop
        <5>1. v <= nam[m.head[d]] /\ \A e \in K : nam[m.head[d]] <= nam[e]
          BY <4>1, <4>2, <4>3
        <5> QED BY <4>1, <5>1 DEF StopsAt, IsAt
      <4> QED BY <4>1, <4>3
    <3> QED BY <3>1, <3>2
  <2>2. ASSUME NEW x \in P PROVE m.next[x] \in P \cup stop \cup {NoNode}
    <3>1. IsNext(x, m.next[x], nam, K)
      BY DEF Ordered
    <3>2. CASE m.next[x] = NoNode
      BY <3>2
    <3>3. CASE m.next[x] # NoNode
      <4> DEFINE y == m.next[x]
      <4>1. y \in K /\ \A c \in K : nam[c] <= nam[x] \/ nam[y] <= nam[c]
        BY <3>1, <3>3 DEF IsNext
      <4>2. nam[x] \in Nat /\ nam[y] \in Nat /\ nam[x] < v /\ \A c \in K : nam[c] \in Nat
        BY <4>1
      <4>3. ASSUME ~ (nam[y] < v) PROVE y \in stop
        <5>1. v <= nam[y] /\ \A e \in K : nam[e] < v \/ nam[y] <= nam[e]
          BY <4>1, <4>2, <4>3
        <5> QED BY <4>1, <5>1 DEF StopsAt, IsAt
      <4> HIDE DEF y
      <4> QED BY <4>1, <4>3 DEF y
    <3> QED BY <3>2, <3>3
  <2> QED BY <2>1, <2>2
<1>3. ASSUME NEW S \in SUBSET Nodes, Closed(S) PROVE P \subseteq S
  <2> DEFINE Out == P \ S
  <2> SUFFICES ASSUME Out # {} PROVE FALSE
    OBVIOUS
  <2>1. PICK c \in Out : \A e \in Out : nam[c] <= nam[e]
    <3>1. Out \in SUBSET Nodes
      OBVIOUS
    <3> HIDE DEF Out
    <3> QED BY <3>1, SmallestName
  <2>2. c \in K /\ c # NoNode /\ c \notin stop /\ nam[c] < v /\ nam[c] \in Nat
    BY NodesFacts DEF StopsAt
  <2> DEFINE Smaller == {e \in K : nam[e] < nam[c]}
  <2>3. Smaller # {}
    <3>1. m.head[d] \in K /\ nam[m.head[d]] <= nam[c] /\ nam[m.head[d]] \in Nat
      BY <2>2 DEF Ordered, IsFirst
    <3>2. m.head[d] # c
      BY <1>3, <2>2
    <3>3. nam[m.head[d]] # nam[c]
      BY <2>2, <3>1, <3>2 DEF Ordered
    <3>4. m.head[d] \in Smaller
      BY <2>2, <3>1, <3>3
    <3> QED BY <3>4
  <2>4. PICK p \in Smaller : \A e \in Smaller : nam[e] <= nam[p]
    <3>1. Smaller \in SUBSET Nodes /\ \A e \in Smaller : nam[e] < nam[c]
      OBVIOUS
    <3> HIDE DEF Smaller
    <3> QED BY <2>2, <2>3, <3>1, GreatestName
  <2>5. p \in K /\ nam[p] < nam[c] /\ nam[p] \in Nat /\ nam[p] < v
    BY <2>2, <2>4
  <2>6. p \in S
    BY <2>1, <2>2, <2>5
  <2>7. m.next[p] = c
    <3>1. IsNext(p, m.next[p], nam, K)
      BY <2>5 DEF Ordered
    <3>2. ~ (nam[c] <= nam[p])
      BY <2>2, <2>5
    <3>3. m.next[p] \in K /\ nam[p] < nam[m.next[p]] /\ nam[m.next[p]] <= nam[c]
      BY <2>2, <3>1, <3>2 DEF IsNext
    <3>4. nam[m.next[p]] \in Nat
      BY <3>3
    <3>5. nam[m.next[p]] = nam[c]
      <4>1. ~ (nam[m.next[p]] < nam[c])
        BY <2>4, <2>5, <3>3, <3>4
      <4> QED BY <2>2, <3>3, <3>4, <4>1
    <3> QED BY <2>2, <3>3, <3>5 DEF Ordered
  <2> QED BY <1>3, <2>1, <2>2, <2>6, <2>7
<1>4. P \in SUBSET Nodes
  OBVIOUS
<1> HIDE DEF Closed, P
<1>5. Passed(m, d, stop) = P
  BY <1>1, <1>2, <1>3, <1>4
<1> QED BY <1>5 DEF P

\* A walk ends behind the last node that it may pass.
LEMMA BeforeIs ==
    ASSUME NEW m, NEW d, NEW stop, NEW nam \in [Nodes -> Nat], NEW K \in SUBSET Nodes,
           Ordered(m.head[d], m.next, nam, K), NEW v \in Nat, StopsAt(stop, nam, v, K)
    PROVE  IsPlace(Before(m, d, stop), nam, v, K)
<1> DEFINE P == {c \in K : nam[c] < v}
<1>1. Passed(m, d, stop) = P
  BY PassedIs
<1>2. \A c \in K : nam[c] \in Nat
  OBVIOUS
<1>3. CASE P = {}
  <2>1. Before(m, d, stop) = NoNode
    BY <1>1, <1>3 DEF Before
  <2>2. \A c \in K : v <= nam[c]
    BY <1>2, <1>3
  <2> QED BY <2>1, <2>2 DEF IsPlace
<1>4. CASE P # {}
  <2>1. Before(m, d, stop) = CHOOSE x \in P : m.next[x] \notin P
    BY <1>1, <1>4 DEF Before
  <2>2. PICK x \in P : \A c \in P : nam[c] <= nam[x]
    <3>1. P \in SUBSET Nodes /\ \A c \in P : nam[c] < v
      OBVIOUS
    <3> HIDE DEF P
    <3> QED BY <1>4, <3>1, GreatestName
  <2>3. m.next[x] \notin P
    <3>1. IsNext(x, m.next[x], nam, K)
      BY DEF Ordered
    <3>2. NoNode \notin P
      BY NodesFacts
    <3>3. ASSUME m.next[x] \in P PROVE FALSE
      <4>1. nam[x] < nam[m.next[x]] /\ nam[m.next[x]] <= nam[x] /\ nam[x] \in Nat
        BY <2>2, <3>1, <3>2, <3>3 DEF IsNext
      <4>2. nam[m.next[x]] \in Nat
        BY <1>2, <3>3
      <4> QED BY <4>1, <4>2
    <3> QED BY <3>3
  <2> DEFINE pre == CHOOSE w \in P : m.next[w] \notin P
  <2>4. pre \in P /\ m.next[pre] \notin P
    <3> HIDE DEF P
    <3> QED BY <2>3
  <2> HIDE DEF pre
  <2>5. pre \in K /\ nam[pre] < v /\ nam[pre] \in Nat
    BY <2>4
  <2>6. ASSUME NEW c \in K, nam[c] < v PROVE nam[c] <= nam[pre]
    <3>1. IsNext(pre, m.next[pre], nam, K)
      BY <2>5 DEF Ordered
    <3>2. CASE m.next[pre] = NoNode /\ \A e \in K : nam[e] <= nam[pre]
      BY <3>2
    <3>3. CASE /\ m.next[pre] \in K
               /\ \A e \in K : nam[e] <= nam[pre] \/ nam[m.next[pre]] <= nam[e]
      <4>1. ~ (nam[m.next[pre]] < v) /\ nam[m.next[pre]] \in Nat /\ nam[c] \in Nat
        BY <1>2, <2>4, <3>3
      <4> QED BY <2>6, <3>3, <4>1
    <3> QED BY <3>1, <3>2, <3>3 DEF IsNext
  <2>7. Before(m, d, stop) = pre
    BY <2>1 DEF pre
  <2> QED BY <2>5, <2>6, <2>7 DEF IsPlace
<1> QED BY <1>3, <1>4

\* The link behind that place leads to what is not smaller.
LEMMA AtIs ==
    ASSUME NEW m, NEW d, NEW pre, NEW nam \in [Nodes -> Nat], NEW K \in SUBSET Nodes,
           Ordered(m.head[d], m.next, nam, K), NEW v \in Nat, IsPlace(pre, nam, v, K)
    PROVE  IsAt(At(m, d, pre), nam, v, K)
<1>1. \A c \in K : nam[c] \in Nat
  OBVIOUS
<1>2. CASE pre = NoNode
  <2>1. At(m, d, pre) = m.head[d] /\ \A c \in K : v <= nam[c]
    BY <1>2, NodesFacts DEF At, IsPlace
  <2>2. CASE K = {}
    BY <2>1, <2>2 DEF Ordered, IsFirst, IsAt
  <2>3. CASE K # {}
    <3>1. m.head[d] \in K /\ \A c \in K : nam[m.head[d]] <= nam[c]
      BY <2>3 DEF Ordered, IsFirst
    <3> QED BY <2>1, <3>1 DEF IsAt
  <2> QED BY <2>2, <2>3
<1>3. CASE pre # NoNode
  <2> DEFINE y == m.next[pre]
  <2>1. At(m, d, pre) = y
    BY <1>3 DEF At
  <2>2. pre \in K /\ nam[pre] < v /\ \A c \in K : nam[c] < v => nam[c] <= nam[pre]
    BY <1>3 DEF IsPlace
  <2>3. IsNext(pre, y, nam, K)
    BY <2>2 DEF Ordered
  <2> HIDE DEF y
  <2>4. CASE y = NoNode /\ \A c \in K : nam[c] <= nam[pre]
    <3>1. \A c \in K : nam[c] < v
      BY <1>1, <2>2, <2>4
    <3> QED BY <2>1, <2>4, <3>1 DEF IsAt
  <2>5. CASE /\ y \in K /\ nam[pre] < nam[y]
             /\ \A c \in K : nam[c] <= nam[pre] \/ nam[y] <= nam[c]
    <3>1. v <= nam[y]
      BY <1>1, <2>2, <2>5
    <3>2. \A c \in K : nam[c] < v \/ nam[y] <= nam[c]
      BY <1>1, <2>2, <2>5
    <3> QED BY <2>1, <2>5, <3>1, <3>2 DEF IsAt
  <2> QED BY <2>3, <2>4, <2>5 DEF IsNext
<1> QED BY <1>2, <1>3

\* The link behind a place leads to y now, the others are as they were.
Relink(h, nx, hh, nn, pre, y, K) ==
    /\ pre = NoNode => hh = y
    /\ pre # NoNode => hh = h /\ nn[pre] = y
    /\ \A x \in K : x # pre => nn[x] = nx[x]

\* Taking a node out of an ordered list leaves it ordered.
LEMMA RemoveOrder ==
    ASSUME NEW h, NEW nx, NEW hh, NEW nn, NEW nam \in [Nodes -> Nat], NEW K \in SUBSET Nodes,
           Ordered(h, nx, nam, K), NEW n \in K, NEW pre, IsPlace(pre, nam, nam[n], K),
           Relink(h, nx, hh, nn, pre, nx[n], K)
    PROVE  Ordered(hh, nn, nam, K \ {n})
<1> DEFINE L == K \ {n}
<1>1. nam[n] \in Nat /\ (\A c \in K : nam[c] \in Nat) /\ NoNode \notin K /\ n # NoNode
  BY NodesFacts
<1>2. IsNext(n, nx[n], nam, K) /\ \A x, y \in K : nam[x] = nam[y] => x = y
  BY DEF Ordered
<1>3. pre # n
  BY <1>1 DEF IsPlace
<1>4. \A c \in L : nam[c] # nam[n]
  BY <1>2
<1>5. IsFirst(hh, nam, L)
  <2>1. CASE pre = NoNode
    <3>1. hh = nx[n] /\ \A c \in K : nam[n] <= nam[c]
      BY <1>1, <2>1 DEF Relink, IsPlace
    <3>2. \A c \in L : ~ (nam[c] <= nam[n])
      BY <1>1, <1>4, <3>1
    <3>3. CASE nx[n] = NoNode /\ \A c \in K : nam[c] <= nam[n]
      BY <3>1, <3>2, <3>3 DEF IsFirst
    <3>4. CASE /\ nx[n] \in K /\ nam[n] < nam[nx[n]]
               /\ \A c \in K : nam[c] <= nam[n] \/ nam[nx[n]] <= nam[c]
      BY <1>1, <3>1, <3>2, <3>4 DEF IsFirst
    <3> QED BY <1>2, <3>3, <3>4 DEF IsNext
  <2>2. CASE pre # NoNode
    <3>1. hh = h /\ pre \in L /\ nam[pre] < nam[n]
      BY <1>3, <2>2 DEF Relink, IsPlace
    <3>2. h \in K /\ \A c \in K : nam[h] <= nam[c]
      BY <3>1 DEF Ordered, IsFirst
    <3>3. h # n
      BY <1>1, <3>1, <3>2
    <3> QED BY <3>1, <3>2, <3>3 DEF IsFirst
  <2> QED BY <2>1, <2>2
<1>6. ASSUME NEW x \in L PROVE IsNext(x, nn[x], nam, L)
  <2>1. IsNext(x, nx[x], nam, K) /\ nam[x] \in Nat
    BY <1>1 DEF Ordered
  <2>2. CASE x = pre
    <3>1. nn[x] = nx[n] /\ nam[x] < nam[n] /\ \A c \in K : nam[c] < nam[n] => nam[c] <= nam[x]
      BY <1>1, <2>2 DEF Relink, IsPlace
    <3>2. \A c \in L : nam[c] <= nam[x] \/ ~ (nam[c] <= nam[n])
      BY <1>1, <1>4, <3>1
    <3>3. CASE nx[n] = NoNode /\ \A c \in K : nam[c] <= nam[n]
      BY <3>1, <3>2, <3>3 DEF IsNext
    <3>4. CASE /\ nx[n] \in K /\ nam[n] < nam[nx[n]]
               /\ \A c \in K : nam[c] <= nam[n] \/ nam[nx[n]] <= nam[c]
      <4>1. nx[n] \in L /\ nam[x] < nam[nx[n]]
        BY <1>1, <2>1, <3>1, <3>4
      <4>2. \A c \in L : nam[c] <= nam[x] \/ nam[nx[n]] <= nam[c]
        BY <3>2, <3>4
      <4> QED BY <3>1, <4>1, <4>2 DEF IsNext
    <3> QED BY <1>2, <3>3, <3>4 DEF IsNext
  <2>3. CASE x # pre
    <3>1. nn[x] = nx[x]
      BY <2>3 DEF Relink
    <3>2. nx[x] # n
      <4> SUFFICES ASSUME nx[x] = n PROVE FALSE
        OBVIOUS
      <4>1. nam[x] < nam[n] /\ \A c \in K : nam[c] <= nam[x] \/ nam[n] <= nam[c]
        BY <1>1, <2>1 DEF IsNext
      <4>2. pre \in K /\ nam[pre] < nam[n] /\ nam[x] <= nam[pre]
        BY <1>1, <2>1, <4>1 DEF IsPlace
      <4>3. nam[pre] <= nam[x]
        BY <1>1, <4>1, <4>2
      <4>4. nam[pre] = nam[x]
        BY <1>1, <2>1, <4>2, <4>3
      <4> QED BY <1>2, <2>3, <4>2, <4>4
    <3> QED BY <2>1, <3>1, <3>2 DEF IsNext
  <2> QED BY <2>2, <2>3
<1> QED BY <1>2, <1>5, <1>6 DEF Ordered

\* So does inserting one with a new name at its place,
LEMMA InsertOrder ==
    ASSUME NEW h, NEW nx, NEW hh, NEW nn, NEW nam \in [Nodes -> Nat], NEW K \in SUBSET Nodes,
           Ordered(h, nx, nam, K), NEW n \in Nodes \ K, \A c \in K : nam[c] # nam[n],
           NEW pre, NEW y, IsPlace(pre, nam, nam[n], K), IsAt(y, nam, nam[n], K),
           Relink(h, nx, hh, nn, pre, n, K), nn[n] = y
    PROVE  Ordered(hh, nn, nam, K \cup {n})
<1> DEFINE L == K \cup {n}
<1>1. nam[n] \in Nat /\ (\A c \in K : nam[c] \in Nat) /\ NoNode \notin K /\ n # NoNode
  BY NodesFacts
<1>2. \A x, z \in K : nam[x] = nam[z] => x = z
  BY DEF Ordered
<1>3. pre # n
  BY <1>1 DEF IsPlace
<1>4. IsFirst(hh, nam, L)
  <2>1. CASE pre = NoNode
    <3>1. hh = n /\ \A c \in K : nam[n] <= nam[c]
      BY <1>1, <2>1 DEF Relink, IsPlace
    <3> QED BY <1>1, <3>1 DEF IsFirst
  <2>2. CASE pre # NoNode
    <3>1. hh = h /\ pre \in K /\ nam[pre] < nam[n]
      BY <1>1, <2>2 DEF Relink, IsPlace
    <3>2. h \in K /\ \A c \in K : nam[h] <= nam[c]
      BY <3>1 DEF Ordered, IsFirst
    <3>3. nam[h] <= nam[n]
      BY <1>1, <3>1, <3>2
    <3> QED BY <3>1, <3>2, <3>3 DEF IsFirst
  <2> QED BY <2>1, <2>2
<1>5. IsNext(n, nn[n], nam, L)
  <2>1. CASE y = NoNode /\ \A c \in K : nam[c] < nam[n]
    BY <1>1, <2>1 DEF IsNext
  <2>2. CASE y \in K /\ nam[n] <= nam[y] /\ \A c \in K : nam[c] < nam[n] \/ nam[y] <= nam[c]
    <3>1. nam[n] < nam[y] /\ \A c \in L : nam[c] <= nam[n] \/ nam[y] <= nam[c]
      BY <1>1, <2>2
    <3> QED BY <2>2, <3>1 DEF IsNext
  <2> QED BY <2>1, <2>2 DEF IsAt
<1>6. ASSUME NEW x \in K PROVE IsNext(x, nn[x], nam, L)
  <2>1. IsNext(x, nx[x], nam, K) /\ nam[x] \in Nat
    BY <1>1 DEF Ordered
  <2>2. CASE x = pre
    <3>1. nn[x] = n /\ nam[x] < nam[n] /\ \A c \in K : nam[c] < nam[n] => nam[c] <= nam[x]
      BY <1>1, <2>2 DEF Relink, IsPlace
    <3>2. \A c \in L : nam[c] <= nam[x] \/ nam[n] <= nam[c]
      BY <1>1, <3>1
    <3> QED BY <3>1, <3>2 DEF IsNext
  <2>3. CASE x # pre
    <3>1. nn[x] = nx[x]
      BY <2>3 DEF Relink
    <3>2. CASE nx[x] = NoNode /\ \A c \in K : nam[c] <= nam[x]
      <4>1. nam[n] <= nam[x]
        <5> SUFFICES ASSUME nam[x] < nam[n] PROVE FALSE
          BY <1>1, <2>1
        <5>1. pre \in K /\ nam[x] <= nam[pre] /\ nam[pre] <= nam[x]
          BY <1>1, <2>1, <3>2 DEF IsPlace
        <5>2. nam[x] = nam[pre]
          BY <1>1, <2>1, <5>1
        <5> QED BY <1>2, <2>3, <5>1, <5>2
      <4> QED BY <3>1, <3>2, <4>1 DEF IsNext
    <3>3. CASE /\ nx[x] \in K /\ nam[x] < nam[nx[x]]
               /\ \A c \in K : nam[c] <= nam[x] \/ nam[nx[x]] <= nam[c]
      <4>1. nam[n] <= nam[x] \/ nam[nx[x]] <= nam[n]
        <5> SUFFICES ASSUME nam[x] < nam[n], nam[n] < nam[nx[x]] PROVE FALSE
          BY <1>1, <2>1, <3>3
        <5>1. pre \in K /\ nam[x] <= nam[pre] /\ nam[pre] < nam[n]
          BY <1>1, <2>1 DEF IsPlace
        <5>2. nam[pre] <= nam[x]
          BY <1>1, <2>1, <3>3, <5>1
        <5>3. nam[x] = nam[pre]
          BY <1>1, <2>1, <5>1, <5>2
        <5> QED BY <1>2, <2>3, <5>1, <5>3
      <4> QED BY <3>1, <3>3, <4>1 DEF IsNext
    <3> QED BY <2>1, <3>2, <3>3 DEF IsNext
  <2> QED BY <2>2, <2>3
<1>7. \A x, z \in L : nam[x] = nam[z] => x = z
  BY <1>2
<1> QED BY <1>4, <1>5, <1>6, <1>7 DEF Ordered

\* and putting one in the place of another of the same name.
LEMMA ReplaceOrder ==
    ASSUME NEW h, NEW nx, NEW hh, NEW nn, NEW nam \in [Nodes -> Nat], NEW K \in SUBSET Nodes,
           Ordered(h, nx, nam, K), NEW old \in K, NEW n \in Nodes \ K, nam[n] = nam[old],
           NEW pre, IsPlace(pre, nam, nam[n], K),
           Relink(h, nx, hh, nn, pre, n, K \ {old}), nn[n] = nx[old]
    PROVE  Ordered(hh, nn, nam, (K \ {old}) \cup {n})
<1> DEFINE L  == K \ {old}
           h1 == IF pre = NoNode THEN nx[old] ELSE h
           n1 == [x \in Nodes |-> IF x = pre THEN nx[old] ELSE nx[x]]
<1>1. nam[n] \in Nat /\ (\A c \in K : nam[c] \in Nat) /\ NoNode \notin K /\ pre # old
  <2>1. nam[n] \in Nat /\ (\A c \in K : nam[c] \in Nat) /\ NoNode \notin K
    BY NodesFacts
  <2>2. pre = NoNode \/ nam[pre] < nam[n]
    BY DEF IsPlace
  <2> QED BY <2>1, <2>2
<1>2. \A c \in L : nam[c] # nam[n]
  BY DEF Ordered
<1>3. pre \in K \cup {NoNode}
  BY DEF IsPlace
<1>4. Relink(h, nx, h1, n1, pre, nx[old], K)
  BY <1>3 DEF Relink
<1>5. Relink(h1, n1, hh, nn, pre, n, L)
  BY DEF Relink
<1>6. Ordered(h1, n1, nam, L)
  <2> HIDE DEF h1, n1, L
  <2> QED BY <1>4, RemoveOrder DEF L
<1>7. IsPlace(pre, nam, nam[n], L)
  BY <1>1 DEF IsPlace
<1>8. IsAt(nx[old], nam, nam[n], L)
  <2>1. IsNext(old, nx[old], nam, K)
    BY DEF Ordered
  <2>2. CASE nx[old] = NoNode /\ \A c \in K : nam[c] <= nam[old]
    <3>1. \A c \in L : nam[c] < nam[n]
      BY <1>1, <1>2, <2>2
    <3> QED BY <2>2, <3>1 DEF IsAt
  <2>3. CASE /\ nx[old] \in K /\ nam[old] < nam[nx[old]]
             /\ \A c \in K : nam[c] <= nam[old] \/ nam[nx[old]] <= nam[c]
    <3>1. nx[old] \in L /\ nam[n] <= nam[nx[old]]
      BY <1>1, <2>3
    <3>2. \A c \in L : nam[c] < nam[n] \/ nam[nx[old]] <= nam[c]
      BY <1>1, <1>2, <2>3
    <3> QED BY <3>1, <3>2 DEF IsAt
  <2> QED BY <2>1, <2>2, <2>3 DEF IsNext
<1>9. n \in Nodes \ L /\ L \in SUBSET Nodes
  OBVIOUS
<1> HIDE DEF h1, n1, L
<1>10. Ordered(hh, nn, nam, L \cup {n})
  BY <1>2, <1>5, <1>6, <1>7, <1>8, <1>9, InsertOrder
<1> QED BY <1>10 DEF L

\* A list depends on the links and names of its nodes only.
LEMMA SameOrder ==
    ASSUME NEW h, NEW nx, NEW nam, NEW nn, NEW nam2, NEW K, Ordered(h, nx, nam, K),
           \A x \in K : nn[x] = nx[x] /\ nam2[x] = nam[x]
    PROVE  Ordered(h, nn, nam2, K)
<1>1. IsFirst(h, nam2, K)
  BY DEF Ordered, IsFirst
<1>2. ASSUME NEW x \in K PROVE IsNext(x, nn[x], nam2, K)
  BY DEF Ordered, IsNext
<1> QED BY <1>1, <1>2 DEF Ordered

-----------------------------------------------------------------------------
(* Freeing nodes                                                           *)

\* Fallen is closed under its rule, and has nothing else.
LEMMA FallenFacts ==
    ASSUME NEW m \in Memory, NEW n \in Nodes
    PROVE  /\ Fallen(m, n) \in SUBSET Nodes /\ n \in Fallen(m, n)
           /\ \A x \in Fallen(m, n) : x = n \/ (m.ref[x] = 1 /\ m.parent[x] \in Fallen(m, n))
           /\ \A c \in Nodes : m.ref[c] = 1 /\ m.parent[c] \in Fallen(m, n) => c \in Fallen(m, n)
<1> DEFINE F == Fallen(m, n)
           Closed(S) == n \in S /\ \A c \in Nodes : m.ref[c] = 1 /\ m.parent[c] \in S => c \in S
<1>1. F = {x \in Nodes : \A S \in SUBSET Nodes : Closed(S) => x \in S}
  BY DEF Fallen, Least
<1>2. n \in F
  BY <1>1
<1>3. ASSUME NEW c \in Nodes, m.ref[c] = 1, m.parent[c] \in F PROVE c \in F
  BY <1>1, <1>3
<1>4. ASSUME NEW x \in F, x # n PROVE m.ref[x] = 1 /\ m.parent[x] \in F
  <2> SUFFICES ASSUME ~ (m.ref[x] = 1 /\ m.parent[x] \in F) PROVE FALSE
    OBVIOUS
  <2> DEFINE G == F \ {x}
  <2>1. Closed(G)
    <3>1. ASSUME NEW c \in Nodes, m.ref[c] = 1, m.parent[c] \in G PROVE c \in G
      <4>1. c \in F
        BY <1>3, <3>1
      <4>2. c # x
        BY <3>1
      <4> QED BY <4>1, <4>2
    <3> QED BY <1>2, <1>4, <3>1
  <2>2. G \in SUBSET Nodes /\ x \notin G
    BY <1>1
  <2> HIDE DEF Closed, G
  <2> QED BY <1>1, <1>4, <2>1, <2>2
<1>5. F \in SUBSET Nodes
  BY <1>1
<1> HIDE DEF F
<1>6. /\ F \in SUBSET Nodes /\ n \in F
      /\ \A x \in F : x = n \/ (m.ref[x] = 1 /\ m.parent[x] \in F)
      /\ \A c \in Nodes : m.ref[c] = 1 /\ m.parent[c] \in F => c \in F
  <2>1. \A x \in F : x = n \/ (m.ref[x] = 1 /\ m.parent[x] \in F)
    BY <1>4
  <2>2. \A c \in Nodes : m.ref[c] = 1 /\ m.parent[c] \in F => c \in F
    BY <1>3
  <2> QED BY <1>2, <1>5, <2>1, <2>2
<1> QED BY <1>6 DEF F

\* What has fallen in memory q, and left its children without parent, when a
\* reference to n was given back.
Fell(m, q, n, gone) ==
    /\ \A x \in gone : x = n \/ m.parent[x] \in gone
    /\ n \in gone => m.parent[n] = NoNode
    /\ \A x \in gone : PosOf(m, x) = {} /\ DirOf(m, x) = {}
    /\ \A x \in Nodes :
          q.parent[x] = IF x \in gone \/ m.parent[x] \in gone THEN NoNode ELSE m.parent[x]
    /\ \A x \in Nodes \ gone : /\ q.next[x] = m.next[x] /\ q.name[x] = m.name[x]
                               /\ m.ref[x] > 0 => q.ref[x] > 0
    /\ \A d \in Dirs \ gone : q.head[d] = m.head[d] /\ q.count[d] = m.count[d]
    /\ \A d \in Dirs \cap gone : q.head[d] = NoNode /\ q.count[d] = 0
    /\ q.it = m.it /\ q.reg = m.reg

\* The owners of a node can be counted.
LEMMA Holders ==
    ASSUME NEW m \in Memory, NEW x
    PROVE  /\ IsFiniteSet(PosOf(m, x)) /\ Cardinality(PosOf(m, x)) \in Nat
           /\ IsFiniteSet(DirOf(m, x)) /\ Cardinality(DirOf(m, x)) \in Nat
           /\ Cardinality(PosOf(m, x)) = 0 => PosOf(m, x) = {}
           /\ Cardinality(DirOf(m, x)) = 0 => DirOf(m, x) = {}
           /\ Parents(m, x) \in {0, 1}
<1>1. IsFiniteSet(Iters) /\ PosOf(m, x) \in SUBSET Iters /\ DirOf(m, x) \in SUBSET Iters
  BY NTAssumption DEF PosOf, DirOf
<1>2. IsFiniteSet(PosOf(m, x)) /\ IsFiniteSet(DirOf(m, x))
  BY <1>1, FS_Subset
<1>3. Parents(m, x) \in {0, 1}
  BY DEF Parents
<1> QED BY <1>2, <1>3, FS_CardinalityType, FS_EmptySet

\* iso_node_unref() of an owner: the counts are right again.
LEMMA UnrefFell ==
    ASSUME NEW m \in Memory, NEW w \in [Nodes -> Nat], Owned(m, w), IsTree(m),
           NEW n \in Nodes, w[n] > 0
    PROVE  /\ UnrefOf(m, n) \in Memory
           /\ Owned(UnrefOf(m, n), [w EXCEPT ![n] = @ - 1])
           /\ \E gone \in SUBSET (Nodes \ {Root}) : Fell(m, UnrefOf(m, n), n, gone)
<1> DEFINE q == UnrefOf(m, n)
           v == [w EXCEPT ![n] = @ - 1]
           Pos(x) == Cardinality(PosOf(m, x))
           Dir(x) == Cardinality(DirOf(m, x))
<1>1. \A x \in Nodes : /\ w[x] \in Nat /\ Pos(x) \in Nat /\ Dir(x) \in Nat
                       /\ Parents(m, x) \in {0, 1} /\ m.ref[x] \in Nat
                       /\ m.ref[x] = w[x] + Parents(m, x) + Pos(x) + Dir(x)
  BY Holders DEF Owned, Memory
<1>2. ASSUME q.it = m.it
      PROVE  \A x \in Nodes : /\ Cardinality(PosOf(q, x)) = Pos(x)
                              /\ Cardinality(DirOf(q, x)) = Dir(x)
  BY <1>2 DEF PosOf, DirOf
<1>3. v \in [Nodes -> Nat] /\ v[n] = w[n] - 1 /\ \A x \in Nodes : x # n => v[x] = w[x]
  BY <1>1
<1>4. CASE m.ref[n] # 1
  <2>1. q = [m EXCEPT !.ref[n] = @ - 1]
    BY <1>4 DEF UnrefOf
  <2>2. m.ref[n] - 1 \in Nat
    BY <1>1
  <2>3. q \in Memory
    <3> DEFINE r == [m.ref EXCEPT ![n] = @ - 1]
    <3>1. r \in [Nodes -> Nat]
      BY <1>1, <2>2 DEF Memory
    <3>2. q = [m EXCEPT !.ref = r]
      BY <2>1 DEF Memory
    <3> HIDE DEF r, q
    <3> QED BY <3>1, <3>2 DEF Memory
  <2>4. /\ q.parent = m.parent /\ q.next = m.next /\ q.name = m.name /\ q.head = m.head
        /\ q.count = m.count /\ q.it = m.it /\ q.reg = m.reg
    BY <2>1 DEF Memory
  <2>5. q.ref[n] = m.ref[n] - 1 /\ \A x \in Nodes : x # n => q.ref[x] = m.ref[x]
    BY <2>1 DEF Memory
  <2>6. Owned(q, v)
    <3> SUFFICES ASSUME NEW x \in Nodes
                 PROVE  q.ref[x] = v[x] + Parents(q, x) + Cardinality(PosOf(q, x))
                                   + Cardinality(DirOf(q, x))
      BY DEF Owned
    <3>1. /\ Cardinality(PosOf(q, x)) = Pos(x) /\ Cardinality(DirOf(q, x)) = Dir(x)
          /\ Parents(q, x) = Parents(m, x)
      BY <1>2, <2>4 DEF Parents
    <3> HIDE DEF q, v, Pos, Dir
    <3> QED BY <1>1, <1>3, <2>5, <3>1
  <2>7. Fell(m, q, n, {}) /\ {} \in SUBSET (Nodes \ {Root})
    <3>1. \A x \in Nodes : m.ref[x] > 0 => q.ref[x] > 0
      <4> HIDE DEF q
      <4> QED BY <1>1, <1>4, <2>5
    <3> HIDE DEF q
    <3> QED BY <2>4, <3>1 DEF Fell
  <2> QED BY <2>3, <2>6, <2>7
<1>5. CASE m.ref[n] = 1
  <2> DEFINE gone == Fallen(m, n)
             left == {c \in Nodes \ gone : m.parent[c] \in gone}
  <2>1. /\ gone \in SUBSET Nodes /\ n \in gone
        /\ \A x \in gone : x = n \/ (m.ref[x] = 1 /\ m.parent[x] \in gone)
        /\ \A c \in Nodes : m.ref[c] = 1 /\ m.parent[c] \in gone => c \in gone
    BY FallenFacts
  <2>2. q = [m EXCEPT
           !.ref    = [x \in Nodes |-> IF x \in gone THEN 0
                                       ELSE IF x \in left THEN @[x] - 1 ELSE @[x]],
           !.parent = [x \in Nodes |-> IF x \in gone \cup left THEN NoNode ELSE @[x]],
           !.next   = [x \in Nodes |-> IF x \in gone THEN NoNode ELSE @[x]],
           !.name   = [x \in Nodes |-> IF x \in gone THEN 0 ELSE @[x]],
           !.head   = [d \in Dirs |-> IF d \in gone THEN NoNode ELSE @[d]],
           !.count  = [d \in Dirs |-> IF d \in gone THEN 0 ELSE @[d]]]
    BY <1>5 DEF UnrefOf
  <2> HIDE DEF gone, q
  <2>3. NoNode \notin gone
    BY <2>1, NodesFacts
  <2>4. /\ q.ref    = [x \in Nodes |-> IF x \in gone THEN 0
                                       ELSE IF x \in left THEN m.ref[x] - 1 ELSE m.ref[x]]
        /\ q.parent = [x \in Nodes |-> IF x \in gone \cup left THEN NoNode ELSE m.parent[x]]
        /\ q.next   = [x \in Nodes |-> IF x \in gone THEN NoNode ELSE m.next[x]]
        /\ q.name   = [x \in Nodes |-> IF x \in gone THEN 0 ELSE m.name[x]]
        /\ q.head   = [d \in Dirs |-> IF d \in gone THEN NoNode ELSE m.head[d]]
        /\ q.count  = [d \in Dirs |-> IF d \in gone THEN 0 ELSE m.count[d]]
        /\ q.it = m.it /\ q.reg = m.reg
    <3> HIDE DEF left
    <3> QED BY <2>2 DEF Memory
  <2>5. \A x \in left : m.parent[x] # NoNode /\ Parents(m, x) = 1 /\ m.ref[x] >= 1 /\ x # n
    <3> SUFFICES ASSUME NEW x \in left
                 PROVE  m.parent[x] # NoNode /\ Parents(m, x) = 1 /\ m.ref[x] >= 1 /\ x # n
      OBVIOUS
    <3>1. x \in Nodes /\ m.parent[x] # NoNode /\ x # n
      BY <2>1, <2>3
    <3>2. Parents(m, x) = 1
      BY <3>1 DEF Parents
    <3> HIDE DEF left, Pos, Dir
    <3> QED BY <1>1, <3>1, <3>2
  <2>6. q \in Memory
    <3>1. q.ref \in [Nodes -> Nat]
      <4> SUFFICES ASSUME NEW x \in Nodes
                   PROVE (IF x \in gone THEN 0 ELSE IF x \in left THEN m.ref[x] - 1 ELSE m.ref[x]) \in Nat
        BY <2>4
      <4>1. m.ref[x] \in Nat /\ (x \in left => m.ref[x] >= 1)
        BY <1>1, <2>5
      <4> HIDE DEF left
      <4> QED BY <4>1
    <3>2. /\ q.parent \in [Nodes -> Dirs \cup {NoNode}] /\ q.next \in [Nodes -> Nodes \cup {NoNode}]
          /\ q.name \in [Nodes -> Nat] /\ q.head \in [Dirs -> Nodes \cup {NoNode}]
          /\ q.count \in [Dirs -> Nat]
      <4> HIDE DEF left
      <4> QED BY <2>4 DEF Memory
    <3> HIDE DEF left
    <3> QED BY <2>2, <3>1, <3>2 DEF Memory
  <2>7. ASSUME NEW x \in gone
        PROVE  /\ v[x] = 0 /\ Pos(x) = 0 /\ Dir(x) = 0
               /\ x = n => m.parent[x] = NoNode
    <3>1. x \in Nodes
      BY <2>1
    <3>2. CASE x = n
      <4>1. Parents(m, n) = 0 /\ Pos(n) = 0 /\ Dir(n) = 0 /\ v[n] = 0
        <5> HIDE DEF Pos, Dir, v
        <5> QED BY <1>1, <1>3, <1>5, SMTT(30)
      <4>2. m.parent[n] = NoNode
        BY <4>1 DEF Parents
      <4> QED BY <3>2, <4>1, <4>2
    <3>3. CASE x # n
      <4>1. m.ref[x] = 1 /\ m.parent[x] # NoNode
        BY <2>1, <2>3, <3>3
      <4>2. Parents(m, x) = 1
        BY <4>1 DEF Parents
      <4> HIDE DEF Pos, Dir, v
      <4> QED BY <1>1, <1>3, <3>1, <3>3, <4>1, <4>2
    <3> QED BY <3>2, <3>3
  <2>8. Owned(q, v)
    <3> SUFFICES ASSUME NEW x \in Nodes
                 PROVE  q.ref[x] = v[x] + Parents(q, x) + Cardinality(PosOf(q, x))
                                   + Cardinality(DirOf(q, x))
      BY DEF Owned
    <3>1. Cardinality(PosOf(q, x)) = Pos(x) /\ Cardinality(DirOf(q, x)) = Dir(x)
      BY <1>2, <2>4
    <3>2. CASE x \in gone
      <4>1. q.ref[x] = 0 /\ Parents(q, x) = 0
        BY <2>4, <3>2 DEF Parents
      <4> HIDE DEF Pos, Dir, v
      <4> QED BY <2>7, <3>1, <3>2, <4>1
    <3>3. CASE x \in left
      <4>1. q.ref[x] = m.ref[x] - 1 /\ Parents(q, x) = 0
        BY <2>4, <3>3 DEF Parents
      <4>2. Parents(m, x) = 1 /\ x # n
        BY <2>5, <3>3
      <4> HIDE DEF Pos, Dir, v, left
      <4> QED BY <1>1, <1>3, <3>1, <4>1, <4>2
    <3>4. CASE x \notin gone /\ x \notin left
      <4>1. q.ref[x] = m.ref[x] /\ Parents(q, x) = Parents(m, x) /\ x # n
        BY <2>1, <2>4, <3>4 DEF Parents
      <4> HIDE DEF Pos, Dir, v, left
      <4> QED BY <1>1, <1>3, <3>1, <4>1
    <3> QED BY <3>2, <3>3, <3>4
  <2>9. Root \notin gone
    <3>1. m.parent[Root] = Root /\ Root \in Nodes /\ Root # NoNode
      BY NodesFacts DEF IsTree
    <3>2. SUFFICES ASSUME Root \in gone PROVE FALSE
      OBVIOUS
    <3>3. Root # n
      BY <2>7, <3>1, <3>2
    <3> DEFINE G == gone \ {Root}
    <3>4. n \in G /\ \A c \in Nodes : m.ref[c] = 1 /\ m.parent[c] \in G => c \in G
      BY <2>1, <3>1, <3>3
    <3>5. G \in SUBSET Nodes /\ Root \notin G
      BY <2>1
    <3> HIDE DEF G
    <3>6. gone \subseteq G
      BY <3>4, <3>5 DEF gone, Fallen, Least
    <3> QED BY <3>2, <3>5, <3>6
  <2>10. Fell(m, q, n, gone)
    <3>1. \A x \in gone : PosOf(m, x) = {} /\ DirOf(m, x) = {}
      BY <2>7, Holders
    <3>2. \A x \in gone : x = n \/ m.parent[x] \in gone
      BY <2>1
    <3>3. n \in gone => m.parent[n] = NoNode
      BY <2>7
    <3>4. \A x \in Nodes :
            q.parent[x] = IF x \in gone \/ m.parent[x] \in gone THEN NoNode ELSE m.parent[x]
      BY <2>4
    <3>5. /\ \A x \in Nodes \ gone : q.next[x] = m.next[x] /\ q.name[x] = m.name[x]
          /\ \A d \in Dirs \ gone : q.head[d] = m.head[d] /\ q.count[d] = m.count[d]
          /\ \A d \in Dirs \cap gone : q.head[d] = NoNode /\ q.count[d] = 0
          /\ q.it = m.it /\ q.reg = m.reg
      <4> HIDE DEF left
      <4> QED BY <2>4
    <3>6. ASSUME NEW x \in Nodes \ gone, m.ref[x] > 0 PROVE q.ref[x] > 0
      <4>1. CASE x \in left
        <5>1. m.ref[x] # 1 /\ m.ref[x] \in Nat /\ q.ref[x] = m.ref[x] - 1
          BY <1>1, <2>1, <2>4, <4>1
        <5> QED BY <3>6, <5>1
      <4>2. CASE x \notin left
        BY <2>4, <3>6, <4>2
      <4> QED BY <4>1, <4>2
    <3> QED BY <3>1, <3>2, <3>3, <3>4, <3>5, <3>6 DEF Fell
  <2> QED BY <2>1, <2>6, <2>8, <2>9, <2>10 DEF q
<1> QED BY <1>4, <1>5

\* What it leaves is a tree,
LEMMA FellTree ==
    ASSUME NEW m \in Memory, NEW q, IsTree(m), NEW n, NEW gone \in SUBSET (Nodes \ {Root}),
           Fell(m, q, n, gone)
    PROVE  IsTree(q)
<1>1. Root \in Nodes /\ Root \notin gone /\ m.parent[Root] = Root
  BY NodesFacts DEF IsTree
<1>2. q.parent[Root] = Root
  BY <1>1 DEF Fell
<1>3. ASSUME NEW x \in Nodes, q.parent[x] # NoNode PROVE q.ref[q.parent[x]] > 0
  <2>1. q.parent[x] = m.parent[x] /\ m.parent[x] \notin gone
    BY <1>3 DEF Fell
  <2>2. m.parent[x] \in Nodes /\ m.ref[m.parent[x]] > 0
    BY <1>3, <2>1, NodesFacts DEF IsTree, Memory
  <2>3. \A p \in Nodes \ gone : m.ref[p] > 0 => q.ref[p] > 0
    BY DEF Fell
  <2> QED BY <2>1, <2>2, <2>3
<1>4. NoLoop(q.parent)
  <2> SUFFICES ASSUME NEW S \in SUBSET (Nodes \ {Root}), S # {}
               PROVE  \E x \in S : q.parent[x] \notin S
    BY DEF NoLoop
  <2>1. PICK x \in S : m.parent[x] \notin S
    BY DEF IsTree, NoLoop
  <2>2. q.parent[x] \in {NoNode, m.parent[x]}
    BY DEF Fell
  <2> QED BY <2>1, <2>2, NodesFacts
<1> QED BY <1>2, <1>3, <1>4 DEF IsTree

\* and the remaining directories keep their children,
LEMMA FellKids ==
    ASSUME NEW m \in Memory, NEW q, NEW n \in Nodes, NEW gone \in SUBSET (Nodes \ {Root}),
           Fell(m, q, n, gone), NEW d \in Dirs
    PROVE  /\ d \in gone => Kids(q, d) = {}
           /\ d \notin gone => Kids(q, d) = Kids(m, d)
           /\ d \notin gone => \A x \in Kids(m, d) : x \in Nodes \ gone
<1>1. d # NoNode
  BY NodesFacts
<1>2. \A x \in Kids(m, d) : d \notin gone => x \notin gone
  BY <1>1 DEF Kids, Fell
<1>3. ASSUME NEW x \in Nodes
      PROVE  q.parent[x] = IF x \in gone \/ m.parent[x] \in gone THEN NoNode ELSE m.parent[x]
  BY DEF Fell
<1>4. d \in gone => Kids(q, d) = {}
  BY <1>1, <1>3 DEF Kids
<1>5. d \notin gone => Kids(q, d) = Kids(m, d)
  BY <1>1, <1>2, <1>3 DEF Kids
<1>6. Kids(m, d) \subseteq Nodes
  BY DEF Kids
<1> QED BY <1>2, <1>4, <1>5, <1>6

\* in lists as sound as they were.
LEMMA FellList ==
    ASSUME NEW m \in Memory, NEW q, NEW n \in Nodes, NEW gone \in SUBSET (Nodes \ {Root}),
           Fell(m, q, n, gone), NEW d \in Dirs, IsList(m, d)
    PROVE  IsList(q, d)
<1> SUFFICES /\ Ordered(q.head[d], q.next, q.name, Kids(q, d))
             /\ q.count[d] = Cardinality(Kids(q, d))
  BY DEF IsList
<1>1. CASE d \in gone
  <2>1. q.head[d] = NoNode /\ q.count[d] = 0 /\ Kids(q, d) = {}
    <3>1. Kids(q, d) = {}
      BY <1>1, FellKids
    <3> QED BY <1>1, <3>1 DEF Fell
  <2>2. Ordered(q.head[d], q.next, q.name, {})
    BY <2>1 DEF Ordered, IsFirst
  <2> QED BY <2>1, <2>2, FS_EmptySet
<1>2. CASE d \notin gone
  <2>1. q.head[d] = m.head[d] /\ q.count[d] = m.count[d] /\ Kids(q, d) = Kids(m, d)
    <3>1. Kids(q, d) = Kids(m, d)
      BY <1>2, FellKids
    <3> QED BY <1>2, <3>1 DEF Fell
  <2>2. \A x \in Kids(m, d) : q.next[x] = m.next[x] /\ q.name[x] = m.name[x]
    <3>1. \A x \in Kids(m, d) : x \in Nodes \ gone
      BY <1>2, FellKids
    <3> QED BY <3>1 DEF Fell
  <2>3. Ordered(m.head[d], m.next, m.name, Kids(m, d)) /\ m.count[d] = Cardinality(Kids(m, d))
    BY DEF IsList
  <2>4. Ordered(m.head[d], q.next, q.name, Kids(m, d))
    BY <2>2, <2>3, SameOrder
  <2> QED BY <2>1, <2>3, <2>4
<1> QED BY <1>1, <1>2

\* What the model keeps between calls of the library, and mostly within them.
Sane(m, w) == m \in Memory /\ w \in [Nodes -> Nat] /\ Owned(m, w) /\ IsTree(m) /\ Lists(m)

\* What an iterator sees of its directory is the same.
SameView(m, q) ==
    /\ q.it = m.it /\ q.reg = m.reg
    /\ \A d \in Dirs : DirOf(m, d) # {} =>
          Kids(q, d) = Kids(m, d) /\ \A x \in Kids(m, d) : q.name[x] = m.name[x]

\* iso_node_unref()
LEMMA UnrefSane ==
    ASSUME NEW m, NEW w, Sane(m, w), NEW n \in Nodes, w[n] > 0
    PROVE  /\ Sane(UnrefOf(m, n), [w EXCEPT ![n] = @ - 1])
           /\ SameView(m, UnrefOf(m, n))
<1> DEFINE q == UnrefOf(m, n)
           v == [w EXCEPT ![n] = @ - 1]
<1>1. m \in Memory /\ w \in [Nodes -> Nat] /\ Owned(m, w) /\ IsTree(m) /\ Lists(m)
  BY DEF Sane
<1>2. q \in Memory /\ Owned(q, v)
  BY <1>1, UnrefFell
<1>3. PICK gone \in SUBSET (Nodes \ {Root}) : Fell(m, q, n, gone)
  BY <1>1, UnrefFell
<1>4. v \in [Nodes -> Nat]
  <2>1. w[n] \in Nat /\ w[n] - 1 \in Nat
    BY <1>1
  <2> QED BY <1>1, <2>1
<1> HIDE DEF q, v
<1>5. IsTree(q)
  BY <1>1, <1>3, FellTree
<1>6. Lists(q)
  BY <1>1, <1>3, FellList DEF Lists
<1>7. SameView(m, q)
  <2>1. q.it = m.it /\ q.reg = m.reg
    BY <1>3 DEF Fell
  <2>2. ASSUME NEW d \in Dirs, DirOf(m, d) # {}
        PROVE  Kids(q, d) = Kids(m, d) /\ \A x \in Kids(m, d) : q.name[x] = m.name[x]
    <3>1. d \notin gone
      BY <1>3, <2>2 DEF Fell
    <3>2. Kids(q, d) = Kids(m, d) /\ \A x \in Kids(m, d) : x \in Nodes \ gone
      BY <1>1, <1>3, <3>1, FellKids
    <3>3. \A x \in Nodes \ gone : q.name[x] = m.name[x]
      BY <1>3 DEF Fell
    <3> QED BY <3>2, <3>3
  <2> QED BY <2>1, <2>2 DEF SameView
<1> QED BY <1>2, <1>4, <1>5, <1>6, <1>7 DEF Sane, q, v

-----------------------------------------------------------------------------
(* Inserting                                                               *)

\* Only links differ.
SameButLinks(m, q) ==
    /\ q.ref = m.ref /\ q.parent = m.parent /\ q.name = m.name
    /\ q.count = m.count /\ q.it = m.it /\ q.reg = m.reg

\* One link changes.
LEMMA SetLinkFacts ==
    ASSUME NEW m \in Memory, NEW d \in Dirs, NEW pre \in Nodes \cup {NoNode},
           NEW n \in Nodes \cup {NoNode}, NEW q, q = SetLink(m, d, pre, n)
    PROVE  q \in Memory /\ SameButLinks(m, q)
<1>1. CASE pre = NoNode
  BY <1>1 DEF SetLink, Memory, SameButLinks
<1>2. CASE pre # NoNode
  <2> pre \in Nodes
    BY <1>2
  <2> QED BY <1>2 DEF SetLink, Memory, SameButLinks
<1> QED BY <1>1, <1>2

\* The link of a list changes.
Relinked(m, q, d, pre, n, K) ==
    /\ Relink(m.head[d], m.next, q.head[d], q.next, pre, n, K)
    /\ \A e \in Dirs : e # d => q.head[e] = m.head[e]
    /\ \A x \in Nodes : x # pre => q.next[x] = m.next[x]

\* Which is what the list needs.
LEMMA SetLinkRelinks ==
    ASSUME NEW m \in Memory, NEW d \in Dirs, NEW pre \in Nodes \cup {NoNode},
           NEW n \in Nodes \cup {NoNode}, NEW q, q = SetLink(m, d, pre, n), NEW K \in SUBSET Nodes
    PROVE  Relinked(m, q, d, pre, n, K)
<1>1. m.head \in [Dirs -> Nodes \cup {NoNode}] /\ m.next \in [Nodes -> Nodes \cup {NoNode}]
  BY DEF Memory
<1>2. CASE pre = NoNode
  <2>1. q.head = [m.head EXCEPT ![d] = n] /\ q.next = m.next /\ NoNode \notin Nodes
    BY <1>2, NodesFacts DEF SetLink, Memory
  <2> QED BY <1>1, <1>2, <2>1 DEF Relink, Relinked
<1>3. CASE pre # NoNode
  <2>1. q.head = m.head /\ q.next = [m.next EXCEPT ![pre] = n] /\ pre \in Nodes
    BY <1>3 DEF SetLink, Memory
  <2> QED BY <1>1, <1>3, <2>1 DEF Relink, Relinked
<1> QED BY <1>2, <1>3

\* iso_dir_find() finds the place of a name.
LEMMA PlaceIs ==
    ASSUME NEW m \in Memory, NEW d \in Dirs, IsList(m, d), NEW v \in Nat
    PROVE  LET pre == PlaceOf(m, d, v)
           IN  /\ pre \in Kids(m, d) \cup {NoNode} /\ pre \in Nodes \cup {NoNode}
               /\ IsPlace(pre, m.name, v, Kids(m, d))
               /\ IsAt(At(m, d, pre), m.name, v, Kids(m, d))
<1> DEFINE K == Kids(m, d)
           stop == {c \in Nodes : m.name[c] >= v}
           pre == PlaceOf(m, d, v)
<1>1. K \in SUBSET Nodes /\ m.name \in [Nodes -> Nat] /\ Ordered(m.head[d], m.next, m.name, K)
  BY DEF Kids, Memory, IsList
<1>2. \A c \in K : c \in Nodes /\ m.name[c] \in Nat /\ c # NoNode
  BY <1>1, NodesFacts
<1> HIDE DEF K
<1>3. StopsAt(stop, m.name, v, K)
  BY <1>2 DEF StopsAt, IsAt
<1>4. pre = Before(m, d, stop)
  BY DEF PlaceOf
<1> HIDE DEF stop, pre
<1>5. IsPlace(pre, m.name, v, K)
  BY <1>1, <1>3, <1>4, BeforeIs
<1>6. IsAt(At(m, d, pre), m.name, v, K)
  BY <1>1, <1>5, AtIs
<1>7. pre \in K \cup {NoNode}
  BY <1>5 DEF IsPlace
<1> QED BY <1>1, <1>5, <1>6, <1>7 DEF K, pre

\* A node gets a parent: the reference of its owner goes to the directory.
LEMMA OwnParent ==
    ASSUME NEW m \in Memory, NEW w \in [Nodes -> Nat], Owned(m, w), NEW n \in Nodes, NEW d \in Dirs,
           m.parent[n] = NoNode, w[n] > 0, NEW q, q.ref = m.ref, q.it = m.it,
           q.parent = [m.parent EXCEPT ![n] = d]
    PROVE  Owned(q, [w EXCEPT ![n] = @ - 1])
<1> SUFFICES ASSUME NEW x \in Nodes
             PROVE  q.ref[x] = [w EXCEPT ![n] = @ - 1][x] + Parents(q, x)
                               + Cardinality(PosOf(q, x)) + Cardinality(DirOf(q, x))
  BY DEF Owned
<1> DEFINE p == Cardinality(PosOf(m, x))
           c == Cardinality(DirOf(m, x))
<1>1. Cardinality(PosOf(q, x)) = p /\ Cardinality(DirOf(q, x)) = c
  BY DEF PosOf, DirOf
<1>2. /\ m.ref[x] = w[x] + Parents(m, x) + p + c /\ p \in Nat /\ c \in Nat /\ w[x] \in Nat
      /\ Parents(m, x) \in {0, 1}
  BY Holders DEF Owned
<1>3. CASE x = n
  <2>1. Parents(m, x) = 0 /\ Parents(q, x) = 1 /\ [w EXCEPT ![n] = @ - 1][x] = w[x] - 1
    BY <1>3, NodesFacts DEF Parents, Memory
  <2> HIDE DEF p, c
  <2> QED BY <1>1, <1>2, <2>1
<1>4. CASE x # n
  <2>1. Parents(m, x) = Parents(q, x) /\ [w EXCEPT ![n] = @ - 1][x] = w[x]
    BY <1>4 DEF Parents, Memory
  <2> HIDE DEF p, c
  <2> QED BY <1>1, <1>2, <2>1
<1> QED BY <1>3, <1>4

\* What an iterator sees of an insertion.
InsertView(m, q, d, n) ==
    /\ q.it = m.it /\ q.reg = m.reg
    /\ Kids(q, d) = {x \in Kids(m, d) : m.name[x] # m.name[n]} \cup {n}
    /\ \A x \in Kids(q, d) : q.name[x] = m.name[x]
    /\ \A e \in Dirs \ {d} : DirOf(m, e) # {} =>
          Kids(q, e) = Kids(m, e) /\ \A x \in Kids(m, e) : q.name[x] = m.name[x]

\* A node gets its directory as parent, which makes no loop.
LEMMA ParentTree ==
    ASSUME NEW m \in Memory, IsTree(m), NEW n \in Nodes \ {Root}, NEW d \in Dirs, m.ref[d] > 0,
           NoLoop([m.parent EXCEPT ![n] = d]), NEW q, q.ref = m.ref,
           q.parent = [m.parent EXCEPT ![n] = d]
    PROVE  IsTree(q)
<1>1. q.parent[Root] = Root
  BY NodesFacts DEF IsTree, Memory
<1>2. ASSUME NEW x \in Nodes, q.parent[x] # NoNode PROVE q.ref[q.parent[x]] > 0
  <2>1. q.parent[x] = IF x = n THEN d ELSE m.parent[x]
    BY DEF Memory
  <2> QED BY <1>2, <2>1 DEF IsTree
<1> QED BY <1>1, <1>2 DEF IsTree

\* iso_dir_insert(): the name is new.
LEMMA InsertNew ==
    ASSUME NEW m, NEW w, Sane(m, w), NEW d \in Dirs, NEW n \in Nodes \ {Root},
           m.parent[n] = NoNode, w[n] > 0, m.ref[d] > 0, NoLoop([m.parent EXCEPT ![n] = d]),
           LET at == At(m, d, PlaceOf(m, d, m.name[n]))
           IN  ~ (at # NoNode /\ m.name[at] = m.name[n])
    PROVE  /\ Sane(InsertOf(m, d, n), [w EXCEPT ![n] = @ - 1])
           /\ InsertView(m, InsertOf(m, d, n), d, n)
<1> DEFINE v   == m.name[n]
           pre == PlaceOf(m, d, v)
           at  == At(m, d, pre)
           m1  == [m EXCEPT !.next[n] = at]
           m2  == SetLink(m1, d, pre, n)
           q   == [m2 EXCEPT !.parent[n] = d, !.count[d] = @ + 1]
           K   == Kids(m, d)
<1>1. m \in Memory /\ w \in [Nodes -> Nat] /\ Owned(m, w) /\ IsTree(m) /\ \A e \in Dirs : IsList(m, e)
  BY DEF Sane, Lists
<1>2. v \in Nat /\ n \in Nodes /\ n # Root
  BY <1>1 DEF Memory
<1>3. /\ pre \in K \cup {NoNode} /\ pre \in Nodes \cup {NoNode}
      /\ IsPlace(pre, m.name, v, K) /\ IsAt(at, m.name, v, K)
  <2> HIDE DEF v
  <2> QED BY <1>1, <1>2, PlaceIs
<1>4. q = InsertOf(m, d, n)
  BY DEF InsertOf
<1>5. K \in SUBSET Nodes /\ n \notin K /\ IsFiniteSet(K) /\ NoNode \notin K
  <2>1. K \in SUBSET Nodes /\ n \notin K
    BY NodesFacts DEF Kids
  <2> QED BY <2>1, NodesFacts, FS_Subset
<1>6. at \in K \cup {NoNode} /\ at \in Nodes \cup {NoNode}
  BY <1>3, <1>5 DEF IsAt
<1>7. /\ m1 \in Memory /\ m1.next = [m.next EXCEPT ![n] = at]
      /\ m1.ref = m.ref /\ m1.parent = m.parent /\ m1.name = m.name /\ m1.head = m.head
      /\ m1.count = m.count /\ m1.it = m.it /\ m1.reg = m.reg
  <2> HIDE DEF at
  <2> QED BY <1>1, <1>2, <1>6 DEF Memory
<1>30. m2 = SetLink(m1, d, pre, n) /\ n \in Nodes \cup {NoNode}
  BY <1>2
<1> HIDE DEF m1, m2, at, pre, v
<1>8. m2 \in Memory /\ SameButLinks(m1, m2)
  BY <1>3, <1>7, <1>30, SetLinkFacts
<1>31. /\ m2.ref = m.ref /\ m2.parent = m.parent /\ m2.name = m.name
      /\ m2.count = m.count /\ m2.it = m.it /\ m2.reg = m.reg
  BY <1>7, <1>8 DEF SameButLinks
<1>32. Relinked(m1, m2, d, pre, n, K)
  BY <1>3, <1>5, <1>7, <1>30, SetLinkRelinks
<1>9. /\ Relink(m1.head[d], m1.next, m2.head[d], m2.next, pre, n, K)
      /\ \A e \in Dirs : e # d => m2.head[e] = m1.head[e]
      /\ \A x \in Nodes : x # pre => m2.next[x] = m1.next[x]
  BY <1>32 DEF Relinked
<1>10. /\ q.parent = [m2.parent EXCEPT ![n] = d] /\ q.count = [m2.count EXCEPT ![d] = @ + 1]
       /\ q.ref = m2.ref /\ q.name = m2.name /\ q.head = m2.head /\ q.next = m2.next
       /\ q.it = m2.it /\ q.reg = m2.reg
  BY <1>2, <1>8 DEF Memory
<1>11. q \in Memory
  <2>1. m2.count[d] + 1 \in Nat
    BY <1>8 DEF Memory
  <2> QED BY <1>2, <1>8, <2>1 DEF Memory
<1> HIDE DEF q
<1>12. \A e \in Dirs : e # d => Kids(q, e) = Kids(m, e)
  <2>1. \A x \in Nodes : q.parent[x] = IF x = n THEN d ELSE m.parent[x]
    BY <1>1, <1>7, <1>8, <1>31, <1>10, SMTT(30) DEF Memory
  <2> QED BY <2>1, NodesFacts DEF Kids
<1>13. Kids(q, d) = K \cup {n}
  <2>1. \A x \in Nodes : q.parent[x] = IF x = n THEN d ELSE m.parent[x]
    BY <1>1, <1>7, <1>8, <1>31, <1>10 DEF Memory
  <2> QED BY <1>2, <2>1 DEF Kids
<1>14. \A c \in K : m.name[c] # m.name[n]
  <2>1. \A c \in K : m.name[c] \in Nat
    BY <1>1, <1>5 DEF Memory
  <2>2. CASE at = NoNode /\ \A c \in K : m.name[c] < v
    BY <1>2, <2>1, <2>2 DEF v
  <2>3. CASE at \in K /\ v <= m.name[at] /\ \A c \in K : m.name[c] < v \/ m.name[at] <= m.name[c]
    <3>1. m.name[at] # v
      BY <1>5, <2>3 DEF at, pre, v
    <3>2. \A c \in K : m.name[c] # v
      BY <1>2, <2>1, <2>3, <3>1
    <3> QED BY <3>2 DEF v
  <2> QED BY <1>3, <2>2, <2>3 DEF IsAt
<1>15. IsList(q, d)
  <2>1. Ordered(m.head[d], m.next, m.name, K) /\ m.count[d] = Cardinality(K)
    BY <1>1 DEF IsList
  <2>2. Relink(m.head[d], m.next, q.head[d], q.next, pre, n, K)
    <3>1. \A x \in K : m1.next[x] = m.next[x]
      BY <1>1, <1>5, <1>7 DEF Memory
    <3> QED BY <1>7, <1>9, <1>10, <3>1 DEF Relink
  <2>3. q.next[n] = at
    <3>1. pre # n
      BY <1>2, <1>3, <1>5, NodesFacts
    <3> QED BY <1>1, <1>2, <1>7, <1>9, <1>10, <3>1 DEF Memory
  <2>4. n \in Nodes \ K /\ m.name \in [Nodes -> Nat]
    BY <1>1, <1>2, <1>5 DEF Memory
  <2>5. Ordered(q.head[d], q.next, m.name, K \cup {n})
    <3> HIDE DEF K
    <3> QED BY <1>3, <1>5, <1>14, <2>1, <2>2, <2>3, <2>4, InsertOrder DEF v
  <2>6. q.count[d] = Cardinality(K \cup {n})
    <3>1. Cardinality(K \cup {n}) = Cardinality(K) + 1
      <4> HIDE DEF K
      <4> QED BY <1>5, FS_AddElement
    <3> QED BY <1>1, <1>7, <1>8, <1>31, <1>10, <2>1, <3>1 DEF Memory
  <2> QED BY <1>7, <1>8, <1>31, <1>10, <1>13, <2>5, <2>6 DEF IsList
<1>16. ASSUME NEW e \in Dirs, e # d PROVE IsList(q, e)
  <2>1. Ordered(m.head[e], m.next, m.name, Kids(m, e)) /\ m.count[e] = Cardinality(Kids(m, e))
    BY <1>1 DEF IsList
  <2>2. q.head[e] = m.head[e] /\ q.count[e] = m.count[e]
    BY <1>1, <1>7, <1>8, <1>31, <1>9, <1>10, <1>16 DEF Memory
  <2>3. \A x \in Kids(m, e) : x \in Nodes /\ x # n /\ x # pre
    BY <1>2, <1>3, <1>16, NodesFacts DEF Kids
  <2>4. \A x \in Kids(m, e) : q.next[x] = m.next[x] /\ q.name[x] = m.name[x]
    BY <1>1, <1>7, <1>8, <1>31, <1>9, <1>10, <2>3 DEF Memory
  <2>5. Ordered(m.head[e], q.next, q.name, Kids(m, e))
    BY <2>1, <2>4, SameOrder
  <2> QED BY <1>12, <1>16, <2>1, <2>2, <2>5 DEF IsList
<1>17. Owned(q, [w EXCEPT ![n] = @ - 1])
  <2>1. q.ref = m.ref /\ q.it = m.it /\ q.parent = [m.parent EXCEPT ![n] = d]
    BY <1>7, <1>8, <1>31, <1>10
  <2> QED BY <1>1, <1>2, <2>1, OwnParent
<1>18. IsTree(q)
  BY <1>1, <1>2, <1>7, <1>8, <1>31, <1>10, ParentTree
<1>19. [w EXCEPT ![n] = @ - 1] \in [Nodes -> Nat]
  <2>1. w[n] \in Nat /\ w[n] - 1 \in Nat
    BY <1>1, <1>2
  <2> QED BY <1>1, <2>1
<1>20. InsertView(m, q, d, n)
  <2>1. Kids(q, d) = {x \in K : m.name[x] # m.name[n]} \cup {n}
    BY <1>13, <1>14
  <2>2. q.it = m.it /\ q.reg = m.reg /\ q.name = m.name
    BY <1>7, <1>8, <1>31, <1>10
  <2> QED BY <1>12, <2>1, <2>2 DEF InsertView
<1>21. Lists(q)
  BY <1>15, <1>16 DEF Lists
<1>22. Sane(q, [w EXCEPT ![n] = @ - 1])
  BY <1>11, <1>17, <1>18, <1>19, <1>21 DEF Sane
<1> QED BY <1>4, <1>20, <1>22

\* A reference is taken and given back.
LEMMA GiveBack ==
    ASSUME NEW w \in [Nodes -> Nat], NEW n \in Nodes
    PROVE  [[w EXCEPT ![n] = @ + 1] EXCEPT ![n] = @ - 1] = w
<1> DEFINE u == [[w EXCEPT ![n] = @ + 1] EXCEPT ![n] = @ - 1]
<1>1. w[n] \in Nat /\ (w[n] + 1) - 1 = w[n]
  OBVIOUS
<1>2. u = [x \in Nodes |-> w[x]]
  BY <1>1
<1>3. w = [x \in Nodes |-> w[x]]
  OBVIOUS
<1> QED BY <1>2, <1>3

\* No directory falls with a child of it that gets replaced.
LEMMA NotFallen ==
    ASSUME NEW m \in Memory, IsTree(m), NEW d \in Dirs, NEW old \in Kids(m, d), NEW q,
           NEW gone \in SUBSET (Nodes \ {Root}), NEW m0 \in Memory, Fell(m0, q, old, gone),
           m0.parent = [m.parent EXCEPT ![old] = NoNode]
    PROVE  d \notin gone
<1> SUFFICES ASSUME d \in gone PROVE FALSE
  OBVIOUS
<1>1. PICK x \in gone : m.parent[x] \notin gone
  BY DEF IsTree, NoLoop
<1>2. x # old
  BY <1>1 DEF Kids
<1>3. m0.parent[x] \in gone
  BY <1>2 DEF Fell
<1>4. m0.parent[x] = m.parent[x]
  BY <1>2 DEF Memory
<1> QED BY <1>1, <1>3, <1>4

\* iso_dir_insert(): a child of the same name gets replaced.
LEMMA InsertOver ==
    ASSUME NEW m, NEW w, Sane(m, w), NEW d \in Dirs, NEW n \in Nodes \ {Root},
           m.parent[n] = NoNode, w[n] > 0, m.ref[d] > 0, NoLoop([m.parent EXCEPT ![n] = d]),
           LET at == At(m, d, PlaceOf(m, d, m.name[n]))
           IN  at # NoNode /\ m.name[at] = m.name[n]
    PROVE  /\ Sane(InsertOf(m, d, n), [w EXCEPT ![n] = @ - 1])
           /\ InsertView(m, InsertOf(m, d, n), d, n)
<1> DEFINE v   == m.name[n]
           pre == PlaceOf(m, d, v)
           old == At(m, d, pre)
           m0  == [m EXCEPT !.next[n] = m.next[old], !.parent[old] = NoNode, !.next[old] = NoNode]
           r   == UnrefOf(m0, old)
           s   == SetLink(r, d, pre, n)
           q   == [s EXCEPT !.parent[n] = d]
           K   == Kids(m, d)
           L   == K \ {old}
           w0  == [w EXCEPT ![old] = @ + 1]
<1>1. m \in Memory /\ w \in [Nodes -> Nat] /\ Owned(m, w) /\ IsTree(m) /\ \A e \in Dirs : IsList(m, e)
  BY DEF Sane, Lists
<1>2. v \in Nat /\ n \in Nodes /\ n # Root /\ n \in Nodes \cup {NoNode}
  BY <1>1 DEF Memory
<1>3. /\ pre \in K \cup {NoNode} /\ pre \in Nodes \cup {NoNode}
      /\ IsPlace(pre, m.name, v, K) /\ IsAt(old, m.name, v, K)
  <2> HIDE DEF v
  <2> QED BY <1>1, <1>2, PlaceIs
<1>4. q = InsertOf(m, d, n)
  BY DEF InsertOf
<1>5. K \in SUBSET Nodes /\ n \notin K /\ IsFiniteSet(K) /\ NoNode \notin K
  <2>1. K \in SUBSET Nodes /\ n \notin K
    BY NodesFacts DEF Kids
  <2> QED BY <2>1, NodesFacts, FS_Subset
<1>6. old \in K /\ m.name[old] = v /\ old \in Nodes /\ old # n
  <2>1. old # NoNode /\ m.name[old] = v
    BY DEF v, pre, old
  <2>2. old \in K
    BY <1>3, <2>1 DEF IsAt
  <2> QED BY <1>5, <2>1, <2>2
<1>7. m.parent[old] = d /\ old # Root
  BY <1>6 DEF Kids
<1> HIDE DEF old, pre, v
<1>8. /\ m0.next = [m.next EXCEPT ![n] = m.next[old], ![old] = NoNode]
      /\ m0.parent = [m.parent EXCEPT ![old] = NoNode]
      /\ m0.ref = m.ref /\ m0.name = m.name /\ m0.head = m.head
      /\ m0.count = m.count /\ m0.it = m.it /\ m0.reg = m.reg
  BY <1>1, <1>2, <1>6 DEF Memory
<1>9. m0 \in Memory
  <2>1. m.next[old] \in Nodes \cup {NoNode}
    BY <1>1, <1>6 DEF Memory
  <2> QED BY <1>1, <1>2, <1>6, <2>1 DEF Memory
<1> HIDE DEF m0
<1>10. w0 \in [Nodes -> Nat] /\ w0[old] = w[old] + 1 /\ w0[old] > 0 /\ w[old] \in Nat
  BY <1>1, <1>6
<1>11. \A x \in Nodes : m0.parent[x] = IF x = old THEN NoNode ELSE m.parent[x]
  BY <1>1, <1>8 DEF Memory
<1>12. Owned(m0, w0)
  <2> SUFFICES ASSUME NEW x \in Nodes
               PROVE  m0.ref[x] = w0[x] + Parents(m0, x) + Cardinality(PosOf(m0, x))
                                  + Cardinality(DirOf(m0, x))
    BY DEF Owned
  <2> DEFINE p == Cardinality(PosOf(m, x))
             c == Cardinality(DirOf(m, x))
  <2>1. Cardinality(PosOf(m0, x)) = p /\ Cardinality(DirOf(m0, x)) = c
    BY <1>8 DEF PosOf, DirOf
  <2>2. /\ m.ref[x] = w[x] + Parents(m, x) + p + c /\ p \in Nat /\ c \in Nat /\ w[x] \in Nat
        /\ Parents(m, x) \in {0, 1}
    BY <1>1, Holders DEF Owned
  <2>3. CASE x = old
    <3>1. Parents(m, x) = 1 /\ Parents(m0, x) = 0
      BY <1>7, <1>11, <2>3, NodesFacts DEF Parents
    <3> HIDE DEF p, c
    <3> QED BY <1>8, <1>10, <2>1, <2>2, <2>3, <3>1
  <2>4. CASE x # old
    <3>1. Parents(m, x) = Parents(m0, x) /\ w0[x] = w[x]
      BY <1>1, <1>11, <2>4 DEF Parents
    <3> HIDE DEF p, c, w0
    <3> QED BY <1>8, <2>1, <2>2, <3>1
  <2> QED BY <2>3, <2>4
<1>13. IsTree(m0)
  <2>1. m0.parent[Root] = Root
    BY <1>1, <1>7, <1>11, NodesFacts DEF IsTree
  <2>2. \A x \in Nodes : m0.parent[x] # NoNode => m0.ref[m0.parent[x]] > 0
    BY <1>1, <1>8, <1>11 DEF IsTree
  <2>3. NoLoop(m0.parent)
    <3> SUFFICES ASSUME NEW S \in SUBSET (Nodes \ {Root}), S # {}
                 PROVE  \E x \in S : m0.parent[x] \notin S
      BY DEF NoLoop
    <3>1. PICK x \in S : m.parent[x] \notin S
      BY <1>1 DEF IsTree, NoLoop
    <3> QED BY <1>11, <3>1, NodesFacts
  <2> QED BY <2>1, <2>2, <2>3 DEF IsTree
<1>14. [w0 EXCEPT ![old] = @ - 1] = w
  BY <1>1, <1>6, GiveBack
<1>15. r \in Memory /\ Owned(r, w)
  <2> HIDE DEF w0
  <2> QED BY <1>6, <1>9, <1>10, <1>12, <1>13, <1>14, UnrefFell
<1>16. PICK gone \in SUBSET (Nodes \ {Root}) : Fell(m0, r, old, gone)
  <2> HIDE DEF w0
  <2> QED BY <1>6, <1>9, <1>10, <1>12, <1>13, UnrefFell
<1>17. s = SetLink(r, d, pre, n)
  OBVIOUS
<1> HIDE DEF w0, r, s
<1>18. IsTree(r)
  BY <1>9, <1>13, <1>16, FellTree
<1>19. d \notin gone
  <2> HIDE DEF K
  <2> QED BY <1>1, <1>6, <1>8, <1>9, <1>16, NotFallen DEF K
<1>20. n \notin gone /\ r.parent[n] = NoNode
  <2>1. m0.parent[n] = NoNode /\ NoNode \notin gone
    BY <1>6, <1>11, NodesFacts
  <2> QED BY <1>2, <1>6, <1>16, <2>1 DEF Fell
<1>21. L \in SUBSET Nodes /\ n \notin L
  BY <1>5
<1>22. Kids(m0, d) = L /\ \A e \in Dirs : e # d => Kids(m0, e) = Kids(m, e)
  BY <1>1, <1>7, <1>11, NodesFacts DEF Kids
<1>23. Kids(r, d) = L /\ \A x \in L : x \in Nodes \ gone
  <2>1. Kids(r, d) = Kids(m0, d) /\ \A x \in Kids(m0, d) : x \in Nodes \ gone
    BY <1>6, <1>9, <1>16, <1>19, FellKids
  <2> QED BY <1>22, <2>1
<1>24. s \in Memory /\ SameButLinks(r, s)
  BY <1>2, <1>3, <1>15, <1>17, SetLinkFacts
<1>25. Relinked(r, s, d, pre, n, L)
  <2> HIDE DEF L
  <2> QED BY <1>2, <1>3, <1>15, <1>17, <1>21, SetLinkRelinks
<1>26. /\ q.parent = [r.parent EXCEPT ![n] = d] /\ q.ref = r.ref /\ q.name = r.name
       /\ q.count = r.count /\ q.it = r.it /\ q.reg = r.reg /\ q.head = s.head /\ q.next = s.next
  BY <1>24 DEF Memory, SameButLinks
<1>27. q \in Memory
  BY <1>2, <1>24 DEF Memory
<1> HIDE DEF q
<1>28. \A x \in Nodes : q.parent[x] = IF x = n THEN d ELSE r.parent[x]
  BY <1>15, <1>26 DEF Memory
<1>29. Kids(q, d) = L \cup {n}
  BY <1>2, <1>23, <1>28 DEF Kids
<1>30. \A e \in Dirs : e # d => Kids(q, e) = Kids(r, e)
  BY <1>20, <1>28, NodesFacts DEF Kids
<1>31. \A x \in L \cup {n} : q.name[x] = m.name[x]
  <2>1. \A x \in L \cup {n} : x \in Nodes \ gone
    BY <1>2, <1>20, <1>23
  <2> QED BY <1>8, <1>16, <1>26, <2>1 DEF Fell
<1>32. IsList(q, d)
  <2>1. Ordered(m.head[d], m.next, m.name, K) /\ m.count[d] = Cardinality(K)
    BY <1>1 DEF IsList
  <2>2. r.head[d] = m.head[d] /\ r.count[d] = m.count[d]
    BY <1>8, <1>16, <1>19 DEF Fell
  <2>3. \A x \in L : r.next[x] = m.next[x]
    <3>1. \A x \in L : r.next[x] = m0.next[x]
      BY <1>16, <1>23 DEF Fell
    <3>2. \A x \in L : m0.next[x] = m.next[x]
      BY <1>1, <1>5, <1>8, <1>21 DEF Memory
    <3> QED BY <3>1, <3>2
  <2>4. r.next[n] = m.next[old]
    <3>1. m0.next[n] = m.next[old]
      BY <1>1, <1>2, <1>6, <1>8 DEF Memory
    <3> QED BY <1>2, <1>16, <1>20, <3>1 DEF Fell
  <2>5. Relink(m.head[d], m.next, q.head[d], q.next, pre, n, L)
    BY <1>25, <1>26, <2>2, <2>3 DEF Relink, Relinked
  <2>6. q.next[n] = m.next[old]
    <3>1. pre # n
      BY <1>2, <1>3, <1>5, NodesFacts
    <3> QED BY <1>2, <1>25, <1>26, <2>4, <3>1 DEF Relinked
  <2>7. n \in Nodes \ K /\ m.name \in [Nodes -> Nat] /\ m.name[n] = m.name[old]
    BY <1>1, <1>2, <1>5, <1>6 DEF Memory, v
  <2>8. Ordered(q.head[d], q.next, m.name, L \cup {n})
    <3> HIDE DEF K
    <3> QED BY <1>3, <1>5, <1>6, <2>1, <2>5, <2>6, <2>7, ReplaceOrder DEF v
  <2>9. Ordered(q.head[d], q.next, q.name, L \cup {n})
    BY <1>31, <2>8, SameOrder
  <2>10. Cardinality(L \cup {n}) = Cardinality(K)
    <3>1. IsFiniteSet(L) /\ Cardinality(L) = Cardinality(K) - 1 /\ Cardinality(K) \in Nat
      <4> HIDE DEF K
      <4> QED BY <1>5, <1>6, FS_RemoveElement, FS_CardinalityType
    <3>2. Cardinality(L \cup {n}) = Cardinality(L) + 1
      <4> HIDE DEF L
      <4> QED BY <1>21, <3>1, FS_AddElement
    <3> QED BY <3>1, <3>2
  <2> QED BY <1>26, <1>29, <2>1, <2>2, <2>9, <2>10 DEF IsList
<1>33. ASSUME NEW e \in Dirs, e # d PROVE IsList(q, e)
  <2>1. IsList(m0, e)
    <3>1. Ordered(m.head[e], m.next, m.name, Kids(m, e)) /\ m.count[e] = Cardinality(Kids(m, e))
      BY <1>1 DEF IsList
    <3>2. \A x \in Kids(m, e) : x \in Nodes /\ x # n /\ x # old
      BY <1>7, <1>33, NodesFacts DEF Kids
    <3>3. \A x \in Kids(m, e) : m0.next[x] = m.next[x] /\ m0.name[x] = m.name[x]
      BY <1>1, <1>8, <3>2 DEF Memory
    <3>4. Ordered(m.head[e], m0.next, m0.name, Kids(m, e))
      BY <3>1, <3>3, SameOrder
    <3> QED BY <1>8, <1>22, <1>33, <3>1, <3>4 DEF IsList
  <2>2. IsList(r, e)
    BY <1>6, <1>9, <1>16, <2>1, FellList
  <2>3. Ordered(r.head[e], r.next, r.name, Kids(r, e)) /\ r.count[e] = Cardinality(Kids(r, e))
    BY <2>2 DEF IsList
  <2>4. \A x \in Kids(r, e) : x \in Nodes /\ x # pre
    BY <1>3, <1>5, <1>7, <1>11, <1>16, <1>33, NodesFacts DEF Kids, Fell
  <2>5. \A x \in Kids(r, e) : q.next[x] = r.next[x] /\ q.name[x] = r.name[x]
    BY <1>25, <1>26, <2>4 DEF Relinked
  <2>6. q.head[e] = r.head[e] /\ q.count[e] = r.count[e]
    BY <1>25, <1>26, <1>33 DEF Relinked
  <2>7. Ordered(r.head[e], q.next, q.name, Kids(r, e))
    BY <2>3, <2>5, SameOrder
  <2> QED BY <1>30, <1>33, <2>3, <2>6, <2>7 DEF IsList
<1>34. Owned(q, [w EXCEPT ![n] = @ - 1])
  BY <1>1, <1>2, <1>15, <1>20, <1>26, OwnParent
<1>35. IsTree(q)
  <2>1. r.ref[d] > 0
    <3>1. d \in Nodes \ gone /\ m0.ref[d] > 0
      BY <1>8, <1>19, NodesFacts
    <3> QED BY <1>16, <3>1 DEF Fell
  <2>2. NoLoop(q.parent)
    <3> SUFFICES ASSUME NEW S \in SUBSET (Nodes \ {Root}), S # {}
                 PROVE  \E x \in S : q.parent[x] \notin S
      BY DEF NoLoop
    <3>1. PICK x \in S : [m.parent EXCEPT ![n] = d][x] \notin S
      BY DEF NoLoop
    <3>2. CASE x = n
      BY <1>1, <1>2, <1>28, <3>1, <3>2 DEF Memory
    <3>3. CASE x # n
      <4>1. m.parent[x] \notin S
        BY <1>1, <3>1, <3>3 DEF Memory
      <4>2. q.parent[x] \in {NoNode, m.parent[x]}
        BY <1>11, <1>16, <1>28, <3>3 DEF Fell
      <4> QED BY <4>1, <4>2, NodesFacts
    <3> QED BY <3>2, <3>3
  <2> QED BY <1>2, <1>15, <1>18, <1>26, <2>1, <2>2, ParentTree
<1>36. [w EXCEPT ![n] = @ - 1] \in [Nodes -> Nat]
  <2>1. w[n] \in Nat /\ w[n] - 1 \in Nat
    BY <1>1, <1>2
  <2> QED BY <1>1, <2>1
<1>37. InsertView(m, q, d, n)
  <2>1. q.it = m.it /\ q.reg = m.reg
    BY <1>8, <1>16, <1>26 DEF Fell
  <2>2. L = {x \in K : m.name[x] # m.name[n]}
    <3>1. \A x \in K : m.name[x] = m.name[old] => x = old
      BY <1>1, <1>6 DEF IsList, Ordered
    <3> QED BY <1>6, <3>1 DEF v
  <2>3. ASSUME NEW e \in Dirs \ {d}, DirOf(m, e) # {}
        PROVE  Kids(q, e) = Kids(m, e) /\ \A x \in Kids(m, e) : q.name[x] = m.name[x]
    <3>1. e \notin gone
      BY <1>8, <1>16, <2>3 DEF Fell, DirOf
    <3>2. Kids(r, e) = Kids(m0, e) /\ \A x \in Kids(m0, e) : x \in Nodes \ gone
      BY <1>6, <1>9, <1>16, <3>1, FellKids
    <3>3. \A x \in Nodes \ gone : r.name[x] = m0.name[x]
      BY <1>16 DEF Fell
    <3> QED BY <1>8, <1>22, <1>26, <1>30, <3>2, <3>3
  <2>4. Kids(q, d) = {x \in Kids(m, d) : m.name[x] # m.name[n]} \cup {n}
    BY <1>29, <2>2
  <2>5. \A x \in Kids(q, d) : q.name[x] = m.name[x]
    BY <1>29, <1>31
  <2> QED BY <2>1, <2>3, <2>4, <2>5 DEF InsertView
<1>38. Lists(q)
  BY <1>32, <1>33 DEF Lists
<1>39. Sane(q, [w EXCEPT ![n] = @ - 1])
  BY <1>27, <1>34, <1>35, <1>36, <1>38 DEF Sane
<1> QED BY <1>4, <1>37, <1>39

\* iso_dir_insert()
LEMMA InsertSane ==
    ASSUME NEW m, NEW w, Sane(m, w), NEW d \in Dirs, NEW n \in Nodes \ {Root},
           m.parent[n] = NoNode, w[n] > 0, m.ref[d] > 0, NoLoop([m.parent EXCEPT ![n] = d])
    PROVE  /\ Sane(InsertOf(m, d, n), [w EXCEPT ![n] = @ - 1])
           /\ InsertView(m, InsertOf(m, d, n), d, n)
BY InsertNew, InsertOver

-----------------------------------------------------------------------------
(* Moving iterators                                                        *)

\* 1 for a holder of x, 0 for another one.
Is(a, x) == IF a = x THEN 1 ELSE 0

\* How many iterators hold a node when one of them moves.
LEMMA HoldersMove ==
    ASSUME NEW A \in SUBSET Iters, NEW B \in SUBSET Iters, NEW i \in Iters,
           \A j \in Iters : j # i => (j \in A <=> j \in B)
    PROVE  /\ i \in A /\ i \notin B => Cardinality(A) = Cardinality(B) + 1
           /\ i \notin A /\ i \in B => Cardinality(B) = Cardinality(A) + 1
           /\ (i \in A <=> i \in B) => Cardinality(A) = Cardinality(B)
<1>1. IsFiniteSet(A) /\ IsFiniteSet(B)
  BY NTAssumption, FS_Subset
<1>2. CASE i \in A /\ i \notin B
  <2>1. A = B \cup {i}
    BY <1>2
  <2> QED BY <1>1, <1>2, <2>1, FS_AddElement
<1>3. CASE i \notin A /\ i \in B
  <2>1. B = A \cup {i}
    BY <1>3
  <2> QED BY <1>1, <1>3, <2>1, FS_AddElement
<1>4. CASE i \in A <=> i \in B
  <2>1. A = B
    BY <1>4
  <2> QED BY <1>4, <2>1
<1> QED BY <1>2, <1>3, <1>4

\* An iterator is one owner of its position, and one of its directory.
LEMMA IterMoves ==
    ASSUME NEW m \in Memory, NEW q, NEW i \in Iters,
           \A j \in Iters : j # i => q.it[j].pos = m.it[j].pos /\ q.it[j].dir = m.it[j].dir,
           NEW x
    PROVE  /\ Cardinality(PosOf(q, x)) \in Nat /\ Cardinality(DirOf(q, x)) \in Nat
           /\ Cardinality(PosOf(q, x)) + Is(m.it[i].pos, x)
              = Cardinality(PosOf(m, x)) + Is(q.it[i].pos, x)
           /\ Cardinality(DirOf(q, x)) + Is(m.it[i].dir, x)
              = Cardinality(DirOf(m, x)) + Is(q.it[i].dir, x)
<1>1. /\ PosOf(q, x) \in SUBSET Iters /\ PosOf(m, x) \in SUBSET Iters
      /\ DirOf(q, x) \in SUBSET Iters /\ DirOf(m, x) \in SUBSET Iters
  BY DEF PosOf, DirOf
<1>2. /\ Cardinality(PosOf(q, x)) \in Nat /\ Cardinality(PosOf(m, x)) \in Nat
      /\ Cardinality(DirOf(q, x)) \in Nat /\ Cardinality(DirOf(m, x)) \in Nat
  BY <1>1, NTAssumption, FS_Subset, FS_CardinalityType
<1>3. Cardinality(PosOf(q, x)) + Is(m.it[i].pos, x) = Cardinality(PosOf(m, x)) + Is(q.it[i].pos, x)
  <2> DEFINE A == PosOf(q, x)
             B == PosOf(m, x)
  <2>1. (i \in A <=> q.it[i].pos = x) /\ (i \in B <=> m.it[i].pos = x)
    BY DEF PosOf
  <2>2. \A j \in Iters : j # i => (j \in A <=> j \in B)
    BY DEF PosOf
  <2> HIDE DEF A, B
  <2>3. /\ i \in A /\ i \notin B => Cardinality(A) = Cardinality(B) + 1
        /\ i \notin A /\ i \in B => Cardinality(B) = Cardinality(A) + 1
        /\ (i \in A <=> i \in B) => Cardinality(A) = Cardinality(B)
    BY <1>1, <2>2, HoldersMove DEF A, B
  <2>4. Cardinality(A) \in Nat /\ Cardinality(B) \in Nat
    BY <1>2 DEF A, B
  <2>5. Cardinality(A) + Is(m.it[i].pos, x) = Cardinality(B) + Is(q.it[i].pos, x)
    BY <2>1, <2>3, <2>4 DEF Is
  <2> QED BY <2>5 DEF A, B
<1>4. Cardinality(DirOf(q, x)) + Is(m.it[i].dir, x) = Cardinality(DirOf(m, x)) + Is(q.it[i].dir, x)
  <2> DEFINE A == DirOf(q, x)
             B == DirOf(m, x)
  <2>1. (i \in A <=> q.it[i].dir = x) /\ (i \in B <=> m.it[i].dir = x)
    BY DEF DirOf
  <2>2. \A j \in Iters : j # i => (j \in A <=> j \in B)
    BY DEF DirOf
  <2> HIDE DEF A, B
  <2>3. /\ i \in A /\ i \notin B => Cardinality(A) = Cardinality(B) + 1
        /\ i \notin A /\ i \in B => Cardinality(B) = Cardinality(A) + 1
        /\ (i \in A <=> i \in B) => Cardinality(A) = Cardinality(B)
    BY <1>1, <2>2, HoldersMove DEF A, B
  <2>4. Cardinality(A) \in Nat /\ Cardinality(B) \in Nat
    BY <1>2 DEF A, B
  <2>5. Cardinality(A) + Is(m.it[i].dir, x) = Cardinality(B) + Is(q.it[i].dir, x)
    BY <2>1, <2>3, <2>4 DEF Is
  <2> QED BY <2>5 DEF A, B
<1> QED BY <1>2, <1>3, <1>4

\* An iterator moves, the reference to its position goes with it.
LEMMA MoveOwned ==
    ASSUME NEW m \in Memory, NEW w \in [Nodes -> Nat], Owned(m, w), NEW q \in Memory, NEW i \in Iters,
           \A j \in Iters : j # i => q.it[j].pos = m.it[j].pos /\ q.it[j].dir = m.it[j].dir,
           q.it[i].dir = m.it[i].dir, q.parent = m.parent,
           \A x \in Nodes : q.ref[x] + Is(m.it[i].pos, x) = m.ref[x] + Is(q.it[i].pos, x)
    PROVE  Owned(q, w)
<1> SUFFICES ASSUME NEW x \in Nodes
             PROVE  q.ref[x] = w[x] + Parents(q, x) + Cardinality(PosOf(q, x))
                               + Cardinality(DirOf(q, x))
  BY DEF Owned
<1> DEFINE p == Cardinality(PosOf(m, x))
           c == Cardinality(DirOf(m, x))
           pq == Cardinality(PosOf(q, x))
           cq == Cardinality(DirOf(q, x))
           a  == Is(m.it[i].pos, x)
           b  == Is(q.it[i].pos, x)
           e  == Is(m.it[i].dir, x)
<1>1. /\ m.ref[x] = w[x] + Parents(m, x) + p + c /\ p \in Nat /\ c \in Nat /\ w[x] \in Nat
      /\ Parents(m, x) \in {0, 1}
  BY Holders DEF Owned
<1>2. pq \in Nat /\ cq \in Nat /\ pq + a = p + b /\ cq + e = c + e
  BY IterMoves
<1>3. Parents(q, x) = Parents(m, x)
  BY DEF Parents
<1>4. a \in Nat /\ b \in Nat /\ e \in Nat
  BY DEF Is
<1>5. q.ref[x] + a = m.ref[x] + b /\ q.ref[x] \in Nat
  BY DEF Memory
<1> HIDE DEF a, b, e, p, c, pq, cq
<1>6. q.ref[x] = w[x] + Parents(q, x) + pq + cq
  BY <1>1, <1>2, <1>3, <1>4, <1>5
<1> QED BY <1>6 DEF pq, cq

\* A walk depends on the links only.
LEMMA SameBefore ==
    ASSUME NEW m, NEW q, NEW d, NEW stop, q.head = m.head, q.next = m.next
    PROVE  Before(q, d, stop) = Before(m, d, stop) /\ \A x : At(q, d, x) = At(m, d, x)
<1>1. Passed(q, d, stop) = Passed(m, d, stop)
  BY DEF Passed, Least
<1> QED BY <1>1 DEF Before, At

\* Where a child is in its list.
LEMMA ChildPlace ==
    ASSUME NEW m \in Memory, NEW d \in Dirs, NEW nam \in [Nodes -> Nat], NEW K \in SUBSET Nodes,
           Ordered(m.head[d], m.next, nam, K), NEW n \in K
    PROVE  /\ IsPlace(Before(m, d, {n}), nam, nam[n], K) /\ At(m, d, Before(m, d, {n})) = n
           /\ Before(m, d, {n}) \in (K \ {n}) \cup {NoNode}
<1> DEFINE pre == Before(m, d, {n})
<1>1. nam[n] \in Nat /\ \A c \in K : nam[c] \in Nat /\ c # NoNode
  BY NodesFacts
<1>2. \A c \in K : IsAt(c, nam, nam[n], K) => c = n
  <2> SUFFICES ASSUME NEW c \in K, IsAt(c, nam, nam[n], K) PROVE c = n
    OBVIOUS
  <2>1. nam[n] <= nam[c] /\ nam[c] <= nam[n]
    BY <1>1 DEF IsAt
  <2>2. nam[n] = nam[c]
    BY <1>1, <2>1
  <2> QED BY <2>2 DEF Ordered
<1>3. StopsAt({n}, nam, nam[n], K)
  BY <1>1, <1>2 DEF StopsAt
<1>4. IsPlace(pre, nam, nam[n], K)
  BY <1>1, <1>3, BeforeIs
<1> HIDE DEF pre
<1>5. IsAt(At(m, d, pre), nam, nam[n], K)
  BY <1>1, <1>4, AtIs
<1>6. At(m, d, pre) = n
  <2>1. ~ (nam[n] < nam[n])
    BY <1>1
  <2>2. At(m, d, pre) \in K
    BY <1>5, <2>1 DEF IsAt
  <2> QED BY <1>2, <1>5, <2>2
<1>7. pre \in (K \ {n}) \cup {NoNode}
  BY <1>1, <1>4 DEF IsPlace
<1> QED BY <1>4, <1>6, <1>7 DEF pre

\* A walk to a node which is not in the list ends behind it.
LEMMA NotInList ==
    ASSUME NEW m \in Memory, NEW d \in Dirs, NEW nam \in [Nodes -> Nat], NEW K \in SUBSET Nodes,
           Ordered(m.head[d], m.next, nam, K), NEW n \in Nodes, n \notin K
    PROVE  At(m, d, Before(m, d, {n})) # n
<1>1. PICK v \in Nat : \A c \in K : nam[c] < v
  BY NamesBounded
<1>2. \A c \in K : nam[c] \in Nat /\ c # NoNode /\ ~ (v <= nam[c])
  BY <1>1, NodesFacts
<1>3. StopsAt({n}, nam, v, K)
  BY <1>2 DEF StopsAt, IsAt
<1> DEFINE pre == Before(m, d, {n})
<1>4. IsPlace(pre, nam, v, K)
  BY <1>3, BeforeIs
<1> HIDE DEF pre
<1>5. IsAt(At(m, d, pre), nam, v, K)
  BY <1>4, AtIs
<1>6. At(m, d, pre) \in K \cup {NoNode}
  BY <1>5 DEF IsAt
<1> QED BY <1>6, NodesFacts DEF pre

\* Memory x during the notification of iterators about n, which leaves its
\* place behind pre.
Unlinked(m, n, pre) == SetLink(m, m.parent[n], pre, m.next[n])

Stepped(m, x, n, pre, i) ==
    m.it[i].dir = m.parent[n] /\ m.it[i].pos = n /\ x.it[i].pos = pre

Told(m, w, x, n, pre) ==
    /\ x \in Memory /\ Owned(x, w)
    /\ x.parent = m.parent /\ x.name = m.name /\ x.count = m.count /\ x.reg = m.reg
    /\ \/ x.head = m.head /\ x.next = m.next
       \/ /\ x.head = Unlinked(m, n, pre).head /\ x.next = Unlinked(m, n, pre).next
          /\ \E i \in Iters : Stepped(m, x, n, pre, i)
    /\ \A p \in Nodes : m.ref[p] > 0 => x.ref[p] > 0
    /\ \A i \in Iters : /\ x.it[i].dir = m.it[i].dir /\ x.it[i].fresh = m.it[i].fresh
                        /\ x.it[i].pos = m.it[i].pos \/ Stepped(m, x, n, pre, i)

Taking(m, n, nam, pre) ==
    /\ m \in Memory /\ m.parent[n] \in Dirs /\ n \in Kids(m, m.parent[n])
    /\ nam \in [Nodes -> Nat]
    /\ Ordered(m.head[m.parent[n]], m.next, nam, Kids(m, m.parent[n]))
    /\ pre = Before(m, m.parent[n], {n})

\* The place behind which a child gets unlinked is in its list.
LEMMA TakingFacts ==
    ASSUME NEW m, NEW n, NEW nam, NEW pre, Taking(m, n, nam, pre)
    PROVE  /\ n \in Nodes /\ n # Root /\ n # NoNode /\ Kids(m, m.parent[n]) \in SUBSET Nodes
           /\ IsPlace(pre, nam, nam[n], Kids(m, m.parent[n])) /\ At(m, m.parent[n], pre) = n
           /\ pre \in (Kids(m, m.parent[n]) \ {n}) \cup {NoNode}
           /\ pre \in Nodes \cup {NoNode} /\ pre # n /\ m.next[n] \in Nodes \cup {NoNode}
<1> DEFINE d == m.parent[n]
           K == Kids(m, d)
<1>1. /\ m \in Memory /\ d \in Dirs /\ n \in K /\ nam \in [Nodes -> Nat]
      /\ Ordered(m.head[d], m.next, nam, K) /\ pre = Before(m, d, {n})
  BY DEF Taking
<1>2. K \in SUBSET Nodes /\ n # Root
  BY <1>1 DEF Kids
<1>3. n \in Nodes /\ n # NoNode
  BY <1>1, <1>2, NodesFacts
<1>4. m.next[n] \in Nodes \cup {NoNode}
  BY <1>1, <1>3 DEF Memory
<1> HIDE DEF d, K
<1>5. IsPlace(pre, nam, nam[n], K) /\ At(m, d, pre) = n /\ pre \in (K \ {n}) \cup {NoNode}
  BY <1>1, <1>2, ChildPlace, SMTT(30)
<1> QED BY <1>2, <1>3, <1>4, <1>5 DEF d, K

\* The link of list d behind pre is the only one that changed.
OtherLinks(m, q, d, pre) ==
    /\ \A e \in Dirs : e # d => q.head[e] = m.head[e]
    /\ \A x \in Nodes : x # pre => q.next[x] = m.next[x]

\* Without the child the list is sound.
LEMMA UnlinkedList ==
    ASSUME NEW m, NEW n, NEW nam, NEW pre, Taking(m, n, nam, pre), NEW q,
           q.head = Unlinked(m, n, pre).head, q.next = Unlinked(m, n, pre).next
    PROVE  /\ Ordered(q.head[m.parent[n]], q.next, nam, Kids(m, m.parent[n]) \ {n})
           /\ OtherLinks(m, q, m.parent[n], pre)
<1> DEFINE d == m.parent[n]
           K == Kids(m, d)
           s == Unlinked(m, n, pre)
<1>1. /\ m \in Memory /\ d \in Dirs /\ n \in K /\ nam \in [Nodes -> Nat]
      /\ Ordered(m.head[d], m.next, nam, K)
  BY DEF Taking
<1>2. s = SetLink(m, d, pre, m.next[n])
  BY DEF Unlinked
<1>3. /\ K \in SUBSET Nodes /\ IsPlace(pre, nam, nam[n], K)
      /\ pre \in Nodes \cup {NoNode} /\ m.next[n] \in Nodes \cup {NoNode}
  BY TakingFacts
<1> HIDE DEF d, K, s
<1>4. Relinked(m, s, d, pre, m.next[n], K)
  BY <1>1, <1>2, <1>3, SetLinkRelinks
<1>5. Relink(m.head[d], m.next, s.head[d], s.next, pre, m.next[n], K)
  BY <1>4 DEF Relinked
<1>6. Ordered(s.head[d], s.next, nam, K \ {n})
  BY <1>1, <1>3, <1>5, RemoveOrder
<1> QED BY <1>4, <1>6 DEF Relinked, OtherLinks, d, K, s

\* Unlinking does the same wherever the links are the same.
LEMMA SameSetLink ==
    ASSUME NEW m \in Memory, NEW u \in Memory, u.head = m.head, u.next = m.next,
           NEW d, NEW pre, NEW n
    PROVE  /\ SetLink(u, d, pre, n).head = SetLink(m, d, pre, n).head
           /\ SetLink(u, d, pre, n).next = SetLink(m, d, pre, n).next
<1>1. CASE pre = NoNode
  <2>1. SetLink(u, d, pre, n) = [u EXCEPT !.head[d] = n] /\ SetLink(m, d, pre, n) = [m EXCEPT !.head[d] = n]
    BY <1>1 DEF SetLink
  <2>2. /\ [u EXCEPT !.head[d] = n].head = [u.head EXCEPT ![d] = n]
        /\ [m EXCEPT !.head[d] = n].head = [m.head EXCEPT ![d] = n]
        /\ [u EXCEPT !.head[d] = n].next = u.next /\ [m EXCEPT !.head[d] = n].next = m.next
    BY DEF Memory
  <2> QED BY <2>1, <2>2
<1>2. CASE pre # NoNode
  <2>1. /\ SetLink(u, d, pre, n) = [u EXCEPT !.next[pre] = n]
        /\ SetLink(m, d, pre, n) = [m EXCEPT !.next[pre] = n]
    BY <1>2 DEF SetLink
  <2>2. /\ [u EXCEPT !.next[pre] = n].next = [u.next EXCEPT ![pre] = n]
        /\ [m EXCEPT !.next[pre] = n].next = [m.next EXCEPT ![pre] = n]
        /\ [u EXCEPT !.next[pre] = n].head = u.head /\ [m EXCEPT !.next[pre] = n].head = m.head
    BY DEF Memory
  <2> QED BY <2>1, <2>2
<1> QED BY <1>1, <1>2

\* No iterator comes to node n.
NoneOn(x, y, n) == \A j \in Iters : x.it[j].pos # n => y.it[j].pos # n

\* iter_notify_child_taken() for one iterator on the directory.
LEMMA NotifyTells ==
    ASSUME NEW m, NEW w \in [Nodes -> Nat], NEW n, NEW nam, NEW pre, Taking(m, n, nam, pre),
           NEW x, Told(m, w, x, n, pre), NEW i \in Iters, x.it[i].dir = x.parent[n]
    PROVE  /\ Told(m, w, NotifyOf(x, i, n), n, pre)
           /\ NoneOn(x, NotifyOf(x, i, n), n)
           /\ Alone(m) => NotifyOf(x, i, n).it[i].pos # n
<1> DEFINE d == m.parent[n]
           K == Kids(m, d)
           y == NotifyOf(x, i, n)
           px == Before(x, d, {n})
<1>1. /\ m \in Memory /\ d \in Dirs /\ n \in K /\ nam \in [Nodes -> Nat]
      /\ Ordered(m.head[d], m.next, nam, K) /\ pre = Before(m, d, {n})
  BY DEF Taking
<1>2. /\ n \in Nodes /\ n # Root /\ n # NoNode /\ K \in SUBSET Nodes /\ At(m, d, pre) = n
      /\ pre \in Nodes \cup {NoNode} /\ pre # n /\ m.next[n] \in Nodes \cup {NoNode}
  BY TakingFacts
<1>3. /\ x \in Memory /\ Owned(x, w)
      /\ x.parent = m.parent /\ x.name = m.name /\ x.count = m.count /\ x.reg = m.reg
      /\ \A p \in Nodes : m.ref[p] > 0 => x.ref[p] > 0
      /\ \A j \in Iters : /\ x.it[j].dir = m.it[j].dir /\ x.it[j].fresh = m.it[j].fresh
                          /\ x.it[j].pos = m.it[j].pos \/ Stepped(m, x, n, pre, j)
  BY DEF Told
<1>4. x.it[i].dir = d /\ x.parent[n] = d
  BY <1>3
<1>5. CASE x.head = m.head /\ x.next = m.next
  <2>1. px = pre /\ At(x, d, pre) = n
    BY <1>1, <1>2, <1>5, SameBefore
  <2>2. CASE x.it[i].pos # n
    <3>1. y = x
      BY <2>2 DEF NotifyOf
    <3> QED BY <2>2, <3>1 DEF NoneOn
  <2>3. CASE x.it[i].pos = n
    <3> DEFINE u == [x EXCEPT !.ref[n] = @ - 1]
               m1 == SetLink(u, d, pre, x.next[n])
               z == IF pre = NoNode THEN [m1 EXCEPT !.it[i].pos = NoNode]
                    ELSE RefOf([m1 EXCEPT !.it[i].pos = pre], pre)
    <3>1. x.ref[n] >= 2
      <4>1. i \in PosOf(x, n)
        BY <2>3 DEF PosOf
      <4>2. Cardinality(PosOf(x, n)) \in Nat /\ Cardinality(PosOf(x, n)) # 0
        BY <1>3, <4>1, Holders
      <4>3. Cardinality(DirOf(x, n)) \in Nat /\ w[n] \in Nat
        BY <1>2, <1>3, Holders
      <4>4. Parents(x, n) = 1
        BY <1>1, <1>4, NodesFacts DEF Parents
      <4>5. x.ref[n] = w[n] + Parents(x, n) + Cardinality(PosOf(x, n)) + Cardinality(DirOf(x, n))
        BY <1>2, <1>3 DEF Owned
      <4> QED BY <4>2, <4>3, <4>4, <4>5
    <3>2. UnrefOf(x, n) = u
      <4>1. x.ref[n] # 1
        BY <3>1
      <4> QED BY <4>1 DEF UnrefOf
    <3>3. y = z
      <4>1. y = IF pre = NoNode THEN [SetLink(UnrefOf(x, n), d, pre, x.next[n]) EXCEPT !.it[i].pos = NoNode]
                ELSE RefOf([SetLink(UnrefOf(x, n), d, pre, x.next[n]) EXCEPT !.it[i].pos = pre], pre)
        BY <1>4, <2>1, <2>3, ZenonT(40) DEF NotifyOf
      <4> HIDE DEF u
      <4> QED BY <3>2, <4>1
    <3>4. /\ u \in Memory /\ u.ref = [x.ref EXCEPT ![n] = @ - 1]
          /\ u.parent = x.parent /\ u.next = x.next /\ u.name = x.name /\ u.head = x.head
          /\ u.count = x.count /\ u.it = x.it /\ u.reg = x.reg
      <4> DEFINE r == [x.ref EXCEPT ![n] = @ - 1]
      <4>1. r \in [Nodes -> Nat]
        <5>1. x.ref[n] \in Nat /\ x.ref[n] - 1 \in Nat
          BY <1>2, <1>3, <3>1 DEF Memory
        <5> QED BY <1>3, <5>1 DEF Memory
      <4>2. u = [x EXCEPT !.ref = r]
        BY <1>3 DEF Memory
      <4> HIDE DEF r, u
      <4>3. u \in Memory
        BY <1>3, <4>1, <4>2 DEF Memory
      <4> QED BY <1>3, <4>2, <4>3 DEF Memory, r
    <3>5. m1 = SetLink(u, d, pre, x.next[n]) /\ x.next[n] \in Nodes \cup {NoNode}
      BY <1>2, <1>5
    <3> HIDE DEF u, m1
    <3>6. m1 \in Memory /\ SameButLinks(u, m1)
      BY <1>1, <1>2, <3>4, <3>5, SetLinkFacts
    <3>7. m1.head = Unlinked(m, n, pre).head /\ m1.next = Unlinked(m, n, pre).next
      <4>1. u.head = m.head /\ u.next = m.next
        BY <1>5, <3>4
      <4>2. Unlinked(m, n, pre) = SetLink(m, d, pre, x.next[n])
        BY <1>5 DEF Unlinked
      <4> QED BY <1>1, <3>4, <3>5, <4>1, <4>2, SameSetLink
    <3>8. /\ m1.ref = [x.ref EXCEPT ![n] = @ - 1] /\ m1.parent = x.parent /\ m1.name = x.name
          /\ m1.count = x.count /\ m1.it = x.it /\ m1.reg = x.reg
      BY <3>4, <3>6 DEF SameButLinks
    <3>9. /\ y \in Memory /\ y.parent = x.parent /\ y.name = x.name /\ y.count = x.count
          /\ y.reg = x.reg /\ y.head = m1.head /\ y.next = m1.next
          /\ y.it = [x.it EXCEPT ![i].pos = pre]
          /\ y.ref = IF pre = NoNode THEN m1.ref ELSE [m1.ref EXCEPT ![pre] = @ + 1]
      <4> DEFINE jt == [m1.it EXCEPT ![i].pos = pre]
                 m2 == [m1 EXCEPT !.it = jt]
                 r  == [m2.ref EXCEPT ![pre] = @ + 1]
      <4>1. jt \in [Iters -> [dir : Dirs \cup {NoNode}, pos : Nodes \cup {NoNode}, fresh : BOOLEAN]]
        BY <1>2, <3>6, ZenonT(40) DEF Memory
      <4>2. m2 = [m1 EXCEPT !.it[i].pos = pre]
        BY <3>6 DEF Memory
      <4> HIDE DEF jt
      <4>3. /\ m2 \in Memory /\ m2.ref = m1.ref /\ m2.parent = m1.parent /\ m2.name = m1.name
            /\ m2.count = m1.count /\ m2.it = jt /\ m2.reg = m1.reg
            /\ m2.head = m1.head /\ m2.next = m1.next
        BY <3>6, <4>1 DEF Memory
      <4> HIDE DEF m2
      <4>4. jt = [x.it EXCEPT ![i].pos = pre]
        BY <3>8 DEF jt
      <4>5. CASE pre = NoNode
        <5>1. y = m2
          BY <3>3, <4>2, <4>5
        <5> HIDE DEF y, z
        <5> QED BY <3>8, <4>3, <4>4, <4>5, <5>1
      <4>6. CASE pre # NoNode
        <5>1. y = RefOf(m2, pre)
          BY <3>3, <4>2, <4>6
        <5>2. m2.ref[pre] + 1 \in Nat /\ pre \in Nodes
          BY <1>2, <4>3, <4>6 DEF Memory
        <5>3. y = [m2 EXCEPT !.ref = r]
          BY <4>3, <5>1 DEF RefOf, Memory
        <5>4. r \in [Nodes -> Nat]
          BY <4>3, <5>2 DEF Memory
        <5>5. r = [m1.ref EXCEPT ![pre] = @ + 1]
          BY <4>3
        <5> HIDE DEF y, z, r
        <5>6. y \in Memory /\ y.ref = r /\ y.parent = m2.parent /\ y.name = m2.name
          BY <4>3, <5>3, <5>4 DEF Memory
        <5>7. y.count = m2.count /\ y.it = m2.it /\ y.reg = m2.reg /\ y.head = m2.head /\ y.next = m2.next
          BY <4>3, <5>3, <5>4 DEF Memory
        <5> QED BY <3>8, <4>3, <4>4, <4>6, <5>5, <5>6, <5>7
      <4> QED BY <4>5, <4>6
    <3> HIDE DEF y, z
    <3>10. /\ y.it[i].pos = pre /\ y.it[i].dir = x.it[i].dir /\ y.it[i].fresh = x.it[i].fresh
           /\ \A j \in Iters : j # i => y.it[j] = x.it[j]
      BY <1>3, <3>9 DEF Memory
    <3>11. \A p \in Nodes : y.ref[p] + Is(n, p) = x.ref[p] + Is(pre, p)
      <4> SUFFICES ASSUME NEW p \in Nodes PROVE y.ref[p] + Is(n, p) = x.ref[p] + Is(pre, p)
        OBVIOUS
      <4>1. m1.ref[p] + Is(n, p) = x.ref[p]
        BY <1>2, <1>3, <3>8 DEF Memory, Is
      <4>2. y.ref[p] = m1.ref[p] + Is(pre, p)
        <5>1. m1.ref[p] \in Nat
          BY <3>6 DEF Memory
        <5>2. CASE pre = NoNode
          BY <3>9, <5>1, <5>2, NodesFacts DEF Is
        <5>3. CASE pre # NoNode
          <6>1. pre \in Nodes /\ m1.ref \in [Nodes -> Nat] /\ y.ref = [m1.ref EXCEPT ![pre] = @ + 1]
            BY <1>2, <3>6, <3>9, <5>3 DEF Memory
          <6>2. p = pre => y.ref[p] = m1.ref[p] + 1
            BY <6>1
          <6>3. p # pre => y.ref[p] = m1.ref[p]
            BY <6>1
          <6> QED BY <5>1, <6>2, <6>3 DEF Is
        <5> QED BY <5>2, <5>3
      <4>3. m1.ref[p] \in Nat /\ Is(n, p) \in Nat /\ Is(pre, p) \in Nat
        BY <3>6 DEF Memory, Is
      <4> QED BY <4>1, <4>2, <4>3
    <3>12. Owned(y, w)
      <4>1. \A j \in Iters : j # i => y.it[j].pos = x.it[j].pos /\ y.it[j].dir = x.it[j].dir
        BY <3>10
      <4>2. x.it[i].pos = n /\ y.it[i].pos = pre /\ y.it[i].dir = x.it[i].dir
        BY <2>3, <3>10
      <4>3. \A p \in Nodes : y.ref[p] + Is(x.it[i].pos, p) = x.ref[p] + Is(y.it[i].pos, p)
        BY <3>11, <4>2
      <4>4. x \in Memory /\ Owned(x, w) /\ y \in Memory /\ y.parent = x.parent
        BY <1>3, <3>9
      <4> QED BY <4>1, <4>2, <4>3, <4>4, MoveOwned
    <3>13. ASSUME NEW p \in Nodes, x.ref[p] > 0 PROVE y.ref[p] > 0
      <4>1. y.ref[p] \in Nat /\ x.ref[p] \in Nat
        BY <1>3, <3>9 DEF Memory
      <4>2. y.ref[p] + Is(n, p) = x.ref[p] + Is(pre, p)
        BY <3>11
      <4>3. CASE p = n
        BY <1>2, <3>1, <4>1, <4>2, <4>3 DEF Is
      <4>4. CASE p # n
        BY <3>13, <4>1, <4>2, <4>4 DEF Is
      <4> QED BY <4>3, <4>4
    <3>14. Stepped(m, y, n, pre, i)
      <4>1. m.it[i].dir = d
        BY <1>3, <1>4
      <4>2. m.it[i].pos = n
        <5>1. ~ Stepped(m, x, n, pre, i)
          BY <1>2, <2>3 DEF Stepped
        <5> QED BY <1>3, <2>3, <5>1
      <4> QED BY <3>10, <4>1, <4>2 DEF Stepped
    <3>15. ASSUME NEW j \in Iters
           PROVE  /\ y.it[j].dir = m.it[j].dir /\ y.it[j].fresh = m.it[j].fresh
                  /\ y.it[j].pos = m.it[j].pos \/ Stepped(m, y, n, pre, j)
      <4>1. CASE j = i
        BY <1>3, <3>10, <3>14, <4>1
      <4>2. CASE j # i
        BY <1>3, <3>10, <4>2 DEF Stepped
      <4> QED BY <4>1, <4>2
    <3>16. Told(m, w, y, n, pre)
      <4>1. \A p \in Nodes : m.ref[p] > 0 => y.ref[p] > 0
        BY <1>3, <3>13
      <4>2. y.head = Unlinked(m, n, pre).head /\ y.next = Unlinked(m, n, pre).next
        BY <3>7, <3>9
      <4> QED BY <1>3, <3>9, <3>12, <3>14, <3>15, <4>1, <4>2 DEF Told
    <3>17. y.it[i].pos # n /\ \A j \in Iters : x.it[j].pos # n => y.it[j].pos # n
      BY <1>2, <3>10
    <3>18. NoneOn(x, y, n)
      BY <3>17 DEF NoneOn
    <3> QED BY <3>16, <3>17, <3>18 DEF y
  <2> QED BY <2>2, <2>3
<1>6. CASE /\ x.head = Unlinked(m, n, pre).head /\ x.next = Unlinked(m, n, pre).next
           /\ \E j \in Iters : Stepped(m, x, n, pre, j)
  <2>1. Ordered(x.head[d], x.next, nam, K \ {n})
    BY <1>6, UnlinkedList
  <2>2. At(x, d, px) # n
    <3>1. K \ {n} \in SUBSET Nodes /\ n \notin K \ {n}
      BY <1>2
    <3> HIDE DEF d, K
    <3> QED BY <1>1, <1>2, <1>3, <2>1, <3>1, NotInList, ZenonT(40)
  <2>3. y = x
    BY <1>4, <2>2 DEF NotifyOf
  <2>4. Alone(m) => x.it[i].pos # n
    <3>1. PICK j \in Iters : Stepped(m, x, n, pre, j)
      BY <1>6
    <3>2. m.it[j].dir = d /\ m.it[i].dir = d /\ d # NoNode /\ x.it[j].pos = pre
      BY <1>1, <1>3, <1>4, <3>1, NodesFacts DEF Stepped
    <3> QED BY <1>2, <3>2 DEF Alone
  <2>5. NoneOn(x, y, n)
    BY <2>3 DEF NoneOn
  <2> HIDE DEF y
  <2> QED BY <2>3, <2>4, <2>5 DEF y
<1> QED BY <1>5, <1>6 DEF Told

\* One step of the notification, of the iterator in place k of the registry.
TellOne(x, i, n) == IF x.it[i].dir # x.parent[n] THEN x ELSE NotifyOf(x, i, n)

\* The same for any iterator of the registry.
LEMMA TellsOne ==
    ASSUME NEW m, NEW w \in [Nodes -> Nat], NEW n, NEW nam, NEW pre, Taking(m, n, nam, pre),
           NEW x, Told(m, w, x, n, pre), NEW i \in Iters
    PROVE  /\ Told(m, w, TellOne(x, i, n), n, pre)
           /\ NoneOn(x, TellOne(x, i, n), n)
           /\ Alone(m) /\ m.it[i].dir = m.parent[n] => TellOne(x, i, n).it[i].pos # n
<1>1. x.it[i].dir = m.it[i].dir /\ x.parent = m.parent
  BY DEF Told
<1>2. CASE x.it[i].dir # x.parent[n]
  BY <1>1, <1>2 DEF TellOne, NoneOn
<1>3. CASE x.it[i].dir = x.parent[n]
  <2>1. TellOne(x, i, n) = NotifyOf(x, i, n)
    BY <1>3 DEF TellOne
  <2>2. /\ Told(m, w, NotifyOf(x, i, n), n, pre)
        /\ NoneOn(x, NotifyOf(x, i, n), n)
        /\ Alone(m) => NotifyOf(x, i, n).it[i].pos # n
    BY <1>3, NotifyTells
  <2> QED BY <2>1, <2>2
<1> QED BY <1>2, <1>3

\* All iterators of the directory get told about n.
LEMMA AllTold ==
    ASSUME NEW m, NEW w \in [Nodes -> Nat], NEW n, NEW nam, NEW pre, Taking(m, n, nam, pre),
           Owned(m, w), NEW x, x = NotifyAll(m, n)
    PROVE  /\ Told(m, w, x, n, pre)
           /\ Alone(m) /\ Itered(m) =>
                 \A i \in Iters : m.it[i].dir = m.parent[n] => x.it[i].pos # n
<1> DEFINE N == Len(m.reg)
           V == {y \in Memory : Told(m, w, y, n, pre)}
           g == [k \in 1 .. N |-> [y \in V |-> TellOne(y, m.reg[k], n)]]
           P(f) == f = [k \in 0 .. Len(m.reg) |->
                          IF k = 0 THEN m
                          ELSE IF f[k - 1].it[m.reg[k]].dir # f[k - 1].parent[n] THEN f[k - 1]
                          ELSE NotifyOf(f[k - 1], m.reg[k], n)]
           told == CHOOSE f : P(f)
<1>1. m \in Memory /\ m.parent[n] \in Dirs
  BY DEF Taking
<1>2. N \in Nat /\ \A k \in 1 .. N : m.reg[k] \in Iters
  BY <1>1 DEF Memory
<1>3. m \in V
  BY <1>1 DEF Told
<1>4. g \in [1 .. N -> [V -> V]]
  <2>1. ASSUME NEW k \in 1 .. N, NEW y \in V PROVE TellOne(y, m.reg[k], n) \in V
    <3>1. m.reg[k] \in Iters /\ Told(m, w, y, n, pre)
      BY <1>2
    <3>2. Told(m, w, TellOne(y, m.reg[k], n), n, pre)
      BY <3>1, TellsOne
    <3> QED BY <3>2 DEF Told
  <2> HIDE DEF V, N
  <2> QED BY <2>1
<1>5. PICK h \in [0 .. N -> V] : Iterates(h, N, m, g)
  <2> HIDE DEF V, N, g
  <2> QED BY <1>2, <1>3, <1>4, Recursion
<1>6. h[0] = m /\ \A k \in 1 .. N : h[k] = TellOne(h[k - 1], m.reg[k], n)
  <2>1. \A k \in 1 .. N : h[k] = g[k][h[k - 1]]
    <3> HIDE DEF g, N, V
    <3> QED BY <1>5 DEF Iterates
  <2>2. \A k \in 1 .. N : k - 1 \in 0 .. N
    BY <1>2
  <2>3. \A k \in 1 .. N : h[k - 1] \in V
    BY <1>5, <2>2
  <2>4. h[0] = m
    BY <1>5 DEF Iterates
  <2> QED BY <2>1, <2>3, <2>4
<1>7. P(h)
  <2>1. h = [k \in 0 .. N |-> h[k]]
    BY <1>5
  <2>2. ASSUME NEW k \in 0 .. N
        PROVE  h[k] = IF k = 0 THEN m
                      ELSE IF h[k - 1].it[m.reg[k]].dir # h[k - 1].parent[n] THEN h[k - 1]
                      ELSE NotifyOf(h[k - 1], m.reg[k], n)
    <3>1. CASE k = 0
      BY <1>6, <3>1
    <3>2. CASE k # 0
      <4>1. k \in 1 .. N
        BY <1>2, <3>2
      <4> QED BY <1>6, <3>2, <4>1 DEF TellOne
    <3> QED BY <3>1, <3>2
  <2> QED BY <2>1, <2>2
<1>8. P(told)
  <2> HIDE DEF P
  <2> QED BY <1>7
<1>9. x = told[N]
  BY DEF NotifyAll
<1> HIDE DEF told
<1>10. told[0] = m /\ \A k \in 1 .. N : told[k] = TellOne(told[k - 1], m.reg[k], n)
  <2>1. 0 \in 0 .. N /\ \A k \in 1 .. N : k \in 0 .. N /\ k # 0
    BY <1>2
  <2> QED BY <1>8, <2>1, ZenonT(40) DEF TellOne
<1> DEFINE T == {k \in 0 .. N : Told(m, w, told[k], n, pre)}
           U == {k \in 0 .. N : \A j \in 1 .. k : m.it[m.reg[j]].dir = m.parent[n] =>
                                                    told[k].it[m.reg[j]].pos # n}
<1> HIDE DEF g, V, P, N
<1>11. \A k \in 0 .. N : k \in T
  <2>1. 0 \in T
    BY <1>2, <1>3, <1>10 DEF V
  <2>2. ASSUME NEW k \in 1 .. N, k - 1 \in T PROVE k \in T
    <3>1. Told(m, w, told[k - 1], n, pre) /\ m.reg[k] \in Iters
      BY <1>2, <2>2
    <3>2. Told(m, w, TellOne(told[k - 1], m.reg[k], n), n, pre)
      BY <3>1, TellsOne
    <3>3. k \in 0 .. N
      BY <1>2
    <3> QED BY <1>10, <3>2, <3>3
  <2> HIDE DEF T
  <2> QED BY <1>2, <2>1, <2>2, Induct
<1>12. ASSUME Alone(m), Itered(m), NEW i \in Iters, m.it[i].dir = m.parent[n]
       PROVE  x.it[i].pos # n
  <2>1. 0 \in U
    BY <1>2
  <2>2. ASSUME NEW k \in 1 .. N, k - 1 \in U PROVE k \in U
    <3> DEFINE y == told[k - 1]
    <3>1. Told(m, w, y, n, pre) /\ m.reg[k] \in Iters
      <4>1. k - 1 \in T
        BY <1>2, <1>11
      <4> QED BY <1>2, <4>1
    <3>2. /\ \A j \in Iters : y.it[j].pos # n => TellOne(y, m.reg[k], n).it[j].pos # n
          /\ Alone(m) /\ m.it[m.reg[k]].dir = m.parent[n] => TellOne(y, m.reg[k], n).it[m.reg[k]].pos # n
      <4> HIDE DEF y
      <4>1. PICK a \in Iters : a = m.reg[k]
        BY <3>1
      <4>2. NoneOn(y, TellOne(y, a, n), n)
        BY <3>1, TellsOne
      <4>3. Alone(m) /\ m.it[a].dir = m.parent[n] => TellOne(y, a, n).it[a].pos # n
        BY <3>1, TellsOne
      <4> QED BY <4>1, <4>2, <4>3 DEF NoneOn
    <3>3. told[k] = TellOne(y, m.reg[k], n)
      BY <1>10
    <3>4. \A j \in 1 .. k - 1 : m.it[m.reg[j]].dir = m.parent[n] => y.it[m.reg[j]].pos # n
      BY <2>2
    <3>5. ASSUME NEW j \in 1 .. k, m.it[m.reg[j]].dir = m.parent[n] PROVE told[k].it[m.reg[j]].pos # n
      <4> HIDE DEF y
      <4>1. CASE j = k
        BY <1>12, <3>2, <3>3, <3>5, <4>1
      <4>2. CASE j # k
        <5>1. j \in 1 .. k - 1 /\ j \in 1 .. N
          BY <1>2, <4>2
        <5> QED BY <1>2, <3>2, <3>3, <3>4, <3>5, <5>1
      <4> QED BY <4>1, <4>2
    <3>6. k \in 0 .. N
      BY <1>2
    <3> QED BY <3>5, <3>6
  <2>3. N \in U
    <3>1. \A k \in 0 .. N : k \in U
      <4> HIDE DEF U
      <4> QED BY <1>2, <2>1, <2>2, Induct
    <3> QED BY <1>2, <3>1
  <2>4. PICK k \in 1 .. N : m.reg[k] = i
    BY <1>1, <1>12, NodesFacts DEF Itered, N
  <2> QED BY <1>9, <1>12, <2>3, <2>4
<1>13. Told(m, w, x, n, pre)
  BY <1>2, <1>9, <1>11
<1> QED BY <1>12, <1>13

-----------------------------------------------------------------------------
(* Taking                                                                  *)

\* The lists are in order by some names.
ListsBy(m, nam) ==
    \A d \in Dirs : /\ Ordered(m.head[d], m.next, nam, Kids(m, d))
                    /\ m.count[d] = Cardinality(Kids(m, d))

\* What becomes of a memory m when n is taken from behind pre.
Taken(m, q, n, pre) ==
    /\ q.parent = [m.parent EXCEPT ![n] = NoNode] /\ q.name = m.name /\ q.reg = m.reg
    /\ \A p \in Nodes : m.ref[p] > 0 => q.ref[p] > 0
    /\ \A i \in Iters : /\ q.it[i].dir = m.it[i].dir /\ q.it[i].fresh = m.it[i].fresh
                        /\ q.it[i].pos = m.it[i].pos \/ Stepped(m, q, n, pre, i)
    /\ pre \in (Kids(m, m.parent[n]) \ {n}) \cup {NoNode}
    /\ Alone(m) /\ Itered(m) =>
          \A i \in Iters : m.it[i].dir = m.parent[n] => q.it[i].pos # n

\* Unlinking once more changes nothing.
LEMMA UnlinkedTwice ==
    ASSUME NEW m \in Memory, NEW x \in Memory, NEW d \in Dirs, NEW pre \in Nodes \cup {NoNode},
           NEW n, x.head = SetLink(m, d, pre, n).head, x.next = SetLink(m, d, pre, n).next
    PROVE  SetLink(x, d, pre, n).head = x.head /\ SetLink(x, d, pre, n).next = x.next
<1>1. m.head \in [Dirs -> Nodes \cup {NoNode}] /\ m.next \in [Nodes -> Nodes \cup {NoNode}]
  BY DEF Memory
<1>2. CASE pre = NoNode
  <2>1. SetLink(m, d, pre, n).head = [m.head EXCEPT ![d] = n]
    BY <1>2 DEF SetLink, Memory
  <2>2. SetLink(x, d, pre, n).head = [x.head EXCEPT ![d] = n] /\ SetLink(x, d, pre, n).next = x.next
    BY <1>2 DEF SetLink, Memory
  <2> QED BY <1>1, <2>1, <2>2
<1>3. CASE pre # NoNode
  <2>1. SetLink(m, d, pre, n).next = [m.next EXCEPT ![pre] = n]
    BY <1>3 DEF SetLink, Memory
  <2>2. SetLink(x, d, pre, n).next = [x.next EXCEPT ![pre] = n] /\ SetLink(x, d, pre, n).head = x.head
    BY <1>3 DEF SetLink, Memory
  <2> QED BY <1>1, <1>3, <2>1, <2>2
<1> QED BY <1>2, <1>3

\* iso_node_take(), for a list which is ordered by given names.
LEMMA TakeSane ==
    ASSUME NEW m \in Memory, NEW w \in [Nodes -> Nat], Owned(m, w), IsTree(m),
           NEW nam \in [Nodes -> Nat], ListsBy(m, nam),
           NEW n \in Nodes \ {Root}, m.parent[n] # NoNode, NEW q, q = TakeOf(m, n)
    PROVE  /\ q \in Memory /\ Owned(q, [w EXCEPT ![n] = @ + 1]) /\ IsTree(q) /\ ListsBy(q, nam)
           /\ Taken(m, q, n, Before(m, m.parent[n], {n}))
           /\ IsPlace(Before(m, m.parent[n], {n}), nam, nam[n], Kids(m, m.parent[n]))
<1> DEFINE d   == m.parent[n]
           pre == Before(m, d, {n})
           K   == Kids(m, d)
           x   == NotifyAll(m, n)
           s   == SetLink(x, d, pre, m.next[n])
<1>1. n \in Nodes /\ d \in Dirs /\ n \in K /\ K \in SUBSET Nodes /\ n # NoNode /\ n # Root
  BY NodesFacts DEF Memory, Kids
<1>2. Taking(m, n, nam, pre)
  BY <1>1 DEF Taking, ListsBy
<1> HIDE DEF K
<1>3. /\ IsPlace(pre, nam, nam[n], K)
      /\ pre \in (K \ {n}) \cup {NoNode} /\ pre \in Nodes \cup {NoNode} /\ pre # n
      /\ m.next[n] \in Nodes \cup {NoNode}
  BY <1>2, TakingFacts DEF K
<1> HIDE DEF pre
<1>4. /\ Told(m, w, x, n, pre)
      /\ Alone(m) /\ Itered(m) =>
            \A i \in Iters : m.it[i].dir = m.parent[n] => x.it[i].pos # n
  BY <1>2, AllTold
<1> HIDE DEF x
<1>5. /\ x \in Memory /\ Owned(x, w)
      /\ x.parent = m.parent /\ x.name = m.name /\ x.count = m.count /\ x.reg = m.reg
      /\ \A p \in Nodes : m.ref[p] > 0 => x.ref[p] > 0
      /\ \A i \in Iters : /\ x.it[i].dir = m.it[i].dir /\ x.it[i].fresh = m.it[i].fresh
                          /\ x.it[i].pos = m.it[i].pos \/ Stepped(m, x, n, pre, i)
  BY <1>4 DEF Told
<1>6. s \in Memory /\ SameButLinks(x, s)
  BY <1>1, <1>3, <1>5, SetLinkFacts
<1>7. s.head = Unlinked(m, n, pre).head /\ s.next = Unlinked(m, n, pre).next
  <2>1. Unlinked(m, n, pre) = SetLink(m, d, pre, m.next[n])
    BY DEF Unlinked
  <2>2. CASE x.head = m.head /\ x.next = m.next
    BY <1>5, <2>1, <2>2, SameSetLink
  <2>3. CASE x.head = Unlinked(m, n, pre).head /\ x.next = Unlinked(m, n, pre).next
    BY <1>1, <1>3, <1>5, <2>1, <2>3, UnlinkedTwice, SMTT(30)
  <2> QED BY <1>4, <2>2, <2>3 DEF Told
<1>8. q = [s EXCEPT !.parent[n] = NoNode, !.next[n] = NoNode, !.count[d] = @ - 1]
  BY DEF TakeOf, x, pre
<1> HIDE DEF s
<1>9. m.count[d] = Cardinality(K) /\ Cardinality(K) \in Nat /\ Cardinality(K \ {n}) = Cardinality(K) - 1
      /\ Cardinality(K) - 1 \in Nat
  <2>1. m.count[d] = Cardinality(K)
    BY <1>1 DEF ListsBy, K
  <2>2. IsFiniteSet(K)
    BY <1>1, NodesFacts, FS_Subset
  <2>3. Cardinality(K) \in Nat /\ Cardinality(K \ {n}) = Cardinality(K) - 1 /\ Cardinality(K \ {n}) \in Nat
    BY <1>1, <2>2, FS_RemoveElement, FS_CardinalityType, FS_Subset
  <2> QED BY <2>1, <2>3
<1>10. /\ q.ref = x.ref /\ q.name = m.name /\ q.it = x.it /\ q.reg = m.reg
       /\ q.head = s.head /\ q.parent = [m.parent EXCEPT ![n] = NoNode]
       /\ q.next = [s.next EXCEPT ![n] = NoNode] /\ q.count = [m.count EXCEPT ![d] = @ - 1]
  <2>1. /\ q.ref = s.ref /\ q.name = s.name /\ q.it = s.it /\ q.reg = s.reg
        /\ q.head = s.head /\ q.parent = [s.parent EXCEPT ![n] = NoNode]
        /\ q.next = [s.next EXCEPT ![n] = NoNode] /\ q.count = [s.count EXCEPT ![d] = @ - 1]
    BY <1>6, <1>8 DEF Memory
  <2>2. /\ s.ref = x.ref /\ s.name = m.name /\ s.it = x.it /\ s.reg = m.reg
        /\ s.parent = m.parent /\ s.count = m.count
    BY <1>5, <1>6 DEF SameButLinks
  <2> QED BY <2>1, <2>2
<1>11. q \in Memory
  <2>1. [m.count EXCEPT ![d] = @ - 1] \in [Dirs -> Nat]
    BY <1>1, <1>9 DEF Memory
  <2>2. s.count = m.count
    BY <1>5, <1>6 DEF SameButLinks
  <2> DEFINE c == [m.count EXCEPT ![d] = @ - 1]
             r == [s.parent EXCEPT ![n] = NoNode]
             k == [s.next EXCEPT ![n] = NoNode]
  <2>3. q = [s EXCEPT !.parent = r, !.next = k, !.count = c]
    BY <1>6, <1>8, <2>2 DEF Memory
  <2>4. r \in [Nodes -> Dirs \cup {NoNode}] /\ k \in [Nodes -> Nodes \cup {NoNode}]
    BY <1>6 DEF Memory
  <2> HIDE DEF c, r, k
  <2> QED BY <1>6, <2>1, <2>3, <2>4, ZenonT(40) DEF Memory, c
<1>12. \A y \in Nodes : q.parent[y] = IF y = n THEN NoNode ELSE m.parent[y]
  BY <1>10 DEF Memory
<1>13. Kids(q, d) = K \ {n} /\ \A e \in Dirs : e # d => Kids(q, e) = Kids(m, e)
  <2>1. \A e \in Dirs : e # NoNode
    BY NodesFacts
  <2> QED BY <1>1, <1>12, <2>1 DEF Kids, K
<1>14. \A y \in Nodes : y # n => q.next[y] = s.next[y]
  BY <1>6, <1>10 DEF Memory
<1>15. /\ Ordered(s.head[d], s.next, nam, K \ {n})
       /\ \A e \in Dirs : e # d => s.head[e] = m.head[e]
       /\ \A y \in Nodes : y # pre => s.next[y] = m.next[y]
  <2>1. Ordered(s.head[d], s.next, nam, Kids(m, d) \ {n})
    BY <1>2, <1>7, UnlinkedList
  <2>2. OtherLinks(m, s, d, pre)
    BY <1>2, <1>7, UnlinkedList
  <2> QED BY <2>1, <2>2 DEF K, OtherLinks
<1>16. ASSUME NEW e \in Dirs
       PROVE  /\ Ordered(q.head[e], q.next, nam, Kids(q, e))
              /\ q.count[e] = Cardinality(Kids(q, e))
  <2>1. CASE e = d
    <3>1. \A y \in K \ {n} : q.next[y] = s.next[y] /\ nam[y] = nam[y]
      BY <1>1, <1>14
    <3>2. Ordered(s.head[d], q.next, nam, K \ {n})
      BY <1>15, <3>1, SameOrder
    <3>3. q.count[d] = Cardinality(K) - 1
      BY <1>1, <1>9, <1>10 DEF Memory
    <3> QED BY <1>9, <1>10, <1>13, <2>1, <3>2, <3>3
  <2>2. CASE e # d
    <3>1. \A y \in Kids(m, e) : y \in Nodes /\ y # pre /\ y # n
      BY <1>3, <2>2, NodesFacts DEF Kids, K
    <3>2. \A y \in Kids(m, e) : q.next[y] = m.next[y] /\ nam[y] = nam[y]
      BY <1>14, <1>15, <3>1
    <3>3. Ordered(m.head[e], m.next, nam, Kids(m, e)) /\ m.count[e] = Cardinality(Kids(m, e))
      BY DEF ListsBy
    <3>4. Ordered(m.head[e], q.next, nam, Kids(m, e))
      BY <3>2, <3>3, SameOrder
    <3>5. q.head[e] = m.head[e] /\ q.count[e] = m.count[e]
      BY <1>10, <1>15, <2>2 DEF Memory
    <3> QED BY <1>13, <2>2, <3>3, <3>4, <3>5
  <2> QED BY <2>1, <2>2
<1>17. Owned(q, [w EXCEPT ![n] = @ + 1])
  <2> SUFFICES ASSUME NEW y \in Nodes
               PROVE  q.ref[y] = [w EXCEPT ![n] = @ + 1][y] + Parents(q, y)
                                 + Cardinality(PosOf(q, y)) + Cardinality(DirOf(q, y))
    BY DEF Owned
  <2> DEFINE p == Cardinality(PosOf(x, y))
             c == Cardinality(DirOf(x, y))
  <2>1. Cardinality(PosOf(q, y)) = p /\ Cardinality(DirOf(q, y)) = c
    BY <1>10 DEF PosOf, DirOf
  <2>2. /\ x.ref[y] = w[y] + Parents(x, y) + p + c /\ p \in Nat /\ c \in Nat /\ w[y] \in Nat
        /\ Parents(x, y) \in {0, 1}
    BY <1>5, Holders DEF Owned
  <2>3. CASE y = n
    <3>1. Parents(x, y) = 1 /\ Parents(q, y) = 0 /\ [w EXCEPT ![n] = @ + 1][y] = w[y] + 1
      BY <1>5, <1>12, <2>3, NodesFacts DEF Parents
    <3> HIDE DEF p, c
    <3> QED BY <1>10, <2>1, <2>2, <3>1
  <2>4. CASE y # n
    <3>1. Parents(x, y) = Parents(q, y) /\ [w EXCEPT ![n] = @ + 1][y] = w[y]
      BY <1>5, <1>12, <2>4 DEF Parents
    <3> HIDE DEF p, c
    <3> QED BY <1>10, <2>1, <2>2, <3>1
  <2> QED BY <2>3, <2>4
<1>18. IsTree(q)
  <2>1. q.parent[Root] = Root
    BY <1>1, <1>12, NodesFacts DEF IsTree
  <2>2. \A y \in Nodes : q.parent[y] # NoNode => q.ref[q.parent[y]] > 0
    <3>1. \A y \in Nodes : q.parent[y] # NoNode => q.parent[y] = m.parent[y] /\ m.parent[y] \in Nodes
      BY <1>12, NodesFacts DEF Memory
    <3> QED BY <1>5, <1>10, <3>1 DEF IsTree
  <2>3. NoLoop(q.parent)
    <3> SUFFICES ASSUME NEW S \in SUBSET (Nodes \ {Root}), S # {}
                 PROVE  \E y \in S : q.parent[y] \notin S
      BY DEF NoLoop
    <3>1. PICK y \in S : m.parent[y] \notin S
      BY DEF IsTree, NoLoop
    <3> QED BY <1>12, <3>1, NodesFacts
  <2> QED BY <2>1, <2>2, <2>3 DEF IsTree
<1>19. Taken(m, q, n, pre)
  <2>1. \A p \in Nodes : m.ref[p] > 0 => q.ref[p] > 0
    BY <1>5, <1>10
  <2>2. ASSUME NEW i \in Iters
        PROVE  /\ q.it[i].dir = m.it[i].dir /\ q.it[i].fresh = m.it[i].fresh
               /\ q.it[i].pos = m.it[i].pos \/ Stepped(m, q, n, pre, i)
    BY <1>5, <1>10 DEF Stepped
  <2>3. Alone(m) /\ Itered(m) =>
          \A i \in Iters : m.it[i].dir = m.parent[n] => q.it[i].pos # n
    BY <1>4, <1>10
  <2>4. pre \in (Kids(m, m.parent[n]) \ {n}) \cup {NoNode}
    BY <1>3 DEF K
  <2> QED BY <1>10, <2>1, <2>2, <2>3, <2>4 DEF Taken
<1>20. ListsBy(q, nam)
  BY <1>16 DEF ListsBy
<1> QED BY <1>3, <1>11, <1>17, <1>18, <1>19, <1>20 DEF pre, K

-----------------------------------------------------------------------------
(* Steps                                                                   *)

\* The children keep their names.
SameNames(m, q) == \A d \in Dirs : \A x \in Kids(m, d) : q.name[x] = m.name[x]

\* A step changes neither the order of the lists nor what is below what.
LEMMA SameLists ==
    ASSUME NEW m, NEW q, Lists(m), q.head = m.head, q.next = m.next, q.count = m.count,
           q.parent = m.parent, SameNames(m, q)
    PROVE  Lists(q)
<1> SUFFICES ASSUME NEW d \in Dirs PROVE IsList(q, d)
  BY DEF Lists
<1>1. Ordered(m.head[d], m.next, m.name, Kids(m, d)) /\ m.count[d] = Cardinality(Kids(m, d))
  BY DEF Lists, IsList
<1>2. Kids(q, d) = Kids(m, d)
  BY DEF Kids
<1>3. \A x \in Kids(m, d) : m.next[x] = m.next[x] /\ q.name[x] = m.name[x]
  BY DEF SameNames
<1>4. Ordered(m.head[d], m.next, q.name, Kids(m, d))
  BY <1>1, <1>3, SameOrder
<1> QED BY <1>1, <1>2, <1>4 DEF IsList

\* Positions change only from one child to another.
LEMMA SameItered ==
    ASSUME NEW m, NEW q, Itered(m), q.reg = m.reg,
           \A i \in Iters : /\ q.it[i].dir = m.it[i].dir
                            /\ \/ q.it[i].pos = m.it[i].pos
                               \/ m.it[i].dir # NoNode /\ q.it[i].pos # Root
    PROVE  Itered(q)
BY DEF Itered

\* Nothing moves, and no node is freed.
LEMMA SameTree ==
    ASSUME NEW m \in Memory, NEW q, IsTree(m), q.parent = m.parent,
           \A x \in Nodes : m.ref[x] > 0 => q.ref[x] > 0
    PROVE  IsTree(q)
BY NodesFacts DEF IsTree, Memory

\* One iterator and some owners change.
Exchanged(m, w, q, v, i) ==
    /\ \A j \in Iters : j # i => q.it[j].pos = m.it[j].pos /\ q.it[j].dir = m.it[j].dir
    /\ \A x \in Nodes : q.ref[x] + w[x] + Is(m.it[i].pos, x) + Is(m.it[i].dir, x)
                          = m.ref[x] + v[x] + Is(q.it[i].pos, x) + Is(q.it[i].dir, x)

\* Then each reference still has its owner.
LEMMA ChangeOwned ==
    ASSUME NEW m \in Memory, NEW w \in [Nodes -> Nat], Owned(m, w), NEW q \in Memory, NEW i \in Iters,
           q.parent = m.parent, NEW v \in [Nodes -> Nat], Exchanged(m, w, q, v, i)
    PROVE  Owned(q, v)
<1> SUFFICES ASSUME NEW x \in Nodes
             PROVE  q.ref[x] = v[x] + Parents(q, x) + Cardinality(PosOf(q, x))
                               + Cardinality(DirOf(q, x))
  BY DEF Owned
<1> DEFINE p == Cardinality(PosOf(m, x))
           c == Cardinality(DirOf(m, x))
           pq == Cardinality(PosOf(q, x))
           cq == Cardinality(DirOf(q, x))
           a  == Is(m.it[i].pos, x)
           b  == Is(q.it[i].pos, x)
           e  == Is(m.it[i].dir, x)
           f  == Is(q.it[i].dir, x)
<1>1. /\ m.ref[x] = w[x] + Parents(m, x) + p + c /\ p \in Nat /\ c \in Nat /\ w[x] \in Nat
      /\ Parents(m, x) \in {0, 1} /\ v[x] \in Nat
  BY Holders DEF Owned
<1>2. pq \in Nat /\ cq \in Nat /\ pq + a = p + b /\ cq + e = c + f
  BY IterMoves DEF Exchanged
<1>3. Parents(q, x) = Parents(m, x)
  BY DEF Parents
<1>4. a \in Nat /\ b \in Nat /\ e \in Nat /\ f \in Nat
  BY DEF Is
<1>5. q.ref[x] + w[x] + a + e = m.ref[x] + v[x] + b + f /\ q.ref[x] \in Nat
  BY DEF Memory, Exchanged
<1> DEFINE r == q.ref[x]
           u == w[x]
           k == v[x]
           h == Parents(m, x)
<1>6. r + u + a + e = (u + h + p + c) + k + b + f /\ r \in Nat /\ u \in Nat /\ k \in Nat /\ h \in Nat
  BY <1>1, <1>5
<1> HIDE DEF a, b, e, f, p, c, pq, cq, r, u, k, h
<1>7. r = k + h + pq + cq
  BY <1>1, <1>2, <1>4, <1>6
<1> QED BY <1>3, <1>7 DEF pq, cq, r, k, h

\* Taking a node from its directory, to which it has to go.
LEMMA TakeStep ==
    ASSUME NEW m, NEW w, Sane(m, w), Itered(m), NEW n \in Nodes \ {Root}, m.parent[n] # NoNode,
           NEW q, q = TakeOf(m, n)
    PROVE  /\ Sane(q, [w EXCEPT ![n] = @ + 1]) /\ Itered(q)
           /\ Taken(m, q, n, Before(m, m.parent[n], {n}))
           /\ IsPlace(Before(m, m.parent[n], {n}), m.name, m.name[n], Kids(m, m.parent[n]))
<1> DEFINE pre == Before(m, m.parent[n], {n})
<1>1. m \in Memory /\ w \in [Nodes -> Nat] /\ Owned(m, w) /\ IsTree(m) /\ Lists(m)
  BY DEF Sane
<1>2. m.name \in [Nodes -> Nat] /\ ListsBy(m, m.name)
  BY <1>1 DEF Memory, Lists, IsList, ListsBy
<1>3. /\ q \in Memory /\ Owned(q, [w EXCEPT ![n] = @ + 1]) /\ IsTree(q) /\ ListsBy(q, m.name)
      /\ Taken(m, q, n, pre) /\ IsPlace(pre, m.name, m.name[n], Kids(m, m.parent[n]))
  BY <1>1, <1>2, TakeSane
<1> HIDE DEF pre
<1>4. Lists(q)
  BY <1>3 DEF Taken, Lists, IsList, ListsBy
<1>5. [w EXCEPT ![n] = @ + 1] \in [Nodes -> Nat]
  BY <1>1
<1>6. Itered(q)
  <2>1. pre # Root
    BY <1>3, NodesFacts DEF Taken, Kids
  <2>2. \A i \in Iters : /\ q.it[i].dir = m.it[i].dir
                         /\ \/ q.it[i].pos = m.it[i].pos
                            \/ m.it[i].dir # NoNode /\ q.it[i].pos # Root
    BY <1>3, <2>1 DEF Taken, Stepped
  <2> QED BY <1>3, <2>2, SameItered DEF Taken
<1> QED BY <1>3, <1>4, <1>5, <1>6 DEF Sane, pre

\* And giving it up.
LEMMA RemoveStep ==
    ASSUME NEW m, NEW w, Sane(m, w), Itered(m), NEW n \in Nodes \ {Root}, m.parent[n] # NoNode,
           NEW q, q = UnrefOf(TakeOf(m, n), n)
    PROVE  Sane(q, w) /\ Itered(q) /\ SameView(TakeOf(m, n), q)
<1> DEFINE x == TakeOf(m, n)
           v == [w EXCEPT ![n] = @ + 1]
<1>1. Sane(x, v) /\ Itered(x)
  BY TakeStep
<1>2. w \in [Nodes -> Nat] /\ v[n] > 0 /\ n \in Nodes
  BY DEF Sane
<1> HIDE DEF x, v
<1>3. Sane(q, [v EXCEPT ![n] = @ - 1]) /\ SameView(x, q)
  BY <1>1, <1>2, UnrefSane DEF x
<1>4. [v EXCEPT ![n] = @ - 1] = w
  BY <1>2, GiveBack DEF v
<1>5. Itered(q)
  BY <1>1, <1>3, SameItered DEF SameView
<1> QED BY <1>3, <1>4, <1>5 DEF x

\* A free node has nothing below it and no holders.
LEMMA FreeNode ==
    ASSUME NEW m, NEW w, Sane(m, w), NEW n \in Nodes, m.ref[n] = 0
    PROVE  /\ m.parent[n] = NoNode /\ w[n] = 0 /\ PosOf(m, n) = {} /\ DirOf(m, n) = {}
           /\ \A x \in Nodes : m.parent[x] # n
<1>1. m \in Memory /\ w \in [Nodes -> Nat] /\ Owned(m, w) /\ IsTree(m)
  BY DEF Sane
<1> DEFINE p == Cardinality(PosOf(m, n))
           c == Cardinality(DirOf(m, n))
           h == Parents(m, n)
           u == w[n]
<1>2. 0 = u + h + p + c /\ p \in Nat /\ c \in Nat /\ u \in Nat /\ h \in Nat
  BY <1>1, Holders DEF Owned, Parents
<1>3. u = 0 /\ h = 0 /\ p = 0 /\ c = 0
  <2> HIDE DEF u, h, p, c
  <2> QED BY <1>2
<1>4. PosOf(m, n) = {} /\ DirOf(m, n) = {}
  BY <1>1, <1>3, Holders
<1>5. m.parent[n] = NoNode
  BY <1>3 DEF Parents
<1>6. \A x \in Nodes : m.parent[x] # n
  BY <1>1, NodesFacts DEF IsTree
<1> QED BY <1>3, <1>4, <1>5, <1>6

\* A node without nodes below it may go below another one.
LEMMA NoLoopLeaf ==
    ASSUME NEW m \in Memory, IsTree(m), NEW n \in Nodes, NEW d \in Dirs, d # n,
           \A x \in Nodes : m.parent[x] # n
    PROVE  NoLoop([m.parent EXCEPT ![n] = d])
<1> DEFINE p == [m.parent EXCEPT ![n] = d]
<1> SUFFICES ASSUME NEW S \in SUBSET (Nodes \ {Root}), S # {}
             PROVE  \E x \in S : p[x] \notin S
  BY DEF NoLoop
<1>1. p[n] = d /\ \A x \in Nodes : x # n => p[x] = m.parent[x]
  BY DEF Memory
<1> HIDE DEF p
<1>2. CASE S = {n}
  BY <1>1, <1>2
<1>3. CASE S # {n}
  <2>1. S \ {n} # {} /\ S \ {n} \in SUBSET (Nodes \ {Root})
    BY <1>3
  <2>2. PICK x \in S \ {n} : m.parent[x] \notin S \ {n}
    BY <2>1 DEF IsTree, NoLoop
  <2>3. x \in Nodes /\ x # n /\ m.parent[x] # n
    BY <2>2
  <2> QED BY <1>1, <2>2, <2>3
<1> QED BY <1>2, <1>3

\* So may one that is not above the other one.
LEMMA NoLoopAbove ==
    ASSUME NEW m \in Memory, IsTree(m), NEW n \in Nodes, NEW d \in Dirs, n \notin Above(m, d)
    PROVE  NoLoop([m.parent EXCEPT ![n] = d])
<1> DEFINE p == [m.parent EXCEPT ![n] = d]
           A == Above(m, d)
           Closed(S) == d \in S /\ \A c \in S : m.parent[c] \in S \cup {NoNode}
<1>1. A = {x \in Nodes : \A S \in {R \in SUBSET Nodes : Closed(R)} : x \in S}
  BY DEF Above, Least
<1> HIDE DEF A
<1>2. d \in A /\ A \in SUBSET Nodes
  BY <1>1, NodesFacts
<1>3. ASSUME NEW c \in A PROVE m.parent[c] \in A \cup {NoNode}
  <2>1. c \in Nodes /\ m.parent[c] \in Nodes \cup {NoNode}
    BY <1>2, NodesFacts DEF Memory
  <2>2. ASSUME m.parent[c] # NoNode, NEW S \in SUBSET Nodes, Closed(S) PROVE m.parent[c] \in S
    <3>1. c \in S
      BY <1>1, <2>2
    <3> QED BY <2>2, <3>1
  <2> QED BY <1>1, <2>1, <2>2
<1> SUFFICES ASSUME NEW S \in SUBSET (Nodes \ {Root}), S # {}, \A x \in S : p[x] \in S
             PROVE  FALSE
  BY DEF NoLoop
<1>4. p[n] = d /\ \A x \in Nodes : x # n => p[x] = m.parent[x]
  BY DEF Memory
<1> HIDE DEF p
<1>5. CASE n \notin S
  <2>1. PICK x \in S : m.parent[x] \notin S
    BY DEF IsTree, NoLoop
  <2> QED BY <1>4, <1>5, <2>1
<1>6. CASE n \in S
  <2> DEFINE R == S \cap A
  <2>1. d \in R /\ R \in SUBSET (Nodes \ {Root}) /\ n \notin R
    BY <1>2, <1>4, <1>6 DEF A
  <2> HIDE DEF R
  <2>2. PICK x \in R : m.parent[x] \notin R
    BY <2>1 DEF IsTree, NoLoop
  <2>3. x \in S /\ x \in A /\ x # n /\ x \in Nodes
    BY <2>1, <2>2 DEF R
  <2>4. m.parent[x] \in S
    BY <1>4, <2>3
  <2>5. m.parent[x] \in A
    <3>1. m.parent[x] # NoNode
      BY <2>4, NodesFacts
    <3> QED BY <1>3, <2>3, <3>1
  <2> QED BY <2>2, <2>4, <2>5 DEF R
<1> QED BY <1>5, <1>6

\* A free node becomes one with a name and one owner, not yet in the tree.
LEMMA NewNode ==
    ASSUME NEW m, NEW w, Sane(m, w), Itered(m), NEW n \in Nodes, m.ref[n] = 0, NEW nm \in Nat,
           NEW q, q = [m EXCEPT !.ref[n] = 1, !.name[n] = nm]
    PROVE  /\ Sane(q, [w EXCEPT ![n] = 1]) /\ q.it = m.it /\ q.reg = m.reg /\ q.parent = m.parent
           /\ q.ref = [m.ref EXCEPT ![n] = 1] /\ q.name = [m.name EXCEPT ![n] = nm]
<1>1. m \in Memory /\ w \in [Nodes -> Nat] /\ Owned(m, w) /\ IsTree(m) /\ Lists(m)
  BY DEF Sane
<1>2. /\ m.parent[n] = NoNode /\ w[n] = 0 /\ PosOf(m, n) = {} /\ DirOf(m, n) = {}
      /\ \A x \in Nodes : m.parent[x] # n
  BY FreeNode
<1>3. /\ q.it = m.it /\ q.reg = m.reg /\ q.parent = m.parent
      /\ q.ref = [m.ref EXCEPT ![n] = 1] /\ q.name = [m.name EXCEPT ![n] = nm]
      /\ q.head = m.head /\ q.next = m.next /\ q.count = m.count
  BY <1>1 DEF Memory
<1>4. q \in Memory
  <2> DEFINE r == [m.ref EXCEPT ![n] = 1]
             k == [m.name EXCEPT ![n] = nm]
  <2>1. r \in [Nodes -> Nat] /\ k \in [Nodes -> Nat]
    BY <1>1 DEF Memory
  <2>2. q = [m EXCEPT !.ref = r, !.name = k]
    BY <1>1 DEF Memory
  <2> HIDE DEF r, k
  <2> QED BY <1>1, <2>1, <2>2 DEF Memory
<1>5. Owned(q, [w EXCEPT ![n] = 1])
  <2> SUFFICES ASSUME NEW y \in Nodes
               PROVE  q.ref[y] = [w EXCEPT ![n] = 1][y] + Parents(q, y)
                                 + Cardinality(PosOf(q, y)) + Cardinality(DirOf(q, y))
    BY DEF Owned
  <2>1. PosOf(q, y) = PosOf(m, y) /\ DirOf(q, y) = DirOf(m, y) /\ Parents(q, y) = Parents(m, y)
    BY <1>3 DEF PosOf, DirOf, Parents
  <2>2. CASE y = n
    <3>1. Cardinality(PosOf(q, y)) = 0 /\ Cardinality(DirOf(q, y)) = 0
      BY <1>2, <2>1, <2>2, FS_EmptySet
    <3>2. Parents(q, y) = 0 /\ q.ref[y] = 1 /\ [w EXCEPT ![n] = 1][y] = 1
      BY <1>1, <1>2, <1>3, <2>2 DEF Parents, Memory
    <3> QED BY <3>1, <3>2
  <2>3. CASE y # n
    <3>1. q.ref[y] = m.ref[y] /\ [w EXCEPT ![n] = 1][y] = w[y]
      BY <1>1, <1>3, <2>3 DEF Memory
    <3>2. m.ref[y] = w[y] + Parents(m, y) + Cardinality(PosOf(m, y)) + Cardinality(DirOf(m, y))
      BY <1>1 DEF Owned
    <3> QED BY <2>1, <3>1, <3>2
  <2> QED BY <2>2, <2>3
<1>6. IsTree(q)
  <2>1. \A x \in Nodes : m.ref[x] > 0 => q.ref[x] > 0
    BY <1>1, <1>3 DEF Memory
  <2>2. q.parent = m.parent
    BY <1>3
  <2> QED BY <1>1, <2>1, <2>2, SameTree, Zenon
<1>7. Lists(q)
  <2>1. ASSUME NEW d \in Dirs, NEW x \in Kids(m, d) PROVE q.name[x] = m.name[x]
    <3>1. x \in Nodes /\ x # n
      BY <1>2, NodesFacts DEF Kids
    <3> QED BY <1>1, <1>3, <3>1 DEF Memory
  <2>2. SameNames(m, q)
    BY <2>1 DEF SameNames
  <2>3. q.head = m.head /\ q.next = m.next /\ q.count = m.count /\ q.parent = m.parent
    BY <1>3
  <2> QED BY <1>1, <2>2, <2>3, SameLists
<1>8. [w EXCEPT ![n] = 1] \in [Nodes -> Nat]
  BY <1>1
<1> QED BY <1>3, <1>4, <1>5, <1>6, <1>7, <1>8 DEF Sane

\* iso_tree_add_new_dir() and its like
LEMMA AddNewStep ==
    ASSUME NEW m, NEW w, Sane(m, w), Itered(m), NEW d \in Dirs, m.ref[d] > 0,
           NEW n \in Nodes \ {Root}, m.ref[n] = 0, NEW nm \in Nat,
           NEW x, x = [m EXCEPT !.ref[n] = 1, !.name[n] = nm], NEW q, q = InsertOf(x, d, n)
    PROVE  Sane(q, w) /\ Itered(q) /\ InsertView(x, q, d, n)
<1> DEFINE v == [w EXCEPT ![n] = 1]
<1>1. /\ Sane(x, v) /\ x.it = m.it /\ x.reg = m.reg /\ x.parent = m.parent
      /\ x.ref = [m.ref EXCEPT ![n] = 1] /\ x.name = [m.name EXCEPT ![n] = nm]
  <2>1. n \in Nodes
    OBVIOUS
  <2>2. Sane(x, [w EXCEPT ![n] = 1])
    BY <2>1, NewNode
  <2>3. /\ x.it = m.it /\ x.reg = m.reg /\ x.parent = m.parent
        /\ x.ref = [m.ref EXCEPT ![n] = 1] /\ x.name = [m.name EXCEPT ![n] = nm]
    BY DEF Sane, Memory
  <2> QED BY <2>2, <2>3
<1>2. /\ m.parent[n] = NoNode /\ w[n] = 0 /\ \A y \in Nodes : m.parent[y] # n
  BY FreeNode
<1>3. m \in Memory /\ IsTree(m) /\ w \in [Nodes -> Nat] /\ d \in Nodes /\ d # n
  BY NodesFacts DEF Sane
<1>4. NoLoop([m.parent EXCEPT ![n] = d])
  BY <1>2, <1>3, NoLoopLeaf
<1>5. x.parent[n] = NoNode /\ v[n] > 0 /\ x.ref[d] > 0 /\ NoLoop([x.parent EXCEPT ![n] = d])
  BY <1>1, <1>2, <1>3, <1>4 DEF Memory
<1>6. [v EXCEPT ![n] = @ - 1] = w
  <2>1. w[n] = 0 /\ v[n] - 1 = 0
    BY <1>2, <1>3
  <2> QED BY <1>3, <2>1
<1> HIDE DEF v
<1>7. Sane(q, [v EXCEPT ![n] = @ - 1]) /\ InsertView(x, q, d, n)
  <2>1. Sane(x, v)
    BY <1>1
  <2>2. Sane(InsertOf(x, d, n), [v EXCEPT ![n] = @ - 1])
    BY <1>5, <2>1, InsertSane
  <2>3. InsertView(x, InsertOf(x, d, n), d, n)
    BY <1>5, <2>1, InsertSane
  <2> QED BY <2>2, <2>3
<1>8. q.it = m.it /\ q.reg = m.reg
  BY <1>1, <1>7 DEF InsertView
<1> QED BY <1>6, <1>7, <1>8, SameItered

\* iso_dir_add_node()
LEMMA AddNodeStep ==
    ASSUME NEW m, NEW w, Sane(m, w), Itered(m), NEW d \in Dirs, m.ref[d] > 0,
           NEW n \in Nodes \ {Root}, w[n] > 0, m.parent[n] = NoNode, n \notin Above(m, d),
           NEW q, q = InsertOf(m, d, n)
    PROVE  Sane(q, [w EXCEPT ![n] = @ - 1]) /\ Itered(q) /\ InsertView(m, q, d, n)
<1>1. NoLoop([m.parent EXCEPT ![n] = d])
  BY NoLoopAbove DEF Sane
<1>2. Sane(q, [w EXCEPT ![n] = @ - 1]) /\ InsertView(m, q, d, n)
  BY <1>1, InsertSane
<1>3. Itered(q)
  BY <1>2, SameItered DEF InsertView
<1> QED BY <1>2, <1>3

\* A new name for a node.
LEMMA Renamed ==
    ASSUME NEW m, NEW w, Sane(m, w), Itered(m), NEW n \in Nodes, NEW nm \in Nat,
           NEW q, q = [m EXCEPT !.name[n] = nm]
    PROVE  /\ q \in Memory /\ Owned(q, w) /\ IsTree(q) /\ Itered(q) /\ ListsBy(q, m.name)
           /\ q.ref = m.ref /\ q.parent = m.parent /\ q.it = m.it /\ q.reg = m.reg
           /\ \A x \in Nodes : x # n => q.name[x] = m.name[x]
           /\ m.parent[n] = NoNode => Lists(q)
<1>1. m \in Memory /\ w \in [Nodes -> Nat] /\ Owned(m, w) /\ IsTree(m) /\ Lists(m)
  BY DEF Sane
<1>2. /\ q.ref = m.ref /\ q.parent = m.parent /\ q.it = m.it /\ q.reg = m.reg /\ q.head = m.head
      /\ q.next = m.next /\ q.count = m.count /\ q.name = [m.name EXCEPT ![n] = nm]
  BY <1>1 DEF Memory
<1>3. q \in Memory
  BY <1>1 DEF Memory
<1>4. Owned(q, w) /\ IsTree(q) /\ Itered(q) /\ ListsBy(q, m.name)
  BY <1>1, <1>2 DEF Owned, IsTree, Itered, ListsBy, Lists, IsList, PosOf, DirOf, Parents, Kids
<1>5. \A x \in Nodes : x # n => q.name[x] = m.name[x]
  BY <1>1, <1>2 DEF Memory
<1>6. ASSUME m.parent[n] = NoNode PROVE Lists(q)
  <2>1. SameNames(m, q)
    BY <1>5, <1>6, NodesFacts DEF SameNames, Kids
  <2> QED BY <1>1, <1>2, <2>1, SameLists
<1> QED BY <1>2, <1>3, <1>4, <1>5, <1>6

\* iso_node_set_name() of a node in a directory.
LEMMA RenameStep ==
    ASSUME NEW m, NEW w, Sane(m, w), Itered(m), NEW n \in Nodes \ {Root}, m.parent[n] # NoNode,
           NEW nm \in Nat, NEW x, x = [m EXCEPT !.name[n] = nm], NEW y, y = TakeOf(x, n),
           NEW q, q = InsertOf(y, m.parent[n], n)
    PROVE  /\ Sane(q, w) /\ Itered(q)
           /\ Taken(x, y, n, Before(x, m.parent[n], {n})) /\ InsertView(y, q, m.parent[n], n)
           /\ IsPlace(Before(x, m.parent[n], {n}), m.name, m.name[n], Kids(m, m.parent[n]))
<1> DEFINE d == m.parent[n]
           v == [w EXCEPT ![n] = @ + 1]
           pre == Before(x, d, {n})
<1>1. m \in Memory /\ w \in [Nodes -> Nat] /\ IsTree(m) /\ m.name \in [Nodes -> Nat]
  BY DEF Sane, Memory
<1>2. /\ x \in Memory /\ Owned(x, w) /\ IsTree(x) /\ Itered(x) /\ ListsBy(x, m.name)
      /\ x.ref = m.ref /\ x.parent = m.parent /\ x.it = m.it /\ x.reg = m.reg
      /\ \A c \in Nodes : c # n => x.name[c] = m.name[c]
  BY Renamed
<1>3. x.parent[n] = d /\ d \in Dirs /\ m.ref[d] > 0
  BY <1>1, <1>2 DEF Memory, IsTree
<1>4. /\ y \in Memory /\ Owned(y, v) /\ IsTree(y) /\ ListsBy(y, m.name)
      /\ Taken(x, y, n, Before(x, x.parent[n], {n}))
      /\ IsPlace(Before(x, x.parent[n], {n}), m.name, m.name[n], Kids(x, x.parent[n]))
  BY <1>1, <1>2, <1>3, TakeSane
<1> HIDE DEF pre
<1>5. Taken(x, y, n, pre) /\ IsPlace(pre, m.name, m.name[n], Kids(m, d))
  BY <1>2, <1>3, <1>4 DEF pre, Kids
<1>6. y.name = x.name /\ y.parent = [m.parent EXCEPT ![n] = NoNode] /\ y.reg = m.reg /\ y.ref[d] > 0
  BY <1>2, <1>3, <1>5, NodesFacts DEF Taken
<1>7. Lists(y)
  <2> SUFFICES ASSUME NEW e \in Dirs PROVE IsList(y, e)
    BY DEF Lists
  <2>1. Ordered(y.head[e], y.next, m.name, Kids(y, e)) /\ y.count[e] = Cardinality(Kids(y, e))
    BY <1>4 DEF ListsBy
  <2>2. \A c \in Kids(y, e) : c \in Nodes /\ c # n
    BY <1>1, <1>6, NodesFacts DEF Kids, Memory
  <2>3. \A c \in Kids(y, e) : y.next[c] = y.next[c] /\ y.name[c] = m.name[c]
    BY <1>2, <1>6, <2>2
  <2>4. Ordered(y.head[e], y.next, y.name, Kids(y, e))
    BY <2>1, <2>3, SameOrder
  <2> QED BY <2>1, <2>4 DEF IsList
<1>8. Sane(y, v) /\ v[n] > 0 /\ y.parent[n] = NoNode
  <2>1. v \in [Nodes -> Nat] /\ v[n] > 0
    BY <1>1
  <2>2. y.parent[n] = NoNode
    BY <1>1, <1>6 DEF Memory
  <2> QED BY <1>4, <1>7, <2>1, <2>2 DEF Sane
<1>9. NoLoop([y.parent EXCEPT ![n] = d])
  <2>1. [y.parent EXCEPT ![n] = d] = m.parent
    BY <1>1, <1>6 DEF Memory
  <2> QED BY <1>1, <2>1 DEF IsTree
<1>10. [v EXCEPT ![n] = @ - 1] = w
  BY <1>1, GiveBack
<1> HIDE DEF v, d
<1>11. Sane(q, [v EXCEPT ![n] = @ - 1]) /\ InsertView(y, q, d, n)
  BY <1>3, <1>6, <1>8, <1>9, InsertSane DEF d
<1>12. Itered(y)
  <2>1. pre # Root /\ x.parent[n] # NoNode
    BY <1>3, <1>5, NodesFacts DEF Taken, Kids
  <2>2. \A i \in Iters : /\ y.it[i].dir = x.it[i].dir
                         /\ \/ y.it[i].pos = x.it[i].pos
                            \/ x.it[i].dir # NoNode /\ y.it[i].pos # Root
    BY <1>5, <2>1 DEF Taken, Stepped
  <2> QED BY <1>2, <1>6, <2>2, SameItered
<1>13. Itered(q)
  BY <1>11, <1>12, SameItered DEF InsertView
<1> QED BY <1>5, <1>10, <1>11, <1>13 DEF pre, d

\* An iterator sees the same.
SameSight(m, q) == q.it = m.it /\ q.parent = m.parent /\ q.name = m.name

\* iso_node_ref()
LEMMA RefStep ==
    ASSUME NEW m, NEW w, Sane(m, w), Itered(m), NEW n \in Nodes, NEW q, q = RefOf(m, n)
    PROVE  Sane(q, [w EXCEPT ![n] = @ + 1]) /\ Itered(q) /\ SameSight(m, q)
<1>1. m \in Memory /\ w \in [Nodes -> Nat] /\ Owned(m, w) /\ IsTree(m) /\ Lists(m)
  BY DEF Sane
<1>2. /\ q.ref = [m.ref EXCEPT ![n] = @ + 1] /\ q.parent = m.parent /\ q.it = m.it
      /\ q.reg = m.reg /\ q.head = m.head /\ q.next = m.next /\ q.count = m.count
      /\ q.name = m.name
  BY <1>1 DEF Memory, RefOf
<1>3. q \in Memory
  <2> DEFINE r == [m.ref EXCEPT ![n] = @ + 1]
  <2>1. r \in [Nodes -> Nat] /\ q = [m EXCEPT !.ref = r]
    BY <1>1 DEF Memory, RefOf
  <2> HIDE DEF r
  <2> QED BY <1>1, <2>1 DEF Memory
<1>4. Owned(q, [w EXCEPT ![n] = @ + 1])
  <2> SUFFICES ASSUME NEW y \in Nodes
               PROVE  q.ref[y] = [w EXCEPT ![n] = @ + 1][y] + Parents(q, y)
                                 + Cardinality(PosOf(q, y)) + Cardinality(DirOf(q, y))
    BY DEF Owned
  <2> DEFINE p == Cardinality(PosOf(m, y))
             c == Cardinality(DirOf(m, y))
  <2>1. Cardinality(PosOf(q, y)) = p /\ Cardinality(DirOf(q, y)) = c /\ Parents(q, y) = Parents(m, y)
    BY <1>2 DEF PosOf, DirOf, Parents
  <2>2. /\ m.ref[y] = w[y] + Parents(m, y) + p + c /\ p \in Nat /\ c \in Nat /\ w[y] \in Nat
        /\ Parents(m, y) \in Nat /\ m.ref[y] \in Nat
    BY <1>1, Holders DEF Owned, Memory, Parents
  <2>3. CASE y = n
    <3>1. q.ref[y] = m.ref[y] + 1 /\ [w EXCEPT ![n] = @ + 1][y] = w[y] + 1
      BY <1>1, <1>2, <2>3 DEF Memory
    <3> HIDE DEF p, c
    <3> QED BY <2>1, <2>2, <3>1
  <2>4. CASE y # n
    <3>1. q.ref[y] = m.ref[y] /\ [w EXCEPT ![n] = @ + 1][y] = w[y]
      BY <1>1, <1>2, <2>4 DEF Memory
    <3> HIDE DEF p, c
    <3> QED BY <2>1, <2>2, <3>1
  <2> QED BY <2>3, <2>4
<1>5. IsTree(q) /\ Lists(q) /\ Itered(q)
  <2>1. \A x \in Nodes : m.ref[x] > 0 => q.ref[x] > 0
    BY <1>1, <1>2 DEF Memory
  <2>2. IsTree(q)
    BY <1>1, <1>2, <2>1, SameTree
  <2>3. Lists(q) /\ Itered(q)
    BY <1>1, <1>2 DEF Lists, IsList, Kids, Itered
  <2> QED BY <2>2, <2>3
<1>6. [w EXCEPT ![n] = @ + 1] \in [Nodes -> Nat]
  BY <1>1
<1> QED BY <1>1, <1>2, <1>3, <1>4, <1>5, <1>6 DEF Sane, SameSight

\* One iterator changes, and references with it.
IterMove(m, q, i) ==
    /\ q.parent = m.parent /\ q.name = m.name /\ q.reg = m.reg
    /\ q.head = m.head /\ q.next = m.next /\ q.count = m.count
    /\ \A j \in Iters : j # i => q.it[j] = m.it[j]
    /\ q.it[i].dir = m.it[i].dir

\* The reference to its position goes with it.
Carried(m, q, i) ==
    \A y \in Nodes : /\ q.ref[y] + Is(m.it[i].pos, y) = m.ref[y] + Is(q.it[i].pos, y)
                     /\ m.ref[y] > 0 => q.ref[y] > 0

\* Such a move is sane.
LEMMA MoveStep ==
    ASSUME NEW m, NEW w, Sane(m, w), Itered(m), NEW i \in Iters, m.it[i].dir # NoNode,
           NEW q \in Memory, IterMove(m, q, i), Carried(m, q, i), q.it[i].pos # Root
    PROVE  Sane(q, w) /\ Itered(q)
<1>1. m \in Memory /\ w \in [Nodes -> Nat] /\ Owned(m, w) /\ IsTree(m) /\ Lists(m)
  BY DEF Sane
<1>2. Owned(q, w)
  <2>1. /\ q.it[i].dir = m.it[i].dir /\ q.parent = m.parent
        /\ \A j \in Iters : j # i => q.it[j].pos = m.it[j].pos /\ q.it[j].dir = m.it[j].dir
        /\ \A y \in Nodes : q.ref[y] + Is(m.it[i].pos, y) = m.ref[y] + Is(q.it[i].pos, y)
    BY DEF IterMove, Carried
  <2> QED BY <1>1, <2>1, MoveOwned
<1>3. IsTree(q)
  <2>1. \A y \in Nodes : m.ref[y] > 0 => q.ref[y] > 0
    BY DEF Carried
  <2> QED BY <1>1, <2>1, SameTree DEF IterMove
<1>4. Lists(q)
  BY <1>1 DEF IterMove, Lists, IsList, Kids
<1>5. Itered(q)
  BY DEF IterMove, Itered
<1> QED BY <1>1, <1>2, <1>3, <1>4, <1>5 DEF Sane

\* iter_next() and iter_take() forget that they may take.
Stale(m, i) == [m EXCEPT !.it[i].fresh = FALSE]

\* It changes nothing else.
LEMMA StaleStep ==
    ASSUME NEW m, NEW w, Sane(m, w), Itered(m), NEW i \in Iters,
           NEW q, q = Stale(m, i)
    PROVE  /\ Sane(q, w) /\ Itered(q) /\ IterMove(m, q, i)
           /\ q.ref = m.ref /\ q.it[i].pos = m.it[i].pos /\ q.it[i].fresh = FALSE
<1>1. m \in Memory /\ w \in [Nodes -> Nat] /\ Owned(m, w) /\ IsTree(m) /\ Lists(m)
  BY DEF Sane
<1> DEFINE jt == [m.it EXCEPT ![i].fresh = FALSE]
<1>2. /\ jt \in [Iters -> [dir : Dirs \cup {NoNode}, pos : Nodes \cup {NoNode}, fresh : BOOLEAN]]
      /\ \A j \in Iters : /\ jt[j].dir = m.it[j].dir /\ jt[j].pos = m.it[j].pos
                          /\ j # i => jt[j] = m.it[j]
      /\ jt[i].fresh = FALSE
  BY <1>1, ZenonT(40) DEF Memory
<1>3. q = [m EXCEPT !.it = jt]
  BY <1>1 DEF Memory, Stale
<1> HIDE DEF jt
<1>4. q \in Memory
  BY <1>1, <1>2, <1>3 DEF Memory
<1>5. /\ q.ref = m.ref /\ q.parent = m.parent /\ q.it = jt /\ q.reg = m.reg /\ q.head = m.head
      /\ q.next = m.next /\ q.count = m.count /\ q.name = m.name
  BY <1>1, <1>3 DEF Memory
<1>6. Owned(q, w) /\ IsTree(q) /\ Lists(q)
  <2>1. \A x : PosOf(q, x) = PosOf(m, x) /\ DirOf(q, x) = DirOf(m, x)
    BY <1>2, <1>5 DEF PosOf, DirOf
  <2> QED BY <1>1, <1>5, <2>1 DEF Owned, IsTree, Lists, IsList, Kids, Parents
<1>7. Itered(q)
  BY <1>2, <1>5 DEF Itered
<1>8. IterMove(m, q, i)
  BY <1>2, <1>5 DEF IterMove
<1> QED BY <1>1, <1>2, <1>4, <1>5, <1>6, <1>7, <1>8 DEF Sane

\* An iterator goes from p to node n.
LeftAt(x, p) == IF p = NoNode THEN x ELSE UnrefOf(x, p)

\* It has got there.
Arrived(q, i, n) == q.it[i].pos = n /\ q.it[i].fresh = TRUE

\* iter_next() with a next child.
LEMMA NextStep ==
    ASSUME NEW m, NEW w, Sane(m, w), Itered(m), NEW i \in Iters, m.it[i].dir # NoNode,
           NEW p, p = m.it[i].pos, p # NoNode => m.parent[p] = m.it[i].dir,
           NEW n \in Nodes \ {Root}, NEW x, x = Stale(m, i),
           NEW u, u = LeftAt(x, p), NEW q, q = IterMoved(u, i, n)
    PROVE  /\ Sane(q, w) /\ Itered(q) /\ IterMove(m, q, i)
           /\ Arrived(q, i, n)
<1>1. m \in Memory /\ w \in [Nodes -> Nat] /\ Owned(m, w) /\ IsTree(m) /\ Lists(m)
  BY DEF Sane
<1>2. Sane(x, w) /\ IterMove(m, x, i) /\ x.ref = m.ref
  <2>1. Sane(x, w)
    BY StaleStep
  <2>2. IterMove(m, x, i)
    BY StaleStep
  <2>3. x.ref = m.ref
    BY StaleStep, ZenonT(40)
  <2> QED BY <2>1, <2>2, <2>3
<1>3. x \in Memory
  BY <1>2 DEF Sane
<1>4. p # NoNode => p \in Nodes /\ m.ref[p] >= 2
  <2> SUFFICES ASSUME p # NoNode PROVE p \in Nodes /\ m.ref[p] >= 2
    OBVIOUS
  <2>1. p \in Nodes
    BY <1>1 DEF Memory
  <2>2. i \in PosOf(m, p)
    BY DEF PosOf
  <2>3. Cardinality(PosOf(m, p)) \in Nat /\ Cardinality(PosOf(m, p)) # 0
    BY <1>1, <2>2, Holders
  <2>4. Cardinality(DirOf(m, p)) \in Nat /\ w[p] \in Nat
    BY <1>1, <2>1, Holders
  <2>5. Parents(m, p) = 1
    BY DEF Parents
  <2>6. m.ref[p] = w[p] + Parents(m, p) + Cardinality(PosOf(m, p)) + Cardinality(DirOf(m, p))
    BY <1>1, <2>1 DEF Owned
  <2> QED BY <2>1, <2>3, <2>4, <2>5, <2>6
<1>5. /\ u \in Memory /\ u.parent = x.parent /\ u.name = x.name /\ u.reg = x.reg /\ u.head = x.head
      /\ u.next = x.next /\ u.count = x.count /\ u.it = x.it
      /\ \A y \in Nodes : /\ u.ref[y] + Is(p, y) = x.ref[y]
                          /\ x.ref[y] > 0 => u.ref[y] > 0
  <2>1. CASE p = NoNode
    <3>1. u = x
      BY <2>1 DEF LeftAt
    <3>2. \A y \in Nodes : Is(p, y) = 0 /\ x.ref[y] \in Nat
      BY <1>3, <2>1, NodesFacts DEF Is, Memory
    <3>3. \A y \in Nodes : u.ref[y] + Is(p, y) = x.ref[y] /\ (x.ref[y] > 0 => u.ref[y] > 0)
      BY <3>1, <3>2
    <3> QED BY <1>3, <3>1, <3>3
  <2>2. CASE p # NoNode
    <3> DEFINE r == [x.ref EXCEPT ![p] = @ - 1]
    <3>1. p \in Nodes /\ x.ref[p] >= 2 /\ x.ref \in [Nodes -> Nat]
      BY <1>2, <1>3, <1>4, <2>2 DEF Memory
    <3>2. u = [x EXCEPT !.ref[p] = @ - 1]
      <4>1. x.ref[p] # 1
        BY <3>1
      <4> QED BY <2>2, <4>1 DEF UnrefOf, LeftAt
    <3>3. u = [x EXCEPT !.ref = r]
      BY <1>3, <3>2 DEF Memory
    <3>4. r \in [Nodes -> Nat]
      <4>1. x.ref[p] - 1 \in Nat
        BY <3>1
      <4> QED BY <3>1, <4>1
    <3>5. \A y \in Nodes : r[y] + Is(p, y) = x.ref[y] /\ (x.ref[y] > 0 => r[y] > 0)
      <4> SUFFICES ASSUME NEW y \in Nodes
                   PROVE  r[y] + Is(p, y) = x.ref[y] /\ (x.ref[y] > 0 => r[y] > 0)
        OBVIOUS
      <4>1. CASE y = p
        BY <3>1, <4>1 DEF Is
      <4>2. CASE y # p
        BY <3>1, <4>2 DEF Is
      <4> QED BY <4>1, <4>2
    <3> HIDE DEF r
    <3>6. /\ u \in Memory /\ u.parent = x.parent /\ u.name = x.name /\ u.reg = x.reg
          /\ u.head = x.head /\ u.next = x.next /\ u.count = x.count /\ u.it = x.it /\ u.ref = r
      BY <1>3, <3>3, <3>4 DEF Memory
    <3> QED BY <3>5, <3>6
  <2> QED BY <2>1, <2>2
<1>6. q = RefOf([u EXCEPT !.it[i].pos = n, !.it[i].fresh = TRUE], n)
  BY DEF IterMoved
<1> DEFINE jt == [u.it EXCEPT ![i].pos = n, ![i].fresh = TRUE]
           r  == [u.ref EXCEPT ![n] = @ + 1]
<1>7. /\ jt \in [Iters -> [dir : Dirs \cup {NoNode}, pos : Nodes \cup {NoNode}, fresh : BOOLEAN]]
      /\ \A j \in Iters : j # i => jt[j] = u.it[j]
      /\ jt[i].pos = n /\ jt[i].fresh = TRUE /\ jt[i].dir = u.it[i].dir
  <2>1. n \in Nodes
    OBVIOUS
  <2>2. u.it \in [Iters -> [dir : Dirs \cup {NoNode}, pos : Nodes \cup {NoNode}, fresh : BOOLEAN]]
    BY <1>5, SMTT(30) DEF Memory
  <2>3. jt \in [Iters -> [dir : Dirs \cup {NoNode}, pos : Nodes \cup {NoNode}, fresh : BOOLEAN]]
    <3> DEFINE new == [u.it[i] EXCEPT !.pos = n, !.fresh = TRUE]
    <3>1. new \in [dir : Dirs \cup {NoNode}, pos : Nodes \cup {NoNode}, fresh : BOOLEAN]
      BY <2>1, <2>2, ZenonT(40)
    <3>2. jt = [u.it EXCEPT ![i] = new]
      BY <2>2, ZenonT(40)
    <3> HIDE DEF new, jt
    <3> QED BY <2>2, <3>1, <3>2
  <2>4. \A j \in Iters : j # i => jt[j] = u.it[j]
    BY <2>2
  <2>5. jt[i].pos = n /\ jt[i].fresh = TRUE /\ jt[i].dir = u.it[i].dir
    BY <2>2
  <2> QED BY <2>3, <2>4, <2>5, ZenonT(40)
<1>8. r \in [Nodes -> Nat] /\ \A y \in Nodes : r[y] = u.ref[y] + Is(n, y) /\ u.ref[y] \in Nat
  <2>1. u.ref \in [Nodes -> Nat]
    BY <1>5, SMTT(30) DEF Memory
  <2>2. n \in Nodes /\ \A y \in Nodes : u.ref[y] \in Nat /\ r[y] = IF y = n THEN u.ref[n] + 1 ELSE u.ref[y]
    BY <2>1
  <2>3. r \in [Nodes -> Nat]
    BY <2>1, <2>2
  <2> HIDE DEF r
  <2> QED BY <2>2, <2>3 DEF Is
<1>9. q = [u EXCEPT !.it = jt, !.ref = r]
  BY <1>5, <1>6, ZenonT(40) DEF Memory, RefOf
<1> HIDE DEF jt, r
<1>10. /\ q \in Memory /\ q.parent = u.parent /\ q.name = u.name /\ q.reg = u.reg
       /\ q.head = u.head /\ q.next = u.next /\ q.count = u.count /\ q.it = jt /\ q.ref = r
  BY <1>5, <1>7, <1>8, <1>9, ZenonT(40) DEF Memory
<1>11. IterMove(m, q, i) /\ q.it[i].pos = n /\ q.it[i].fresh = TRUE
  <2>1. /\ x.parent = m.parent /\ x.name = m.name /\ x.reg = m.reg
        /\ x.head = m.head /\ x.next = m.next /\ x.count = m.count
        /\ \A j \in Iters : j # i => x.it[j] = m.it[j]
        /\ x.it[i].dir = m.it[i].dir
    BY <1>2 DEF IterMove
  <2>2. q.it[i].dir = m.it[i].dir /\ \A j \in Iters : j # i => q.it[j] = m.it[j]
    <3>1. u.it = x.it /\ q.it = jt
      BY <1>5, <1>10
    <3>2. ASSUME NEW j \in Iters, j # i PROVE q.it[j] = m.it[j]
      <4>1. jt[j] = u.it[j] /\ x.it[j] = m.it[j]
        BY <1>7, <2>1, <3>2
      <4> QED BY <3>1, <4>1
    <3>3. jt[i].dir = u.it[i].dir /\ x.it[i].dir = m.it[i].dir
      BY <1>7, <2>1
    <3>4. q.it[i].dir = m.it[i].dir
      BY <3>1, <3>3
    <3> QED BY <3>2, <3>4
  <2>3. IterMove(m, q, i)
    BY <1>5, <1>10, <2>1, <2>2 DEF IterMove
  <2> QED BY <1>7, <1>10, <2>3
<1>12. ASSUME NEW y \in Nodes
       PROVE  /\ q.ref[y] + Is(m.it[i].pos, y) = m.ref[y] + Is(q.it[i].pos, y)
              /\ m.ref[y] > 0 => q.ref[y] > 0
  <2>1. u.ref[y] + Is(p, y) = m.ref[y] /\ (m.ref[y] > 0 => u.ref[y] > 0)
    BY <1>2, <1>5
  <2>2. q.ref[y] = u.ref[y] + Is(n, y) /\ u.ref[y] \in Nat
    BY <1>8, <1>10
  <2>3. Is(n, y) \in Nat /\ Is(p, y) \in Nat
    BY DEF Is
  <2>4. q.ref[y] + Is(p, y) = m.ref[y] + Is(n, y) /\ (m.ref[y] > 0 => q.ref[y] > 0)
    BY <2>1, <2>2, <2>3
  <2> QED BY <1>11, <2>4
<1>13. Sane(q, w) /\ Itered(q)
  <2>1. Carried(m, q, i)
    BY <1>12 DEF Carried
  <2>2. q \in Memory /\ IterMove(m, q, i)
    BY <1>10, <1>11
  <2>3. q.it[i].pos # Root
    BY <1>11
  <2> QED BY <2>1, <2>2, <2>3, MoveStep
<1> QED BY <1>11, <1>13 DEF Arrived

\* iso_dir_get_children()
Opened(m, q, i, d) ==
    /\ q.parent = m.parent /\ q.name = m.name
    /\ q.it = [m.it EXCEPT ![i] = [NoIter EXCEPT !.dir = d]]

\* iso_dir_get_children()
LEMMA OpenStep ==
    ASSUME NEW m, NEW w, Sane(m, w), Itered(m), NEW i \in Iters, m.it[i].dir = NoNode,
           NEW d \in Dirs, NEW x, x = [m EXCEPT !.it[i] = [NoIter EXCEPT !.dir = d], !.reg = <<i>> \o @],
           NEW q, q = RefOf(x, d)
    PROVE  Sane(q, w) /\ Itered(q) /\ Opened(m, q, i, d)
<1> DEFINE new == [NoIter EXCEPT !.dir = d]
           jt == [m.it EXCEPT ![i] = new]
           rg == <<i>> \o m.reg
           r  == [m.ref EXCEPT ![d] = @ + 1]
<1>1. m \in Memory /\ w \in [Nodes -> Nat] /\ Owned(m, w) /\ IsTree(m) /\ Lists(m)
  BY DEF Sane
<1>2. /\ new \in [dir : Dirs \cup {NoNode}, pos : Nodes \cup {NoNode}, fresh : BOOLEAN]
      /\ new.dir = d /\ new.pos = NoNode
  <2>1. NoIter \in [dir : Dirs \cup {NoNode}, pos : Nodes \cup {NoNode}, fresh : BOOLEAN]
    BY DEF NoIter
  <2>2. NoIter.pos = NoNode
    BY DEF NoIter
  <2> QED BY <2>1, <2>2
<1>3. /\ jt \in [Iters -> [dir : Dirs \cup {NoNode}, pos : Nodes \cup {NoNode}, fresh : BOOLEAN]]
      /\ \A j \in Iters : j # i => jt[j] = m.it[j]
      /\ jt[i].pos = NoNode /\ jt[i].dir = d
  <2> HIDE DEF new
  <2> QED BY <1>1, <1>2 DEF Memory
<1>4. rg \in Seq(Iters) /\ Len(rg) = Len(m.reg) + 1 /\ rg[1] = i
      /\ \A k \in 1 .. Len(m.reg) : rg[k + 1] = m.reg[k]
  <2>1. m.reg \in Seq(Iters) /\ <<i>> \in Seq(Iters) /\ Len(<<i>>) = 1 /\ <<i>>[1] = i
    BY <1>1 DEF Memory
  <2> DEFINE a == <<i>>
             b == m.reg
  <2> HIDE DEF a, b
  <2>2. a \in Seq(Iters) /\ b \in Seq(Iters) /\ Len(a) = 1 /\ a[1] = i
    BY <2>1 DEF a, b
  <2>3. a \o b \in Seq(Iters) /\ Len(a \o b) = 1 + Len(b) /\ Len(b) \in Nat
    <3>1. a \o b \in Seq(Iters) /\ Len(a \o b) = Len(a) + Len(b)
      BY <2>2, ConcatProperties
    <3>2. Len(b) \in Nat
      BY <2>2
    <3> QED BY <2>2, <3>1, <3>2
  <2>4. (a \o b)[1] = i /\ \A k \in 1 .. Len(b) : (a \o b)[k + 1] = b[k]
    BY <2>2, <2>3
  <2> QED BY <2>3, <2>4 DEF a, b
<1>5. d \in Nodes /\ r \in [Nodes -> Nat] /\ \A y \in Nodes : r[y] = m.ref[y] + Is(d, y) /\ m.ref[y] \in Nat
  <2>1. m.ref \in [Nodes -> Nat] /\ d \in Nodes
    BY <1>1, NodesFacts DEF Memory
  <2> QED BY <2>1 DEF Is
<1>6. q = [m EXCEPT !.it = jt, !.reg = rg, !.ref = r]
  <2> HIDE DEF new
  <2> QED BY <1>1 DEF Memory, RefOf, new
<1>7. jt = [m.it EXCEPT ![i] = [NoIter EXCEPT !.dir = d]]
  OBVIOUS
<1> HIDE DEF jt, rg, r
<1>8. /\ q \in Memory /\ q.parent = m.parent /\ q.name = m.name /\ q.reg = rg
      /\ q.head = m.head /\ q.next = m.next /\ q.count = m.count /\ q.it = jt /\ q.ref = r
  BY <1>1, <1>3, <1>4, <1>5, <1>6, ZenonT(40) DEF Memory
<1>9. m.it[i].pos = NoNode
  BY DEF Itered
<1>10. Owned(q, w)
  <2>1. ASSUME NEW y \in Nodes
        PROVE  q.ref[y] + w[y] + Is(m.it[i].pos, y) + Is(m.it[i].dir, y)
               = m.ref[y] + w[y] + Is(q.it[i].pos, y) + Is(q.it[i].dir, y)
    <3>1. q.ref[y] = m.ref[y] + Is(d, y) /\ m.ref[y] \in Nat /\ w[y] \in Nat /\ Is(d, y) \in Nat
      BY <1>1, <1>5, <1>8 DEF Is
    <3>2. q.it[i].pos = NoNode /\ q.it[i].dir = d /\ Is(NoNode, y) = 0
      BY <1>3, <1>8, NodesFacts DEF Is
    <3> QED BY <1>9, <3>1, <3>2
  <2>2. \A j \in Iters : j # i => q.it[j].pos = m.it[j].pos /\ q.it[j].dir = m.it[j].dir
    BY <1>3, <1>8
  <2>3. Exchanged(m, w, q, w, i)
    BY <2>1, <2>2 DEF Exchanged
  <2> QED BY <1>1, <1>8, <2>3, ChangeOwned
<1>11. IsTree(q)
  <2>1. \A y \in Nodes : m.ref[y] > 0 => q.ref[y] > 0
    BY <1>5, <1>8 DEF Is
  <2> QED BY <1>1, <1>8, <2>1, SameTree
<1>12. Lists(q)
  <2>1. SameNames(m, q)
    BY <1>8 DEF SameNames
  <2> QED BY <1>1, <1>8, <2>1, SameLists
<1>13. Itered(q)
  <2> SUFFICES ASSUME NEW j \in Iters
               PROVE  /\ q.it[j].pos # Root
                      /\ q.it[j].dir = NoNode => q.it[j].pos = NoNode
                      /\ q.it[j].dir # NoNode => \E k \in 1 .. Len(q.reg) : q.reg[k] = j
    BY DEF Itered
  <2>1. Len(m.reg) \in Nat
    BY <1>1 DEF Memory
  <2>2. CASE j = i
    <3>1. 1 \in 1 .. Len(q.reg) /\ q.reg[1] = j
      BY <1>4, <1>8, <2>1, <2>2
    <3> QED BY <1>3, <1>8, <2>2, <3>1, NodesFacts
  <2>3. CASE j # i
    <3>1. q.it[j] = m.it[j]
      BY <1>3, <1>8, <2>3
    <3>2. CASE m.it[j].dir = NoNode
      BY <3>1, <3>2 DEF Itered
    <3>3. CASE m.it[j].dir # NoNode
      <4>1. PICK k \in 1 .. Len(m.reg) : m.reg[k] = j
        BY <3>3 DEF Itered
      <4>2. k + 1 \in 1 .. Len(q.reg) /\ q.reg[k + 1] = j
        BY <1>4, <1>8, <2>1, <4>1
      <4> QED BY <3>1, <3>3, <4>2 DEF Itered
    <3> QED BY <3>2, <3>3
  <2> QED BY <2>2, <2>3
<1> QED BY <1>1, <1>7, <1>8, <1>10, <1>11, <1>12, <1>13 DEF Sane, Opened

\* What remains of the registry.
Remain(s, k, z) == \A j \in 1 .. Len(s) : j # k => \E l \in 1 .. Len(z) : z[l] = s[j]

\* iso_dir_iter_unregister() removes one entry of the registry.
LEMMA Deregistered ==
    ASSUME NEW s \in Seq(Iters), NEW k \in 1 .. Len(s), NEW z, z = RemoveAt(s, k)
    PROVE  z \in Seq(Iters) /\ Remain(s, k, z)
<1> DEFINE a == SubSeq(s, 1, k - 1)
           b == SubSeq(s, k + 1, Len(s))
           n == Len(s)
<1>1. n \in Nat /\ k \in Nat /\ \A j \in 1 .. n : s[j] \in Iters
  OBVIOUS
<1>2. a \in Seq(Iters) /\ Len(a) = k - 1 /\ \A j \in 1 .. k - 1 : a[j] = s[j]
  <2>1. \A j \in 1 .. k - 1 : s[j] \in Iters
    BY <1>1
  <2>2. 1 \in Int /\ k - 1 \in Int
    BY <1>1
  <2>3. /\ a \in Seq(Iters) /\ Len(a) = IF 1 <= k - 1 THEN k - 1 - 1 + 1 ELSE 0
        /\ \A j \in 1 .. k - 1 - 1 + 1 : a[j] = s[1 + j - 1]
    BY <2>1, <2>2, SubSeqProperties
  <2> HIDE DEF a
  <2> QED BY <1>1, <2>3
<1>3. b \in Seq(Iters) /\ Len(b) = n - k /\ \A j \in 1 .. n - k : b[j] = s[k + j]
  <2>1. \A j \in k + 1 .. n : s[j] \in Iters
    BY <1>1
  <2>2. k + 1 \in Int /\ n \in Int
    BY <1>1
  <2>3. /\ b \in Seq(Iters) /\ Len(b) = IF k + 1 <= n THEN n - (k + 1) + 1 ELSE 0
        /\ \A j \in 1 .. n - (k + 1) + 1 : b[j] = s[(k + 1) + j - 1]
    BY <2>1, <2>2, SubSeqProperties
  <2> HIDE DEF b
  <2>4. \A j \in 1 .. n - k : (k + 1) + j - 1 = k + j /\ j \in 1 .. n - (k + 1) + 1
    BY <1>1
  <2>5. Len(b) = n - k
    BY <1>1, <2>3
  <2> QED BY <2>3, <2>4, <2>5
<1>4. z = a \o b
  BY DEF RemoveAt
<1> HIDE DEF a, b
<1>5. /\ z \in Seq(Iters) /\ Len(z) = Len(a) + Len(b)
      /\ \A l \in 1 .. Len(a) + Len(b) : z[l] = IF l <= Len(a) THEN a[l] ELSE b[l - Len(a)]
  <2>1. a \in Seq(Iters) /\ b \in Seq(Iters)
    BY <1>2, <1>3
  <2>2. /\ a \o b \in Seq(Iters) /\ Len(a \o b) = Len(a) + Len(b)
        /\ \A l \in 1 .. Len(a) + Len(b) : (a \o b)[l] = IF l <= Len(a) THEN a[l] ELSE b[l - Len(a)]
    BY <2>1, ConcatProperties
  <2> QED BY <1>4, <2>2
<1>6. Len(z) = n - 1 /\ \A l \in 1 .. n - 1 : z[l] = IF l <= k - 1 THEN a[l] ELSE b[l - (k - 1)]
  BY <1>1, <1>2, <1>3, <1>5
<1>7. ASSUME NEW j \in 1 .. n, j # k PROVE \E l \in 1 .. Len(z) : z[l] = s[j]
  <2>1. CASE j < k
    <3>1. j \in 1 .. n - 1 /\ j <= k - 1 /\ j \in 1 .. k - 1
      BY <1>1, <2>1
    <3>2. z[j] = s[j]
      BY <1>2, <1>6, <3>1
    <3> QED BY <1>6, <3>1, <3>2
  <2>2. CASE k < j
    <3> DEFINE l == j - 1
    <3>1. l \in 1 .. n - 1 /\ ~ (l <= k - 1) /\ l - (k - 1) = j - k /\ j - k \in 1 .. n - k /\ k + (j - k) = j
      BY <1>1, <2>2
    <3>2. z[l] = s[j]
      <4> HIDE DEF l
      <4> QED BY <1>3, <1>6, <3>1
    <3> QED BY <1>6, <3>1, <3>2
  <2> QED BY <1>1, <1>7, <2>1, <2>2
<1> QED BY <1>5, <1>7 DEF Remain

\* iso_dir_iter_free(): the iterator is gone, its references are still there.
Without(m, i) == [m EXCEPT !.reg = RemoveAt(@, CHOOSE k \in DOMAIN @ : @[k] = i), !.it[i] = NoIter]

Holding(m, w, i) == [y \in Nodes |-> w[y] + Is(m.it[i].pos, y) + Is(m.it[i].dir, y)]

OnlyClosed(m, x, i) ==
    x.parent = m.parent /\ x.name = m.name /\ x.it = [m.it EXCEPT ![i] = NoIter]

\* By then its references belong to the call.
LEMMA Closed ==
    ASSUME NEW m, NEW w, Sane(m, w), Itered(m), NEW i \in Iters, m.it[i].dir # NoNode,
           NEW x, x = Without(m, i)
    PROVE  Sane(x, Holding(m, w, i)) /\ Itered(x) /\ OnlyClosed(m, x, i)
<1> DEFINE at == CHOOSE k \in DOMAIN m.reg : m.reg[k] = i
           rg == RemoveAt(m.reg, at)
           jt == [m.it EXCEPT ![i] = NoIter]
           v  == [y \in Nodes |-> w[y] + Is(m.it[i].pos, y) + Is(m.it[i].dir, y)]
<1>1. m \in Memory /\ w \in [Nodes -> Nat] /\ Owned(m, w) /\ IsTree(m) /\ Lists(m)
  BY DEF Sane
<1>2. m.reg \in Seq(Iters) /\ at \in 1 .. Len(m.reg) /\ m.reg[at] = i
  <2>1. m.reg \in Seq(Iters) /\ DOMAIN m.reg = 1 .. Len(m.reg)
    BY <1>1 DEF Memory
  <2>2. \E k \in DOMAIN m.reg : m.reg[k] = i
    BY <2>1 DEF Itered
  <2> QED BY <2>1, <2>2
<1> HIDE DEF at
<1>3. rg \in Seq(Iters) /\ Remain(m.reg, at, rg)
  BY <1>2, Deregistered
<1>4. /\ jt \in [Iters -> [dir : Dirs \cup {NoNode}, pos : Nodes \cup {NoNode}, fresh : BOOLEAN]]
      /\ \A j \in Iters : j # i => jt[j] = m.it[j]
      /\ jt[i].pos = NoNode /\ jt[i].dir = NoNode
  <2>1. NoIter \in [dir : Dirs \cup {NoNode}, pos : Nodes \cup {NoNode}, fresh : BOOLEAN]
    BY DEF NoIter
  <2>2. NoIter.pos = NoNode /\ NoIter.dir = NoNode
    BY DEF NoIter
  <2> QED BY <1>1, <2>1, <2>2 DEF Memory
<1>5. x = [m EXCEPT !.reg = rg, !.it = jt]
  BY <1>1 DEF Memory, at, Without
<1> HIDE DEF rg, jt
<1>6. /\ x \in Memory /\ x.parent = m.parent /\ x.name = m.name /\ x.reg = rg /\ x.ref = m.ref
      /\ x.head = m.head /\ x.next = m.next /\ x.count = m.count /\ x.it = jt
  BY <1>1, <1>3, <1>4, <1>5 DEF Memory
<1>7. v \in [Nodes -> Nat]
  BY <1>1 DEF Is
<1>8. Owned(x, v)
  <2>1. ASSUME NEW y \in Nodes
        PROVE  x.ref[y] + w[y] + Is(m.it[i].pos, y) + Is(m.it[i].dir, y)
               = m.ref[y] + v[y] + Is(x.it[i].pos, y) + Is(x.it[i].dir, y)
    <3>1. /\ v[y] = w[y] + Is(m.it[i].pos, y) + Is(m.it[i].dir, y) /\ w[y] \in Nat
          /\ Is(m.it[i].pos, y) \in Nat /\ Is(m.it[i].dir, y) \in Nat
      BY <1>1 DEF Is
    <3>2. x.it[i].pos = NoNode /\ x.it[i].dir = NoNode /\ Is(NoNode, y) = 0
      BY <1>4, <1>6, NodesFacts DEF Is
    <3>3. x.ref[y] = m.ref[y] /\ m.ref[y] \in Nat
      BY <1>1, <1>6 DEF Memory
    <3> HIDE DEF v
    <3> QED BY <3>1, <3>2, <3>3
  <2>2. \A j \in Iters : j # i => x.it[j].pos = m.it[j].pos /\ x.it[j].dir = m.it[j].dir
    BY <1>4, <1>6
  <2> HIDE DEF v
  <2>3. Exchanged(m, w, x, v, i)
    BY <2>1, <2>2 DEF Exchanged
  <2>4. x \in Memory /\ x.parent = m.parent
    BY <1>6
  <2> QED BY <1>1, <1>7, <2>3, <2>4, ChangeOwned
<1>9. IsTree(x) /\ Lists(x)
  BY <1>1, <1>6 DEF IsTree, Lists, IsList, Kids
<1>10. Itered(x)
  <2> SUFFICES ASSUME NEW j \in Iters
               PROVE  /\ x.it[j].pos # Root
                      /\ x.it[j].dir = NoNode => x.it[j].pos = NoNode
                      /\ x.it[j].dir # NoNode => \E k \in 1 .. Len(x.reg) : x.reg[k] = j
    BY DEF Itered
  <2>1. CASE j = i
    BY <1>4, <1>6, <2>1, NodesFacts
  <2>2. CASE j # i
    <3>1. x.it[j] = m.it[j]
      BY <1>4, <1>6, <2>2
    <3>2. CASE m.it[j].dir = NoNode
      BY <3>1, <3>2 DEF Itered
    <3>3. CASE m.it[j].dir # NoNode
      <4>1. PICK k \in 1 .. Len(m.reg) : m.reg[k] = j
        BY <3>3 DEF Itered
      <4>2. k # at
        BY <1>2, <2>2, <4>1
      <4>3. \E l \in 1 .. Len(rg) : rg[l] = m.reg[k]
        BY <1>3, <4>2 DEF Remain
      <4> QED BY <1>6, <3>1, <3>3, <4>1, <4>3 DEF Itered
    <3> QED BY <3>2, <3>3
  <2> QED BY <2>1, <2>2
<1> QED BY <1>6, <1>7, <1>8, <1>9, <1>10 DEF Sane, jt, Holding, OnlyClosed

\* Two steps which leave the view as it is.
LEMMA SameTwice ==
    ASSUME NEW x, NEW y, NEW q, SameView(x, y), SameView(y, q)
    PROVE  SameView(x, q)
<1>1. q.it = x.it /\ q.reg = x.reg /\ y.it = x.it
  BY DEF SameView
<1>2. ASSUME NEW d \in Dirs, DirOf(x, d) # {}
      PROVE  Kids(q, d) = Kids(x, d) /\ \A c \in Kids(x, d) : q.name[c] = x.name[c]
  <2>1. DirOf(y, d) # {}
    BY <1>1, <1>2 DEF DirOf
  <2>2. Kids(y, d) = Kids(x, d) /\ \A c \in Kids(x, d) : y.name[c] = x.name[c]
    BY <1>2 DEF SameView
  <2>3. Kids(q, d) = Kids(y, d) /\ \A c \in Kids(y, d) : q.name[c] = y.name[c]
    BY <2>1 DEF SameView
  <2> QED BY <2>2, <2>3
<1> QED BY <1>1, <1>2 DEF SameView

\* And then its references go.
LEMMA FreeStep ==
    ASSUME NEW m, NEW w, Sane(m, w), Itered(m), NEW i \in Iters, m.it[i].dir # NoNode,
           NEW x, x = Without(m, i),
           NEW p, p = m.it[i].pos, NEW y, y = IF p = NoNode THEN x ELSE UnrefOf(x, p),
           NEW q, q = UnrefOf(y, m.it[i].dir)
    PROVE  Sane(q, w) /\ Itered(q) /\ SameView(x, q)
<1> DEFINE d == m.it[i].dir
           v == [a \in Nodes |-> w[a] + Is(p, a) + Is(d, a)]
           u == [a \in Nodes |-> w[a] + Is(d, a)]
<1>1. m \in Memory /\ w \in [Nodes -> Nat]
  BY DEF Sane
<1>2. d \in Nodes /\ p \in Nodes \cup {NoNode}
  BY <1>1, NodesFacts DEF Memory
<1>3. Sane(x, v) /\ Itered(x)
  <2>1. Sane(x, Holding(m, w, i)) /\ Itered(x)
    BY Closed
  <2>2. v = Holding(m, w, i)
    BY DEF Holding
  <2> QED BY <2>1, <2>2
<1>4. u \in [Nodes -> Nat] /\ v \in [Nodes -> Nat]
  BY <1>1 DEF Is
<1>5. u[d] > 0 /\ [u EXCEPT ![d] = @ - 1] = w
  <2>1. u[d] = w[d] + 1 /\ \A a \in Nodes : a # d => u[a] = w[a]
    BY <1>1, <1>2 DEF Is
  <2> HIDE DEF u
  <2>2. [u EXCEPT ![d] = @ - 1] = [a \in Nodes |-> w[a]]
    <3>1. ASSUME NEW a \in Nodes PROVE [u EXCEPT ![d] = @ - 1][a] = w[a]
      <4>1. w[a] \in Nat /\ [u EXCEPT ![d] = @ - 1][a] = IF a = d THEN u[a] - 1 ELSE u[a]
        BY <1>1, <1>4
      <4> QED BY <2>1, <4>1
    <3> QED BY <1>4, <3>1
  <2>3. w = [a \in Nodes |-> w[a]]
    BY <1>1
  <2> QED BY <1>1, <1>2, <2>1, <2>2, <2>3
<1>6. Sane(y, u) /\ SameView(x, y)
  <2>1. CASE p = NoNode
    <3>1. u = v
      BY <1>1, <2>1, NodesFacts DEF Is
    <3>2. SameView(x, x)
      BY DEF SameView
    <3> QED BY <1>3, <2>1, <3>1, <3>2
  <2>2. CASE p # NoNode
    <3>1. v[p] > 0 /\ [v EXCEPT ![p] = @ - 1] = u
      <4>1. p \in Nodes
        BY <1>2, <2>2
      <4>2. v[p] = u[p] + 1 /\ \A a \in Nodes : a # p => v[a] = u[a]
        BY <1>1, <4>1 DEF Is
      <4>3. u = [a \in Nodes |-> u[a]]
        OBVIOUS
      <4> HIDE DEF u, v
      <4>4. [v EXCEPT ![p] = @ - 1] = [a \in Nodes |-> u[a]]
        <5>1. ASSUME NEW a \in Nodes PROVE [v EXCEPT ![p] = @ - 1][a] = u[a]
          <6>1. u[a] \in Nat /\ [v EXCEPT ![p] = @ - 1][a] = IF a = p THEN v[a] - 1 ELSE v[a]
            BY <1>4
          <6> QED BY <4>2, <6>1
        <5> QED BY <1>4, <5>1
      <4> QED BY <1>4, <4>1, <4>2, <4>3, <4>4
    <3> HIDE DEF u, v
    <3>2. p \in Nodes /\ y = UnrefOf(x, p)
      BY <1>2, <2>2
    <3>3. Sane(UnrefOf(x, p), [v EXCEPT ![p] = @ - 1]) /\ SameView(x, UnrefOf(x, p))
      BY <1>3, <3>1, <3>2, UnrefSane
    <3> QED BY <3>1, <3>2, <3>3
  <2> QED BY <2>1, <2>2
<1> HIDE DEF u, v, d
<1>7. Sane(UnrefOf(y, d), [u EXCEPT ![d] = @ - 1]) /\ SameView(y, UnrefOf(y, d))
  <2>1. d \in Nodes /\ u[d] > 0 /\ Sane(y, u)
    BY <1>2, <1>5, <1>6
  <2>2. Sane(UnrefOf(y, d), [u EXCEPT ![d] = @ - 1])
    BY <2>1, UnrefSane
  <2>3. SameView(y, UnrefOf(y, d))
    BY <2>1, UnrefSane
  <2> QED BY <2>2, <2>3
<1>8. q = UnrefOf(y, d)
  BY DEF d
<1>9. SameView(x, q)
  <2>1. SameView(x, y) /\ SameView(y, q)
    BY <1>6, <1>7, <1>8
  <2> QED BY <2>1, SameTwice
<1>10. Itered(q)
  <2>1. q.it = x.it /\ q.reg = x.reg
    BY <1>9 DEF SameView
  <2> QED BY <1>3, <2>1, SameItered
<1> QED BY <1>5, <1>7, <1>8, <1>9, <1>10, ZenonT(40)

-----------------------------------------------------------------------------
(* The invariant                                                           *)

\* The invariant, and what the lemmas about steps are about.
LEMMA InvIs ==
    NTInv <=> Sane(t, app) /\ Itered(t) /\ app \in [Nodes -> 0 .. MaxOwn]
<1>1. app \in [Nodes -> 0 .. MaxOwn] => app \in [Nodes -> Nat]
  BY NTAssumption
<1> QED BY <1>1 DEF NTInv, NTTypeOK, Sane

\* The new root is sane.
LEMMA InvStarts == NTInit => NTInv
<1> SUFFICES ASSUME NTInit PROVE NTInv
  OBVIOUS
<1>1. /\ t.ref = [n \in Nodes |-> IF n = Root THEN 1 ELSE 0]
      /\ t.parent = [n \in Nodes |-> IF n = Root THEN Root ELSE NoNode]
      /\ t.next = [n \in Nodes |-> NoNode] /\ t.name = [n \in Nodes |-> 0]
      /\ t.head = [d \in Dirs |-> NoNode] /\ t.count = [d \in Dirs |-> 0]
      /\ t.it = [i \in Iters |-> NoIter] /\ t.reg = <<>> /\ app = [n \in Nodes |-> 0]
  BY DEF NTInit
<1>2. t \in Memory
  <2>1. NoIter \in [dir : Dirs \cup {NoNode}, pos : Nodes \cup {NoNode}, fresh : BOOLEAN]
    BY DEF NoIter
  <2>2. <<>> \in Seq(Iters)
    OBVIOUS
  <2>3. 0 \in Nat /\ 1 \in Nat
    OBVIOUS
  <2> QED BY <2>1, <2>2, <2>3, NodesFacts DEF NTInit, Memory
<1>3. \A i \in Iters : t.it[i].dir = NoNode /\ t.it[i].pos = NoNode
  BY <1>1 DEF NoIter
<1>4. Owned(t, app)
  <2> SUFFICES ASSUME NEW x \in Nodes
               PROVE  t.ref[x] = app[x] + Parents(t, x) + Cardinality(PosOf(t, x))
                                 + Cardinality(DirOf(t, x))
    BY DEF Owned
  <2>1. PosOf(t, x) = {} /\ DirOf(t, x) = {}
    BY <1>3, NodesFacts DEF PosOf, DirOf
  <2>2. Cardinality({}) = 0
    BY FS_EmptySet
  <2>3. app[x] = 0 /\ t.ref[x] = Parents(t, x) /\ Parents(t, x) \in Nat
    BY <1>1, NodesFacts DEF Parents
  <2> QED BY <2>1, <2>2, <2>3
<1>5. IsTree(t)
  <2>1. \A x \in Nodes : t.parent[x] = IF x = Root THEN Root ELSE NoNode
    BY <1>1
  <2>2. NoLoop(t.parent)
    <3> SUFFICES ASSUME NEW S \in SUBSET (Nodes \ {Root}), S # {}
                 PROVE  \E x \in S : t.parent[x] \notin S
      BY DEF NoLoop
    <3>1. PICK x \in S : TRUE
      OBVIOUS
    <3>2. t.parent[x] = NoNode /\ NoNode \notin S
      BY <2>1, NodesFacts
    <3> QED BY <3>2
  <2> QED BY <1>1, <2>1, <2>2, NodesFacts DEF IsTree
<1>6. Lists(t)
  <2> SUFFICES ASSUME NEW d \in Dirs PROVE IsList(t, d)
    BY DEF Lists
  <2>1. Kids(t, d) = {}
    BY <1>1, NodesFacts DEF Kids
  <2>2. t.head[d] = NoNode /\ t.count[d] = 0
    BY <1>1
  <2> QED BY <2>1, <2>2, FS_EmptySet DEF IsList, Ordered, IsFirst
<1>7. Itered(t)
  BY <1>3, NodesFacts DEF Itered
<1>8. app \in [Nodes -> 0 .. MaxOwn]
  BY <1>1, NTAssumption
<1> QED BY <1>2, <1>4, <1>5, <1>6, <1>7, <1>8 DEF NTInv, NTTypeOK

\* An iterator which has not lost its position goes to a child.
LEMMA NextChild ==
    ASSUME NEW m, NEW w, Sane(m, w), NEW d \in Dirs, NEW p \in (Nodes \ {Root}) \cup {NoNode},
           p # NoNode => m.parent[p] = d, NEW n, n = IF p = NoNode THEN m.head[d] ELSE m.next[p],
           n # NoNode
    PROVE  n \in Kids(m, d)
<1> DEFINE K == Kids(m, d)
<1>1. Ordered(m.head[d], m.next, m.name, K)
  BY DEF Sane, Lists, IsList
<1>2. p # NoNode => p \in K
  BY DEF Kids
<1> HIDE DEF K
<1>3. p = NoNode => n \in K
  BY <1>1 DEF Ordered, IsFirst
<1>4. p # NoNode => n \in K
  BY <1>1, <1>2 DEF Ordered, IsNext
<1> QED BY <1>3, <1>4 DEF K

\* Each call of the library keeps the invariant.
LEMMA InvStays == NTInv /\ [NTNext]_ntVars => NTInv'
<1> SUFFICES ASSUME NTInv, [NTNext]_ntVars
             PROVE  Sane(t', app') /\ Itered(t') /\ app' \in [Nodes -> 0 .. MaxOwn]
  BY DEF NTInv, NTTypeOK, Sane
<1>1. PICK m, w, q : m = t /\ w = app /\ q = t'
  OBVIOUS
<1>2. Sane(m, w) /\ Itered(m) /\ w \in [Nodes -> 0 .. MaxOwn] /\ m \in Memory
  BY <1>1, InvIs DEF Sane
<1>3. \A n \in Nodes : w[n] \in Nat /\ w[n] <= MaxOwn /\ MaxOwn \in Nat
  BY <1>2, NTAssumption
<1>4. ASSUME NEW d \in Dirs, NEW n \in Nodes \ {Root}, NEW nm \in Names, NEW mode \in Modes,
             AddNew(d, n, nm, mode)
      PROVE  Sane(t', app') /\ Itered(t') /\ app' \in [Nodes -> 0 .. MaxOwn]
  <2>1. m.ref[d] > 0 /\ m.ref[n] = 0 /\ nm \in Nat
    <3>1. m.ref[d] > 0 /\ ~ (m.ref[n] > 0)
      BY <1>1, <1>4 DEF AddNew, Live
    <3>2. m.ref[n] \in Nat
      BY <1>2 DEF Memory
    <3> QED BY <3>1, <3>2, NTAssumption
  <2>2. q = InsertOf([m EXCEPT !.ref[n] = 1, !.name[n] = nm], d, n) /\ app' = w
    BY <1>1, <1>4 DEF AddNew
  <2>3. PICK x : x = [m EXCEPT !.ref[n] = 1, !.name[n] = nm]
    OBVIOUS
  <2>4. Sane(q, w) /\ Itered(q)
    BY <1>2, <2>1, <2>2, <2>3, AddNewStep
  <2> QED BY <1>1, <1>2, <2>2, <2>4
<1>5. ASSUME NEW d \in Dirs, NEW n \in Nodes \ {Root}, NEW mode \in Modes, AddNode(d, n, mode)
      PROVE  Sane(t', app') /\ Itered(t') /\ app' \in [Nodes -> 0 .. MaxOwn]
  <2>1. /\ m.ref[d] > 0 /\ w[n] > 0 /\ m.parent[n] = NoNode /\ n \notin Above(m, d)
        /\ q = InsertOf(m, d, n) /\ app' = [w EXCEPT ![n] = @ - 1]
    BY <1>1, <1>5 DEF AddNode, Live
  <2>2. Sane(q, [w EXCEPT ![n] = @ - 1]) /\ Itered(q)
    BY <1>2, <2>1, AddNodeStep
  <2>3. w[n] - 1 \in 0 .. MaxOwn
    BY <1>3, <2>1
  <2> QED BY <1>1, <1>2, <2>1, <2>2, <2>3
<1>6. ASSUME NEW n \in Nodes, Take(n)
      PROVE  Sane(t', app') /\ Itered(t') /\ app' \in [Nodes -> 0 .. MaxOwn]
  <2>1. /\ n \in Nodes \ {Root} /\ m.parent[n] # NoNode /\ w[n] < MaxOwn
        /\ q = TakeOf(m, n) /\ app' = [w EXCEPT ![n] = @ + 1]
    BY <1>1, <1>6 DEF Take
  <2>2. Sane(q, [w EXCEPT ![n] = @ + 1]) /\ Itered(q)
    BY <1>2, <2>1, TakeStep
  <2>3. w[n] + 1 \in 0 .. MaxOwn
    BY <1>3, <2>1
  <2> QED BY <1>1, <1>2, <2>1, <2>2, <2>3
<1>7. ASSUME NEW n \in Nodes, RemoveNode(n)
      PROVE  Sane(t', app') /\ Itered(t') /\ app' \in [Nodes -> 0 .. MaxOwn]
  <2>1. /\ n \in Nodes \ {Root} /\ m.parent[n] # NoNode
        /\ q = UnrefOf(TakeOf(m, n), n) /\ app' = w
    BY <1>1, <1>7 DEF RemoveNode
  <2>2. Sane(q, w) /\ Itered(q)
    BY <1>2, <2>1, RemoveStep
  <2> QED BY <1>1, <1>2, <2>1, <2>2
<1>8. ASSUME NEW n \in Nodes, Ref(n)
      PROVE  Sane(t', app') /\ Itered(t') /\ app' \in [Nodes -> 0 .. MaxOwn]
  <2>1. w[n] < MaxOwn /\ q = RefOf(m, n) /\ app' = [w EXCEPT ![n] = @ + 1]
    BY <1>1, <1>8 DEF Ref
  <2>2. Sane(q, [w EXCEPT ![n] = @ + 1]) /\ Itered(q)
    BY <1>2, <2>1, RefStep
  <2>3. w[n] + 1 \in 0 .. MaxOwn
    BY <1>3, <2>1
  <2> QED BY <1>1, <1>2, <2>1, <2>2, <2>3
<1>9. ASSUME NEW n \in Nodes, Unref(n)
      PROVE  Sane(t', app') /\ Itered(t') /\ app' \in [Nodes -> 0 .. MaxOwn]
  <2>1. w[n] > 0 /\ q = UnrefOf(m, n) /\ app' = [w EXCEPT ![n] = @ - 1]
    BY <1>1, <1>9 DEF Unref
  <2>2. Sane(q, [w EXCEPT ![n] = @ - 1]) /\ SameView(m, q)
    BY <1>2, <2>1, UnrefSane
  <2>3. Itered(q)
    BY <1>2, <2>2, SameItered DEF SameView
  <2>4. w[n] - 1 \in 0 .. MaxOwn
    BY <1>3, <2>1
  <2> QED BY <1>1, <1>2, <2>1, <2>2, <2>3, <2>4
<1>10. ASSUME NEW n \in Nodes, NEW nm \in Names, SetName(n, nm)
       PROVE  Sane(t', app') /\ Itered(t') /\ app' \in [Nodes -> 0 .. MaxOwn]
  <2>1. nm \in Nat /\ n \in Nodes \ {Root} /\ app' = w
    BY <1>1, <1>10, NTAssumption DEF SetName
  <2>2. PICK x, y : x = [m EXCEPT !.name[n] = nm] /\ y = TakeOf(x, n)
    OBVIOUS
  <2>3. CASE m.parent[n] = NoNode
    <3>1. q = [m EXCEPT !.name[n] = nm]
      BY <1>1, <1>10, <2>3 DEF SetName
    <3>2. q \in Memory /\ Owned(q, w) /\ IsTree(q) /\ Itered(q) /\ Lists(q)
      BY <1>2, <2>1, <2>3, <3>1, Renamed
    <3> QED BY <1>1, <1>2, <2>1, <3>2 DEF Sane
  <2>4. CASE m.parent[n] # NoNode
    <3>1. q = InsertOf(TakeOf([m EXCEPT !.name[n] = nm], n), m.parent[n], n)
      BY <1>1, <1>10, <2>4 DEF SetName
    <3>2. q = InsertOf(y, m.parent[n], n)
      BY <2>2, <3>1
    <3>3. Sane(q, w) /\ Itered(q)
      BY <1>2, <2>1, <2>2, <2>4, <3>2, RenameStep
    <3> QED BY <1>1, <1>2, <2>1, <3>3
  <2> QED BY <2>3, <2>4
<1>11. ASSUME NEW i \in Iters, NEW d \in Dirs, IterOpen(i, d)
       PROVE  Sane(t', app') /\ Itered(t') /\ app' \in [Nodes -> 0 .. MaxOwn]
  <2>1. /\ m.it[i].dir = NoNode /\ app' = w
        /\ q = RefOf([m EXCEPT !.it[i] = [NoIter EXCEPT !.dir = d], !.reg = <<i>> \o @], d)
    BY <1>1, <1>11 DEF IterOpen
  <2>2. PICK x : x = [m EXCEPT !.it[i] = [NoIter EXCEPT !.dir = d], !.reg = <<i>> \o @]
    OBVIOUS
  <2>3. q = RefOf(x, d) /\ m.it[i].dir = NoNode
    BY <2>1, <2>2
  <2>4. Sane(RefOf(x, d), w)
    BY <1>2, <2>2, <2>3, OpenStep
  <2>5. Itered(RefOf(x, d))
    BY <1>2, <2>2, <2>3, OpenStep
  <2> QED BY <1>1, <1>2, <2>1, <2>3, <2>4, <2>5
<1>12. ASSUME NEW i \in Iters, IterNext(i)
       PROVE  Sane(t', app') /\ Itered(t') /\ app' \in [Nodes -> 0 .. MaxOwn]
  <2>1. PICK x, p, n : /\ x = Stale(m, i) /\ p = m.it[i].pos
                       /\ n = IF p = NoNode THEN m.head[m.it[i].dir] ELSE m.next[p]
    OBVIOUS
  <2>2. m.it[i].dir # NoNode /\ app' = w
    BY <1>1, <1>12 DEF IterNext
  <2>3. CASE (p # NoNode /\ m.parent[p] # m.it[i].dir) \/ n = NoNode
    <3>1. q = x
      BY <1>1, <1>12, <2>1, <2>3, SMTT(30) DEF IterNext, Stale
    <3>2. Sane(q, w) /\ Itered(q)
      BY <1>2, <2>1, <3>1, StaleStep
    <3> QED BY <1>1, <1>2, <2>2, <3>2
  <2>4. CASE ~ ((p # NoNode /\ m.parent[p] # m.it[i].dir) \/ n = NoNode)
    <3>1. q = IterMoved(IF p = NoNode THEN x ELSE UnrefOf(x, p), i, n)
      BY <1>1, <1>12, <2>1, <2>4, ZenonT(40) DEF IterNext, Stale
    <3>2. n \in Nodes \ {Root}
      <4>1. m.it[i].dir \in Dirs /\ p \in Nodes \cup {NoNode}
        BY <1>2, <2>1, <2>2 DEF Memory
      <4>2. n \in Kids(m, m.it[i].dir)
        <5>1. p \in (Nodes \ {Root}) \cup {NoNode}
          BY <1>2, <2>1, <4>1 DEF Itered
        <5>2. m.it[i].dir \in Dirs /\ (p # NoNode => m.parent[p] = m.it[i].dir) /\ n # NoNode
          BY <2>2, <2>4, <4>1
        <5> QED BY <1>2, <2>1, <5>1, <5>2, NextChild
      <4> QED BY <4>2 DEF Kids
    <3>3. Sane(q, w) /\ Itered(q)
      <4>1. p # NoNode => m.parent[p] = m.it[i].dir
        BY <2>4
      <4>2. p = m.it[i].pos /\ x = Stale(m, i)
        BY <2>1
      <4>3. PICK u : u = LeftAt(x, p)
        OBVIOUS
      <4>4. q = IterMoved(u, i, n)
        BY <3>1, <4>3 DEF LeftAt
      <4>5. Sane(m, w) /\ Itered(m) /\ m.it[i].dir # NoNode
        BY <1>2, <2>2
      <4>6. Sane(IterMoved(u, i, n), w)
        BY <3>2, <4>1, <4>2, <4>3, <4>5, NextStep, ZenonT(40)
      <4>7. Itered(IterMoved(u, i, n))
        BY <3>2, <4>1, <4>2, <4>3, <4>5, NextStep, ZenonT(40)
      <4> QED BY <4>4, <4>6, <4>7
    <3> QED BY <1>1, <1>2, <2>2, <3>3
  <2> QED BY <2>3, <2>4
<1>13. ASSUME NEW i \in Iters, IterFree(i)
       PROVE  Sane(t', app') /\ Itered(t') /\ app' \in [Nodes -> 0 .. MaxOwn]
  <2>1. m.it[i].dir # NoNode /\ app' = w
    BY <1>1, <1>13 DEF IterFree
  <2>2. PICK x, p : x = Without(m, i) /\ p = m.it[i].pos
    OBVIOUS
  <2>3. PICK y : y = IF p = NoNode THEN x ELSE UnrefOf(x, p)
    OBVIOUS
  <2>4. q = UnrefOf(y, m.it[i].dir)
    BY <1>1, <1>13, <2>2, <2>3 DEF IterFree, Without
  <2>5. Sane(q, w) /\ Itered(q)
    BY <1>2, <2>1, <2>2, <2>3, <2>4, FreeStep
  <2> QED BY <1>1, <1>2, <2>1, <2>5
<1>14. ASSUME NEW i \in Iters, NEW remove \in BOOLEAN, IterTake(i, remove)
       PROVE  Sane(t', app') /\ Itered(t') /\ app' \in [Nodes -> 0 .. MaxOwn]
  <2>1. PICK x, n : x = Stale(m, i) /\ n = m.it[i].pos
    OBVIOUS
  <2>2. Sane(x, w) /\ Itered(x) /\ IterMove(m, x, i)
    BY <1>2, <2>1, StaleStep
  <2>3. n # NoNode /\ n \in Nodes
    <3>1. n # NoNode
      BY <1>1, <1>14, <2>1 DEF IterTake
    <3> QED BY <1>2, <2>1, <3>1 DEF Memory
  <2>4. x.parent = m.parent
    BY <2>2 DEF IterMove
  <2>5. m.parent[n] # NoNode => n # Root
    BY <1>2, <2>1 DEF Itered
  <2>6. CASE q = x /\ app' = w
    BY <1>1, <1>2, <2>2, <2>6
  <2>7. CASE m.parent[n] # NoNode /\ q = UnrefOf(TakeOf(x, n), n) /\ app' = w
    <3>1. Sane(q, w) /\ Itered(q)
      BY <2>2, <2>3, <2>4, <2>5, <2>7, RemoveStep
    <3> QED BY <1>1, <1>2, <2>7, <3>1
  <2>8. CASE /\ m.parent[n] # NoNode /\ w[n] < MaxOwn /\ q = TakeOf(x, n)
             /\ app' = [w EXCEPT ![n] = @ + 1]
    <3>1. Sane(q, [w EXCEPT ![n] = @ + 1]) /\ Itered(q)
      BY <2>2, <2>3, <2>4, <2>5, <2>8, TakeStep
    <3>2. w[n] + 1 \in 0 .. MaxOwn
      BY <1>3, <2>3, <2>8
    <3> QED BY <1>1, <1>2, <2>8, <3>1, <3>2
  <2>9. \/ q = x /\ app' = w
        \/ m.parent[n] # NoNode /\ q = UnrefOf(TakeOf(x, n), n) /\ app' = w
        \/ /\ m.parent[n] # NoNode /\ w[n] < MaxOwn /\ q = TakeOf(x, n)
           /\ app' = [w EXCEPT ![n] = @ + 1]
    BY <1>1, <1>14, <2>1 DEF IterTake, Stale
  <2> QED BY <2>6, <2>7, <2>8, <2>9
<1>15. CASE UNCHANGED ntVars
  BY <1>1, <1>2, <1>15 DEF ntVars
<1> QED BY <1>4, <1>5, <1>6, <1>7, <1>8, <1>9, <1>10, <1>11, <1>12, <1>13, <1>14, <1>15 DEF NTNext

\* The list of a directory is what is below it.
LEMMA InvLists == NTInv => ListsAreSound
<1> SUFFICES ASSUME NTInv, NEW d \in Dirs
             PROVE  /\ Passed(t, d, {}) = Kids(t, d)
                    /\ t.count[d] = Cardinality(Kids(t, d))
                    /\ \A x \in Kids(t, d) : t.next[x] # NoNode => t.name[x] < t.name[t.next[x]]
  BY ZenonT(40) DEF ListsAreSound, Kids, NTInv
<1> DEFINE K == Kids(t, d)
<1>1. /\ K \in SUBSET Nodes /\ t.name \in [Nodes -> Nat]
      /\ Ordered(t.head[d], t.next, t.name, K) /\ t.count[d] = Cardinality(K)
  BY DEF NTInv, NTTypeOK, Memory, Lists, IsList, Kids
<1> HIDE DEF K
<1>2. PICK m, nam, L : m = t /\ nam = t.name /\ L = K
  OBVIOUS
<1>3. nam \in [Nodes -> Nat] /\ L \in SUBSET Nodes /\ Ordered(m.head[d], m.next, nam, L)
  BY <1>1, <1>2
<1>4. PICK v \in Nat : \A c \in L : nam[c] < v
  BY <1>3, NamesBounded
<1>5. \A c \in L : nam[c] \in Nat /\ c # NoNode /\ ~ (v <= nam[c])
  BY <1>3, <1>4, NodesFacts
<1>6. StopsAt({}, nam, v, L)
  BY <1>5 DEF StopsAt, IsAt
<1>7. Passed(m, d, {}) = {c \in L : nam[c] < v}
  BY <1>3, <1>6, PassedIs
<1>8. Passed(t, d, {}) = K
  BY <1>2, <1>4, <1>7
<1>9. \A x \in K : t.next[x] # NoNode => t.name[x] < t.name[t.next[x]]
  BY <1>1 DEF Ordered, IsNext
<1> QED BY <1>1, <1>8, <1>9 DEF K

\* Each reference has its owner.
LEMMA InvOwners == NTInv => RefsHaveOwners
BY DEF NTInv, Owned, RefsHaveOwners, Parents, PosOf, DirOf

\* The invariant of the tree: after any series of calls links, counts, owners,
\* parents and the registry of iterators belong together.
THEOREM NTInvariant == NTSpec => []NTInv
<1>1. NTInit => NTInv
  BY InvStarts
<1>2. NTInv /\ [NTNext]_ntVars => NTInv'
  BY InvStays
<1> QED BY <1>1, <1>2, PTL DEF NTSpec

\* After any series of calls of iso_dir_add_node(), iso_node_take() and the
\* others the list of each directory is sorted by unique names and has exactly
\* its children, as many as are counted.
THEOREM ListsAlwaysSound == NTSpec => []ListsAreSound
BY NTInvariant, InvLists, PTL

\* After any series of calls a node has as many references as owners: nothing
\* in use is freed by iso_node_unref(), and nothing else stays allocated.
THEOREM RefsAlwaysHaveOwners == NTSpec => []RefsHaveOwners
BY NTInvariant, InvOwners, PTL

-----------------------------------------------------------------------------
(* Iterations                                                              *)

\* An iterator has its position in its directory.
On(m, i) ==
    /\ m.it[i].dir \in Dirs
    /\ m.it[i].pos # NoNode => m.it[i].pos \in Kids(m, m.it[i].dir)

\* What becomes of an iterator when some nodes are taken from directories: its
\* position stays, or goes back to the one before.
Moves(m, q, i, left) ==
    LET d == m.it[i].dir
        p == m.it[i].pos
        r == q.it[i].pos
    IN  /\ q.it[i].dir = d
        /\ \A c \in Kids(q, d) \cap Kids(m, d) : c \notin left => q.name[c] = m.name[c]
        /\ r # NoNode => r \in Kids(q, d) /\ q.name[r] = m.name[r]
        /\ r = p \/ (p \in left /\ p \in Kids(m, d) /\ IsPlace(r, m.name, m.name[p], Kids(m, d)))

\* Then it still has returned what is not behind it, and nothing else.
LEMMA MovesFollow ==
    ASSUME NEW m \in Memory, Lists(m), NEW i, On(m, i), NEW vis, NEW st, Follows(m, i, vis, st),
           NEW left, NEW q, Moves(m, q, i, left),
           NEW st2, st2 = {c \in st \ left : q.parent[c] = q.it[i].dir}, NEW vis2, vis2 = vis \cap st2
    PROVE  Follows(q, i, vis2, st2) /\ (st \subseteq vis => st2 \subseteq vis2)
<1> DEFINE d == m.it[i].dir
           p == m.it[i].pos
           r == q.it[i].pos
           K == Kids(m, d)
<1>1. /\ q.it[i].dir = d
      /\ \A c \in Kids(q, d) \cap K : c \notin left => q.name[c] = m.name[c]
      /\ r # NoNode => r \in Kids(q, d) /\ q.name[r] = m.name[r]
      /\ r = p \/ (p \in left /\ p \in K /\ IsPlace(r, m.name, m.name[p], K))
  BY DEF Moves
<1>2. /\ vis \subseteq st /\ st \subseteq K /\ (p = NoNode => vis = {})
      /\ p # NoNode => p \in K /\ \A c \in st : c \in vis <=> m.name[c] <= m.name[p]
  BY DEF Follows
<1>3. d \in Dirs /\ \A c \in K : c \in Nodes \ {Root} /\ m.name[c] \in Nat /\ c # NoNode
  BY NodesFacts DEF On, Kids, Memory
<1>4. \A a, b \in K : m.name[a] = m.name[b] => a = b
  BY <1>3 DEF Lists, IsList, Ordered
<1>5. \A c \in st2 : c \in st /\ c \in K /\ c \notin left /\ c \in Kids(q, d) /\ q.name[c] = m.name[c]
  <2> SUFFICES ASSUME NEW c \in st2
               PROVE  c \in st /\ c \in K /\ c \notin left /\ c \in Kids(q, d) /\ q.name[c] = m.name[c]
    OBVIOUS
  <2>1. c \in st /\ c \in K /\ c \notin left /\ q.parent[c] = d
    BY <1>1, <1>2
  <2>2. c \in Kids(q, d)
    BY <1>3, <2>1 DEF Kids
  <2> QED BY <1>1, <2>1, <2>2
<1> HIDE DEF d, p, r, K
<1>6. r = NoNode => vis2 = {}
  <2> SUFFICES ASSUME r = NoNode, NEW c \in vis2 PROVE FALSE
    OBVIOUS
  <2>1. c \in vis /\ c \in st2
    OBVIOUS
  <2>2. p # NoNode /\ p \in left /\ p \in K /\ IsPlace(r, m.name, m.name[p], K)
    BY <1>1, <1>2, <2>1
  <2>3. c \in K /\ c # p /\ m.name[c] <= m.name[p]
    BY <1>2, <1>5, <2>1, <2>2
  <2>4. m.name[p] <= m.name[c]
    BY <1>3, <2>2, <2>3 DEF IsPlace
  <2> QED BY <1>3, <1>4, <2>2, <2>3, <2>4
<1>7. ASSUME r # NoNode, NEW c \in st2 PROVE c \in vis2 <=> q.name[c] <= q.name[r]
  <2>1. c \in vis2 <=> c \in vis
    OBVIOUS
  <2>2. q.name[c] = m.name[c] /\ q.name[r] = m.name[r] /\ c \in K /\ c \in st /\ c \notin left
    BY <1>1, <1>5, <1>7
  <2>3. CASE r = p
    BY <1>2, <1>7, <2>1, <2>2, <2>3
  <2>4. CASE r # p
    <3>1. p \in left /\ p \in K /\ IsPlace(r, m.name, m.name[p], K) /\ p # NoNode
      BY <1>1, <1>3, <2>4
    <3>2. c \in vis <=> m.name[c] <= m.name[p]
      BY <1>2, <2>2, <3>1
    <3>3. /\ r \in K /\ m.name[r] < m.name[p]
          /\ \A a \in K : m.name[a] < m.name[p] => m.name[a] <= m.name[r]
      BY <1>7, <3>1 DEF IsPlace
    <3>4. m.name[c] # m.name[p]
      BY <1>4, <2>2, <3>1
    <3>5. m.name[c] <= m.name[p] <=> m.name[c] <= m.name[r]
      <4>1. m.name[c] \in Nat /\ m.name[p] \in Nat /\ m.name[r] \in Nat
        BY <1>3, <2>2, <3>1, <3>3
      <4>2. m.name[c] < m.name[p] => m.name[c] <= m.name[r]
        BY <2>2, <3>3
      <4> QED BY <3>3, <3>4, <4>1, <4>2
    <3> QED BY <2>1, <2>2, <3>2, <3>5
  <2> QED BY <2>3, <2>4
<1>8. vis2 \subseteq st2 /\ st2 \subseteq Kids(q, q.it[i].dir)
  BY <1>1, <1>5
<1>9. st \subseteq vis => st2 \subseteq vis2
  BY <1>5
<1>10. /\ q.it[i].pos = NoNode => vis2 = {}
       /\ q.it[i].pos # NoNode => q.it[i].pos \in Kids(q, q.it[i].dir)
       /\ q.it[i].pos # NoNode => \A c \in st2 : c \in vis2 <=> q.name[c] <= q.name[q.it[i].pos]
  BY <1>1, <1>6, <1>7 DEF r
<1> QED BY <1>8, <1>9, <1>10 DEF Follows

\* iso_dir_exists() finds the child of a name.
LEMMA ChildFound ==
    ASSUME NEW m \in Memory, Lists(m), NEW d \in Dirs, NEW v \in Nat, NEW c \in Kids(m, d), m.name[c] = v
    PROVE  ChildNamed(m, d, v) = c /\ c # NoNode
<1> DEFINE K == Kids(m, d)
           a == At(m, d, PlaceOf(m, d, v))
<1>1. IsList(m, d)
  BY DEF Lists
<1>2. IsAt(a, m.name, v, K)
  BY <1>1, PlaceIs
<1>3. \A x \in K : m.name[x] \in Nat /\ x # NoNode
  BY NodesFacts DEF Kids, Memory
<1>4. \A x, y \in K : m.name[x] = m.name[y] => x = y
  BY <1>1 DEF IsList, Ordered
<1>5. a = c
  <2> HIDE DEF a, K
  <2>1. c \in K /\ ~ (m.name[c] < v)
    BY <1>3 DEF K
  <2>2. a \in K /\ v <= m.name[a] /\ m.name[a] <= m.name[c]
    BY <1>2, <2>1 DEF IsAt
  <2>3. m.name[a] = m.name[c]
    BY <1>3, <2>1, <2>2
  <2> QED BY <1>4, <2>1, <2>2, <2>3
<1> QED BY <1>3, <1>5 DEF ChildNamed

\* Others are inserted, by iso_dir_insert().
LEMMA InsertMoves ==
    ASSUME NEW m \in Memory, NEW x, NEW q, NEW d \in Dirs, NEW n \in Nodes \ {Root},
           m.parent[n] = NoNode, x.it = m.it, x.parent = m.parent,
           \A c \in Nodes : c # n => x.name[c] = m.name[c], InsertView(x, q, d, n),
           NEW i \in Iters, On(m, i),
           m.it[i].dir = d /\ m.it[i].pos # NoNode => m.name[m.it[i].pos] # x.name[n]
    PROVE  Moves(m, q, i, {})
<1> DEFINE e == m.it[i].dir
           p == m.it[i].pos
<1>1. e \in Dirs /\ (p # NoNode => p \in Kids(m, e)) /\ q.it[i] = m.it[i]
  BY DEF On, InsertView
<1>2. Kids(x, e) = Kids(m, e) /\ n \notin Kids(m, e)
  BY <1>1, NodesFacts DEF Kids
<1>3. \A c \in Kids(m, e) : c \in Nodes /\ c # n /\ x.name[c] = m.name[c]
  BY <1>2 DEF Kids
<1>4. CASE e = d
  <2>1. /\ Kids(q, e) = {c \in Kids(m, e) : x.name[c] # x.name[n]} \cup {n}
        /\ \A c \in Kids(q, e) : q.name[c] = x.name[c]
    BY <1>2, <1>4 DEF InsertView
  <2>2. p # NoNode => p \in Kids(q, e) /\ q.name[p] = m.name[p]
    BY <1>1, <1>3, <1>4, <2>1
  <2>3. \A c \in Kids(q, e) \cap Kids(m, e) : q.name[c] = m.name[c]
    BY <1>3, <2>1
  <2> QED BY <1>1, <2>2, <2>3 DEF Moves
<1>5. CASE e # d
  <2>1. DirOf(x, e) # {}
    BY DEF DirOf
  <2>2. Kids(q, e) = Kids(m, e) /\ \A c \in Kids(m, e) : q.name[c] = x.name[c]
    BY <1>1, <1>2, <1>5, <2>1 DEF InsertView
  <2> QED BY <1>1, <1>3, <2>2 DEF Moves
<1> QED BY <1>4, <1>5

\* Node n is taken, by iso_node_take().
LEMMA TakeMoves ==
    ASSUME NEW m \in Memory, Itered(m), Alone(m), NEW n \in Nodes \ {Root}, m.parent[n] # NoNode,
           NEW q, NEW pre, Taken(m, q, n, pre),
           IsPlace(pre, m.name, m.name[n], Kids(m, m.parent[n])), NEW i \in Iters, On(m, i)
    PROVE  Moves(m, q, i, {n})
<1> DEFINE e == m.it[i].dir
           p == m.it[i].pos
           d == m.parent[n]
<1>1. e \in Dirs /\ (p # NoNode => p \in Kids(m, e)) /\ d \in Dirs /\ e # NoNode
  BY NodesFacts DEF On, Memory
<1>2. /\ q.parent = [m.parent EXCEPT ![n] = NoNode] /\ q.name = m.name
      /\ pre \in (Kids(m, d) \ {n}) \cup {NoNode}
      /\ q.it[i].dir = e /\ (q.it[i].pos = p \/ Stepped(m, q, n, pre, i))
      /\ e = d => q.it[i].pos # n
  BY DEF Taken
<1>3. n \in Kids(m, d) /\ Kids(q, e) = Kids(m, e) \ {n}
  <2>1. \A c \in Nodes : q.parent[c] = IF c = n THEN NoNode ELSE m.parent[c]
    BY <1>2 DEF Memory
  <2> QED BY <1>1, <2>1 DEF Kids
<1> HIDE DEF p, e, d
<1>4. CASE q.it[i].pos = p
  <2>1. p # n
    <3>1. p = n => e = d
      BY <1>1, NodesFacts DEF Kids, d
    <3> QED BY <1>2, <1>4, <3>1
  <2> QED BY <1>1, <1>2, <1>3, <1>4, <2>1 DEF Moves, e, p
<1>5. CASE Stepped(m, q, n, pre, i)
  <2>1. e = d /\ p = n /\ q.it[i].pos = pre
    BY <1>5 DEF Stepped, e, p, d
  <2>2. pre # NoNode => pre \in Kids(q, e) /\ q.name[pre] = m.name[pre]
    BY <1>2, <1>3, <2>1
  <2>3. IsPlace(pre, m.name, m.name[p], Kids(m, e))
    BY <2>1 DEF d
  <2> QED BY <1>2, <1>3, <2>1, <2>2, <2>3 DEF Moves, e, p
<1> QED BY <1>2, <1>4, <1>5

\* Then its reference is given up.
LEMMA ViewMoves ==
    ASSUME NEW m \in Memory, NEW x, NEW i \in Iters, On(m, i), NEW left, Moves(m, x, i, left),
           NEW q, SameView(x, q)
    PROVE  Moves(m, q, i, left)
<1> DEFINE d == m.it[i].dir
           r == x.it[i].pos
<1>1. /\ x.it[i].dir = d /\ d \in Dirs
      /\ \A c \in Kids(x, d) \cap Kids(m, d) : c \notin left => x.name[c] = m.name[c]
      /\ r # NoNode => r \in Kids(x, d) /\ x.name[r] = m.name[r]
      /\ \/ r = m.it[i].pos
         \/ /\ m.it[i].pos \in left /\ m.it[i].pos \in Kids(m, d)
            /\ IsPlace(r, m.name, m.name[m.it[i].pos], Kids(m, d))
  BY DEF Moves, On
<1>2. i \in DirOf(x, d)
  BY <1>1 DEF DirOf
<1>3. q.it = x.it /\ Kids(q, d) = Kids(x, d) /\ \A c \in Kids(x, d) : q.name[c] = x.name[c]
  BY <1>1, <1>2 DEF SameView
<1> HIDE DEF d, r
<1>4. q.it[i].dir = d /\ q.it[i].pos = r
  BY <1>1, <1>3 DEF r
<1>5. \A c \in Kids(q, d) \cap Kids(m, d) : c \notin left => q.name[c] = m.name[c]
  BY <1>1, <1>3
<1>6. r # NoNode => r \in Kids(q, d) /\ q.name[r] = m.name[r]
  BY <1>1, <1>3
<1> QED BY <1>1, <1>4, <1>5, <1>6 DEF Moves, d

\* Nothing happens to it.
LEMMA StillMoves ==
    ASSUME NEW m, NEW q, NEW i, On(m, i), q.it[i].dir = m.it[i].dir, q.it[i].pos = m.it[i].pos,
           q.parent = m.parent, NEW left,
           \A c \in Kids(m, m.it[i].dir) : c \notin left /\ q.name[c] = m.name[c]
    PROVE  Moves(m, q, i, left)
<1>1. Kids(q, m.it[i].dir) = Kids(m, m.it[i].dir)
  BY DEF Kids
<1> QED BY <1>1 DEF Moves, On

\* Node n is taken, and inserted with a new name which was free.
LEMMA RenameMoves ==
    ASSUME NEW m \in Memory, Itered(m), Alone(m), NEW n \in Nodes \ {Root}, m.parent[n] # NoNode,
           NEW x \in Memory, x.parent = m.parent, x.it = m.it, x.reg = m.reg,
           \A c \in Nodes : c # n => x.name[c] = m.name[c],
           NEW y, NEW pre, Taken(x, y, n, pre), IsPlace(pre, m.name, m.name[n], Kids(m, m.parent[n])),
           NEW q, InsertView(y, q, m.parent[n], n), \A c \in Kids(m, m.parent[n]) : m.name[c] # x.name[n],
           NEW i \in Iters, On(m, i)
    PROVE  Moves(m, q, i, {n})
<1> DEFINE e == m.it[i].dir
           p == m.it[i].pos
           d == m.parent[n]
<1>1. e \in Dirs /\ (p # NoNode => p \in Kids(m, e)) /\ d \in Dirs /\ e # NoNode
  BY NodesFacts DEF On, Memory
<1>2. Itered(x) /\ Alone(x)
  BY DEF Itered, Alone
<1>3. /\ y.parent = [m.parent EXCEPT ![n] = NoNode] /\ y.name = x.name
      /\ pre \in (Kids(x, d) \ {n}) \cup {NoNode}
      /\ y.it[i].dir = e /\ (y.it[i].pos = p \/ Stepped(x, y, n, pre, i))
      /\ e = d => y.it[i].pos # n
  BY <1>2 DEF Taken
<1>4. Kids(x, e) = Kids(m, e) /\ Kids(x, d) = Kids(m, d)
  BY DEF Kids
<1>5. n \in Kids(m, d) /\ \A g \in Dirs : Kids(y, g) = Kids(m, g) \ {n}
  <2>1. \A c \in Nodes : y.parent[c] = IF c = n THEN NoNode ELSE m.parent[c]
    BY <1>3 DEF Memory
  <2> QED BY <1>1, <2>1, NodesFacts DEF Kids
<1>6. \A g \in Dirs : \A c \in Kids(m, g) \ {n} : y.name[c] = m.name[c]
  BY <1>3 DEF Kids
<1>7. q.it = y.it /\ Kids(q, e) = Kids(m, e) /\ \A c \in Kids(m, e) \ {n} : q.name[c] = m.name[c]
  <2>1. CASE e = d
    <3>1. /\ q.it = y.it /\ Kids(q, d) = {c \in Kids(y, d) : y.name[c] # y.name[n]} \cup {n}
          /\ \A c \in Kids(q, d) : q.name[c] = y.name[c]
      BY DEF InsertView
    <3>2. \A c \in Kids(y, d) : y.name[c] # y.name[n]
      BY <1>1, <1>3, <1>5, <1>6
    <3>3. Kids(q, d) = Kids(m, d)
      BY <1>1, <1>5, <3>1, <3>2
    <3>4. \A c \in Kids(m, d) \ {n} : q.name[c] = m.name[c]
      BY <1>1, <1>6, <3>1, <3>3
    <3> QED BY <2>1, <3>1, <3>3, <3>4
  <2>2. CASE e # d
    <3>1. DirOf(y, e) # {}
      BY <1>3 DEF DirOf
    <3>2. q.it = y.it /\ Kids(q, e) = Kids(y, e) /\ \A c \in Kids(y, e) : q.name[c] = y.name[c]
      BY <1>1, <2>2, <3>1 DEF InsertView
    <3>3. n \notin Kids(m, e)
      BY <2>2 DEF Kids
    <3> QED BY <1>1, <1>5, <1>6, <3>2, <3>3, SMTT(30)
  <2> QED BY <2>1, <2>2
<1> HIDE DEF p, e, d
<1>8. CASE y.it[i].pos = p
  <2>1. p # n
    <3>1. p = n => e = d
      BY <1>1, NodesFacts DEF Kids, d
    <3> QED BY <1>3, <1>8, <3>1
  <2> QED BY <1>1, <1>3, <1>7, <1>8, <2>1 DEF Moves, e, p
<1>9. CASE Stepped(x, y, n, pre, i)
  <2>1. e = d /\ p = n /\ y.it[i].pos = pre
    BY <1>9 DEF Stepped, e, p, d
  <2>2. pre # NoNode => pre \in Kids(q, e) /\ q.name[pre] = m.name[pre]
    BY <1>3, <1>4, <1>7, <2>1
  <2>3. IsPlace(pre, m.name, m.name[p], Kids(m, e))
    BY <2>1 DEF d
  <2> QED BY <1>3, <1>5, <1>7, <2>1, <2>2, <2>3 DEF Moves, e, p
<1> QED BY <1>3, <1>8, <1>9

\* What holds of the histories vis and st of the iterators, and of their verdicts ver.
Histories(vis, st, ver) ==
    /\ vis \in [Iters -> SUBSET Nodes] /\ st \in [Iters -> SUBSET Nodes]
    /\ ver \in [Iters -> {"none", "running", "end", "void"}]

\* They are right: closed iterators have no verdict, and those which are not
\* void have returned what is not behind them, at the end all that stayed.
Right(m, i, v, s, r) ==
    IF m.it[i].dir = NoNode THEN r = "none"
    ELSE \/ r = "void"
         \/ Follows(m, i, v, s) /\ r # "none" /\ (r = "end" => s \subseteq v)

AllRight(m, vis, st, ver) ==
    /\ Histories(vis, st, ver) /\ Alone(m)
    /\ \A i \in Iters : Right(m, i, vis[i], st[i], ver[i])

\* What becomes of all iterators when some nodes are taken.
AllMove(m, q, left, ver, w) ==
    \A i \in Iters : /\ q.it[i].dir = m.it[i].dir
                     /\ m.it[i].dir = NoNode => w[i] = ver[i]
                     /\ m.it[i].dir # NoNode /\ w[i] # "void" => w[i] = ver[i]
                     /\ On(m, i) /\ w[i] # "void" => Moves(m, q, i, left)

\* Their histories afterwards.
StayOf(q, st, left) == [i \in Iters |-> {c \in st[i] \ left : q.parent[c] = q.it[i].dir}]
VisitedOf(vis, st) == [i \in Iters |-> vis[i] \cap st[i]]

\* An iterator which is not void stands in its directory.
LEMMA FollowsOn ==
    ASSUME NEW m \in Memory, NEW i \in Iters, m.it[i].dir # NoNode, NEW v, NEW s, Follows(m, i, v, s)
    PROVE  On(m, i)
<1>1. m.it[i].dir \in Dirs
  BY DEF Memory
<1>2. m.it[i].pos # NoNode => m.it[i].pos \in Kids(m, m.it[i].dir)
  BY DEF Follows
<1> QED BY <1>1, <1>2 DEF On

\* What is right for all iterators stays right when they move.
LEMMA AllMoved ==
    ASSUME NEW m \in Memory, Lists(m), NEW vis, NEW st, NEW ver, AllRight(m, vis, st, ver),
           NEW q, NEW left, NEW w \in [Iters -> {"none", "running", "end", "void"}],
           AllMove(m, q, left, ver, w), NEW s, s = StayOf(q, st, left), NEW v, v = VisitedOf(vis, s)
    PROVE  AllRight(q, v, s, w)
<1>1. Histories(vis, st, ver) /\ Alone(m)
  BY DEF AllRight
<1>2. \A i \in Iters : q.it[i].dir = m.it[i].dir
  BY DEF AllMove
<1>3. Alone(q)
  BY <1>1, <1>2 DEF Alone
<1>4. \A i \in Iters : /\ vis[i] \in SUBSET Nodes /\ st[i] \in SUBSET Nodes
                       /\ s[i] = {c \in st[i] \ left : q.parent[c] = q.it[i].dir}
                       /\ v[i] = vis[i] \cap s[i]
  BY <1>1 DEF Histories, StayOf, VisitedOf
<1>5. Histories(v, s, w)
  <2>1. s \in [Iters -> SUBSET Nodes]
    BY <1>4 DEF StayOf
  <2>2. v \in [Iters -> SUBSET Nodes]
    BY <1>4 DEF VisitedOf
  <2> QED BY <2>1, <2>2 DEF Histories
<1>6. ASSUME NEW i \in Iters PROVE Right(q, i, v[i], s[i], w[i])
  <2>1. Right(m, i, vis[i], st[i], ver[i])
    BY DEF AllRight
  <2>2. CASE m.it[i].dir = NoNode
    <3>1. w[i] = ver[i]
      BY <2>2 DEF AllMove
    <3> QED BY <1>2, <2>1, <2>2, <3>1 DEF Right
  <2>3. CASE w[i] = "void" /\ m.it[i].dir # NoNode
    BY <1>2, <2>3 DEF Right
  <2>4. CASE w[i] # "void" /\ m.it[i].dir # NoNode
    <3>1. w[i] = ver[i]
      BY <2>4 DEF AllMove
    <3>2. /\ Follows(m, i, vis[i], st[i]) /\ ver[i] # "none"
          /\ ver[i] = "end" => st[i] \subseteq vis[i]
      BY <2>1, <2>4, <3>1 DEF Right
    <3>3. On(m, i)
      BY <2>4, <3>2, FollowsOn
    <3>4. Moves(m, q, i, left)
      BY <2>4, <3>3 DEF AllMove
    <3>5. Follows(q, i, v[i], s[i]) /\ (st[i] \subseteq vis[i] => s[i] \subseteq v[i])
      BY <1>4, <3>2, <3>3, <3>4, MovesFollow
    <3> QED BY <1>2, <2>4, <3>1, <3>2, <3>5 DEF Right
  <2> QED BY <2>2, <2>3, <2>4
<1> QED BY <1>3, <1>5, <1>6 DEF AllRight

\* A step which changes no verdict.
LEMMA SameVerdicts ==
    ASSUME NEW m, NEW q, NEW left, NEW ver,
           \A i \in Iters : q.it[i].dir = m.it[i].dir /\ (On(m, i) => Moves(m, q, i, left))
    PROVE  AllMove(m, q, left, ver, ver)
BY DEF AllMove

\* A node is inserted: an iterator on what it replaces is void.
LEMMA InsertAllMove ==
    ASSUME NEW m \in Memory, Lists(m), Itered(m), NEW d \in Dirs, NEW n \in Nodes \ {Root},
           m.parent[n] = NoNode, NEW x, x.it = m.it, x.parent = m.parent, x.name[n] \in Nat,
           \A c \in Nodes : c # n => x.name[c] = m.name[c], NEW q, InsertView(x, q, d, n),
           NEW old, old = ChildNamed(m, d, x.name[n]), NEW ver, NEW w,
           \A i \in Iters : w[i] = IF old # NoNode /\ m.it[i].pos = old THEN "void" ELSE ver[i]
    PROVE  AllMove(m, q, {}, ver, w)
<1> SUFFICES ASSUME NEW i \in Iters
             PROVE  /\ q.it[i].dir = m.it[i].dir
                    /\ m.it[i].dir = NoNode => w[i] = ver[i]
                    /\ w[i] # "void" => w[i] = ver[i]
                    /\ On(m, i) /\ w[i] # "void" => Moves(m, q, i, {})
  BY DEF AllMove
<1>1. q.it[i].dir = m.it[i].dir
  BY DEF InsertView
<1>2. m.it[i].dir = NoNode => w[i] = ver[i]
  BY DEF Itered
<1>3. w[i] # "void" => w[i] = ver[i]
  OBVIOUS
<1>4. ASSUME On(m, i), w[i] # "void" PROVE Moves(m, q, i, {})
  <2>1. ASSUME m.it[i].dir = d, m.it[i].pos # NoNode, m.name[m.it[i].pos] = x.name[n] PROVE FALSE
    <3>1. m.it[i].pos \in Kids(m, d)
      BY <1>4, <2>1 DEF On
    <3>2. m.it[i].pos = old /\ old # NoNode
      BY <2>1, <3>1, ChildFound
    <3> QED BY <1>4, <3>2
  <2> QED BY <1>4, <2>1, InsertMoves
<1> QED BY <1>1, <1>2, <1>3, <1>4

\* What iterators go by is the same.
LEMMA SameRight ==
    ASSUME NEW m, NEW q, q.parent = m.parent, q.name = m.name,
           \A i \in Iters : q.it[i].dir = m.it[i].dir /\ q.it[i].pos = m.it[i].pos,
           NEW vis, NEW st, NEW ver, AllRight(m, vis, st, ver)
    PROVE  AllRight(q, vis, st, ver)
<1>1. Histories(vis, st, ver) /\ Alone(m) /\ \A i \in Iters : Right(m, i, vis[i], st[i], ver[i])
  BY DEF AllRight
<1>2. Alone(q)
  BY <1>1 DEF Alone
<1>3. \A d : Kids(q, d) = Kids(m, d)
  BY DEF Kids
<1>4. ASSUME NEW i \in Iters PROVE Right(q, i, vis[i], st[i], ver[i])
  <2>1. Right(m, i, vis[i], st[i], ver[i])
    BY <1>1
  <2>2. Follows(m, i, vis[i], st[i]) => Follows(q, i, vis[i], st[i])
    BY <1>3 DEF Follows
  <2> QED BY <2>1, <2>2 DEF Right
<1> QED BY <1>1, <1>2, <1>4 DEF AllRight

\* iso_node_take()
LEMMA TakeRight ==
    ASSUME NEW m, NEW w, Sane(m, w), Itered(m), NEW n \in Nodes \ {Root}, m.parent[n] # NoNode,
           NEW q, q = TakeOf(m, n), NEW vis, NEW st, NEW ver, AllRight(m, vis, st, ver),
           NEW s, s = StayOf(q, st, {n}), NEW v, v = VisitedOf(vis, s)
    PROVE  AllRight(q, v, s, ver)
<1>1. m \in Memory /\ Lists(m)
  BY DEF Sane
<1>2. Alone(m) /\ ver \in [Iters -> {"none", "running", "end", "void"}]
  BY DEF AllRight, Histories
<1>3. PICK pre : pre = Before(m, m.parent[n], {n})
  OBVIOUS
<1>4. Taken(m, q, n, pre)
  BY <1>3, TakeStep
<1>5. IsPlace(pre, m.name, m.name[n], Kids(m, m.parent[n]))
  BY <1>3, TakeStep
<1>6. \A i \in Iters : q.it[i].dir = m.it[i].dir
  BY <1>4 DEF Taken
<1>7. \A i \in Iters : On(m, i) => Moves(m, q, i, {n})
  BY <1>1, <1>2, <1>4, <1>5, TakeMoves
<1>8. AllMove(m, q, {n}, ver, ver)
  BY <1>6, <1>7, SameVerdicts
<1> QED BY <1>1, <1>2, <1>8, AllMoved

\* iso_node_remove()
LEMMA RemoveRight ==
    ASSUME NEW m, NEW w, Sane(m, w), Itered(m), NEW n \in Nodes \ {Root}, m.parent[n] # NoNode,
           NEW q, q = UnrefOf(TakeOf(m, n), n), NEW vis, NEW st, NEW ver, AllRight(m, vis, st, ver),
           NEW s, s = StayOf(q, st, {n}), NEW v, v = VisitedOf(vis, s)
    PROVE  AllRight(q, v, s, ver)
<1>1. m \in Memory /\ Lists(m)
  BY DEF Sane
<1>2. Alone(m) /\ ver \in [Iters -> {"none", "running", "end", "void"}]
  BY DEF AllRight, Histories
<1>3. PICK x, pre : x = TakeOf(m, n) /\ pre = Before(m, m.parent[n], {n})
  OBVIOUS
<1>4. Taken(m, x, n, pre)
  BY <1>3, TakeStep
<1>5. IsPlace(pre, m.name, m.name[n], Kids(m, m.parent[n]))
  BY <1>3, TakeStep
<1>6. SameView(x, q)
  BY <1>3, RemoveStep
<1>7. \A i \in Iters : q.it[i].dir = m.it[i].dir
  BY <1>4, <1>6 DEF Taken, SameView
<1>8. ASSUME NEW i \in Iters, On(m, i) PROVE Moves(m, q, i, {n})
  <2>1. Moves(m, x, i, {n})
    BY <1>1, <1>2, <1>4, <1>5, <1>8, TakeMoves
  <2> QED BY <1>1, <1>6, <1>8, <2>1, ViewMoves
<1>9. AllMove(m, q, {n}, ver, ver)
  BY <1>7, <1>8, SameVerdicts
<1> QED BY <1>1, <1>2, <1>9, AllMoved

\* iso_node_unref(), and what else leaves the view of the iterators as it is.
LEMMA ViewRight ==
    ASSUME NEW m \in Memory, Lists(m), NEW q, SameView(m, q),
           NEW vis, NEW st, NEW ver, AllRight(m, vis, st, ver),
           NEW s, s = StayOf(q, st, {}), NEW v, v = VisitedOf(vis, s)
    PROVE  AllRight(q, v, s, ver)
<1>1. ver \in [Iters -> {"none", "running", "end", "void"}]
  BY DEF AllRight, Histories
<1>2. \A i \in Iters : q.it[i].dir = m.it[i].dir
  BY DEF SameView
<1>3. ASSUME NEW i \in Iters, On(m, i) PROVE Moves(m, q, i, {})
  <2>1. Moves(m, m, i, {})
    BY <1>3, StillMoves
  <2> QED BY <1>3, <2>1, ViewMoves
<1>4. AllMove(m, q, {}, ver, ver)
  BY <1>2, <1>3, SameVerdicts
<1> QED BY <1>1, <1>4, AllMoved

\* iso_node_set_name() of a node in no directory.
LEMMA NameRight ==
    ASSUME NEW m, NEW w, Sane(m, w), Itered(m), NEW n \in Nodes, m.parent[n] = NoNode, NEW nm \in Nat,
           NEW q, q = [m EXCEPT !.name[n] = nm], NEW vis, NEW st, NEW ver, AllRight(m, vis, st, ver),
           NEW s, s = StayOf(q, st, {n}), NEW v, v = VisitedOf(vis, s)
    PROVE  AllRight(q, v, s, ver)
<1>1. m \in Memory /\ Lists(m)
  BY DEF Sane
<1>2. ver \in [Iters -> {"none", "running", "end", "void"}]
  BY DEF AllRight, Histories
<1>3. q.it = m.it /\ q.parent = m.parent /\ \A c \in Nodes : c # n => q.name[c] = m.name[c]
  BY Renamed
<1>4. ASSUME NEW i \in Iters, On(m, i) PROVE Moves(m, q, i, {n})
  <2>1. n \notin Kids(m, m.it[i].dir)
    BY <1>4, NodesFacts DEF On, Kids
  <2>2. \A c \in Kids(m, m.it[i].dir) : c \notin {n} /\ q.name[c] = m.name[c]
    BY <1>3, <2>1 DEF Kids
  <2> QED BY <1>3, <1>4, <2>2, StillMoves
<1>5. AllMove(m, q, {n}, ver, ver)
  BY <1>3, <1>4, SameVerdicts
<1> QED BY <1>1, <1>2, <1>5, AllMoved

\* iso_node_set_name() of a child.
Renaming(m, n, nm) == [m EXCEPT !.name[n] = nm]

\* The node is taken and inserted.
LEMMA RenameRight ==
    ASSUME NEW m, NEW w, Sane(m, w), Itered(m), NEW n \in Nodes \ {Root}, m.parent[n] # NoNode,
           NEW nm \in Nat, ChildNamed(m, m.parent[n], nm) = NoNode,
           NEW x, x = Renaming(m, n, nm), NEW y, y = TakeOf(x, n),
           NEW q, q = InsertOf(y, m.parent[n], n), NEW vis, NEW st, NEW ver, AllRight(m, vis, st, ver),
           NEW s, s = StayOf(q, st, {n}), NEW v, v = VisitedOf(vis, s)
    PROVE  AllRight(q, v, s, ver)
<1>1. m \in Memory /\ Lists(m)
  BY DEF Sane
<1>2. Alone(m) /\ ver \in [Iters -> {"none", "running", "end", "void"}]
  BY DEF AllRight, Histories
<1>3. x \in Memory /\ x.parent = m.parent /\ x.it = m.it /\ x.reg = m.reg
  BY Renamed DEF Renaming
<1>4. x.name[n] = nm /\ \A c \in Nodes : c # n => x.name[c] = m.name[c]
  <2>1. x.name = [m.name EXCEPT ![n] = nm] /\ m.name \in [Nodes -> Nat]
    BY <1>1 DEF Memory, Renaming
  <2> QED BY <2>1
<1>5. PICK pre : pre = Before(x, m.parent[n], {n})
  OBVIOUS
<1>6. Taken(x, y, n, pre)
  BY <1>5, RenameStep DEF Renaming
<1>7. InsertView(y, q, m.parent[n], n)
  BY <1>5, RenameStep DEF Renaming
<1>8. IsPlace(pre, m.name, m.name[n], Kids(m, m.parent[n]))
  BY <1>5, RenameStep DEF Renaming
<1>9. \A c \in Kids(m, m.parent[n]) : m.name[c] # x.name[n]
  <2> SUFFICES ASSUME NEW c \in Kids(m, m.parent[n]), m.name[c] = nm PROVE FALSE
    BY <1>4
  <2>1. m.parent[n] \in Dirs
    BY <1>1 DEF Memory
  <2>2. ChildNamed(m, m.parent[n], nm) = c /\ c # NoNode
    BY <1>1, <2>1, ChildFound
  <2> QED BY <2>2
<1>10. \A i \in Iters : q.it[i].dir = m.it[i].dir
  <2>1. q.it = y.it /\ \A i \in Iters : y.it[i].dir = x.it[i].dir
    BY <1>6, <1>7 DEF Taken, InsertView
  <2> QED BY <1>3, <2>1
<1>11. ASSUME NEW i \in Iters, On(m, i) PROVE Moves(m, q, i, {n})
  BY <1>1, <1>2, <1>3, <1>4, <1>6, <1>7, <1>8, <1>9, <1>11, RenameMoves
<1>12. AllMove(m, q, {n}, ver, ver)
  BY <1>10, <1>11, SameVerdicts
<1> QED BY <1>1, <1>2, <1>12, AllMoved

\* iter_next() reads the next child.
NextOf(m, i) == IF m.it[i].pos = NoNode THEN m.head[m.it[i].dir] ELSE m.next[m.it[i].pos]

\* The next child is the one of the least greater name.
LEMMA NextIs ==
    ASSUME NEW m \in Memory, Lists(m), NEW i \in Iters, m.it[i].dir # NoNode,
           NEW v, NEW s, Follows(m, i, v, s), NEW n, n = NextOf(m, i)
    PROVE  /\ m.it[i].pos # NoNode => m.parent[m.it[i].pos] = m.it[i].dir
           /\ n = NoNode => s \subseteq v
           /\ n # NoNode => n \in Kids(m, m.it[i].dir) /\ n \notin v
           /\ n # NoNode => \A c \in s : c \in v \cup {n} <=> m.name[c] <= m.name[n]
<1> DEFINE d == m.it[i].dir
           p == m.it[i].pos
           K == Kids(m, d)
<1>1. d \in Dirs
  BY DEF Memory
<1>2. /\ v \subseteq s /\ s \subseteq K /\ (p = NoNode => v = {})
      /\ p # NoNode => p \in K /\ \A c \in s : c \in v <=> m.name[c] <= m.name[p]
  BY DEF Follows
<1>3. \A c \in K : m.name[c] \in Nat /\ c # NoNode /\ m.parent[c] = d
  BY NodesFacts DEF Kids, Memory
<1>4. /\ IsFirst(m.head[d], m.name, K) /\ \A x \in K : IsNext(x, m.next[x], m.name, K)
      /\ \A x, y \in K : m.name[x] = m.name[y] => x = y
  BY <1>1 DEF Lists, IsList, Ordered
<1>5. n = IF p = NoNode THEN m.head[d] ELSE m.next[p]
  BY DEF NextOf
<1> HIDE DEF d, p, K
<1>6. CASE p = NoNode
  <2>1. IsFirst(n, m.name, K) /\ v = {}
    BY <1>2, <1>4, <1>5, <1>6
  <2>2. n = NoNode => s \subseteq v
    BY <1>2, <1>3, <2>1 DEF IsFirst
  <2>3. n # NoNode => n \in K /\ \A c \in K : m.name[n] <= m.name[c]
    BY <2>1 DEF IsFirst
  <2>4. n # NoNode => \A c \in s : c \in v \cup {n} <=> m.name[c] <= m.name[n]
    <3> SUFFICES ASSUME n # NoNode, NEW c \in s PROVE c \in v \cup {n} <=> m.name[c] <= m.name[n]
      OBVIOUS
    <3>1. n \in K /\ c \in K /\ m.name[n] <= m.name[c] /\ m.name[n] \in Nat /\ m.name[c] \in Nat
      BY <1>2, <1>3, <2>3
    <3>2. m.name[c] <= m.name[n] => c = n
      BY <1>4, <3>1
    <3> QED BY <2>1, <3>1, <3>2
  <2> QED BY <1>6, <2>1, <2>2, <2>3, <2>4 DEF d, p, K
<1>7. CASE p # NoNode
  <2>1. IsNext(p, n, m.name, K) /\ p \in K /\ \A c \in s : c \in v <=> m.name[c] <= m.name[p]
    BY <1>2, <1>4, <1>5, <1>7
  <2>2. n = NoNode => s \subseteq v
    <3> SUFFICES ASSUME n = NoNode, NEW c \in s PROVE c \in v
      OBVIOUS
    <3>1. \A a \in K : m.name[a] <= m.name[p]
      BY <1>3, <2>1 DEF IsNext
    <3> QED BY <1>2, <2>1, <3>1
  <2>3. n # NoNode => /\ n \in K /\ m.name[p] < m.name[n]
                      /\ \A c \in K : m.name[c] <= m.name[p] \/ m.name[n] <= m.name[c]
    BY <2>1 DEF IsNext
  <2>4. n # NoNode => n \notin v
    <3> SUFFICES ASSUME n # NoNode, n \in v PROVE FALSE
      OBVIOUS
    <3>1. m.name[n] <= m.name[p] /\ m.name[p] < m.name[n] /\ n \in K
      BY <1>2, <2>1, <2>3
    <3> QED BY <1>3, <2>1, <3>1
  <2>5. n # NoNode => \A c \in s : c \in v \cup {n} <=> m.name[c] <= m.name[n]
    <3> SUFFICES ASSUME n # NoNode, NEW c \in s PROVE c \in v \cup {n} <=> m.name[c] <= m.name[n]
      OBVIOUS
    <3>1. /\ n \in K /\ c \in K /\ m.name[n] \in Nat /\ m.name[c] \in Nat /\ m.name[p] \in Nat
          /\ m.name[p] < m.name[n] /\ (m.name[c] <= m.name[p] \/ m.name[n] <= m.name[c])
      BY <1>2, <1>3, <2>1, <2>3
    <3>2. c \in v <=> m.name[c] <= m.name[p]
      BY <2>1
    <3>3. m.name[c] = m.name[n] => c = n
      BY <1>4, <3>1
    <3> QED BY <3>1, <3>2, <3>3
  <2>6. m.parent[p] = d
    BY <1>3, <2>1
  <2> QED BY <1>7, <2>2, <2>3, <2>4, <2>5, <2>6 DEF d, p, K
<1> QED BY <1>6, <1>7

\* Only iterator i changes.
LEMMA OneRight ==
    ASSUME NEW m, NEW q, NEW i \in Iters, q.parent = m.parent, q.name = m.name, Alone(q),
           \A j \in Iters : j # i => q.it[j] = m.it[j],
           NEW vis, NEW st, NEW ver, AllRight(m, vis, st, ver),
           NEW v \in SUBSET Nodes, NEW s \in SUBSET Nodes, NEW r \in {"none", "running", "end", "void"},
           Right(q, i, v, s, r)
    PROVE  AllRight(q, [vis EXCEPT ![i] = v], [st EXCEPT ![i] = s], [ver EXCEPT ![i] = r])
<1> DEFINE vis2 == [vis EXCEPT ![i] = v]
           st2 == [st EXCEPT ![i] = s]
           ver2 == [ver EXCEPT ![i] = r]
<1>1. Histories(vis, st, ver) /\ \A j \in Iters : Right(m, j, vis[j], st[j], ver[j])
  BY DEF AllRight
<1>2. Histories(vis2, st2, ver2)
  BY <1>1 DEF Histories
<1>3. /\ vis2[i] = v /\ st2[i] = s /\ ver2[i] = r
      /\ \A j \in Iters : j # i => vis2[j] = vis[j] /\ st2[j] = st[j] /\ ver2[j] = ver[j]
  BY <1>1 DEF Histories
<1> HIDE DEF vis2, st2, ver2
<1>4. ASSUME NEW j \in Iters PROVE Right(q, j, vis2[j], st2[j], ver2[j])
  <2>1. CASE j = i
    BY <1>3, <2>1
  <2>2. CASE j # i
    <3>1. Right(m, j, vis[j], st[j], ver[j]) /\ q.it[j] = m.it[j]
      BY <1>1, <2>2
    <3>2. Kids(q, q.it[j].dir) = Kids(m, m.it[j].dir)
      BY <3>1 DEF Kids
    <3>3. Follows(m, j, vis[j], st[j]) => Follows(q, j, vis[j], st[j])
      BY <3>1, <3>2 DEF Follows
    <3>4. Right(q, j, vis[j], st[j], ver[j])
      BY <3>1, <3>3 DEF Right
    <3> QED BY <1>3, <2>2, <3>4
  <2> QED BY <2>1, <2>2
<1>5. AllRight(q, vis2, st2, ver2)
  BY <1>2, <1>4 DEF AllRight
<1> QED BY <1>5 DEF vis2, st2, ver2

\* iso_dir_get_children(), for the only iterator on the directory.
LEMMA OpenRight ==
    ASSUME NEW m \in Memory, NEW i \in Iters, NEW d \in Dirs, \A j \in Iters : m.it[j].dir # d,
           NEW q, q.parent = m.parent, q.name = m.name,
           q.it = [m.it EXCEPT ![i] = [NoIter EXCEPT !.dir = d]],
           NEW vis, NEW st, NEW ver, AllRight(m, vis, st, ver)
    PROVE  AllRight(q, [vis EXCEPT ![i] = {}], [st EXCEPT ![i] = Kids(m, d)],
                    [ver EXCEPT ![i] = "running"])
<1>1. q.it[i].dir = d /\ q.it[i].pos = NoNode /\ \A j \in Iters : j # i => q.it[j] = m.it[j]
  BY DEF Memory, NoIter
<1>2. Alone(m)
  BY DEF AllRight
<1>3. Alone(q)
  BY <1>1, <1>2 DEF Alone
<1>4. Kids(q, d) = Kids(m, d) /\ Kids(m, d) \in SUBSET Nodes
  BY DEF Kids
<1>5. Follows(q, i, {}, Kids(m, d))
  BY <1>1, <1>4 DEF Follows
<1>6. Right(q, i, {}, Kids(m, d), "running")
  BY <1>1, <1>5, NodesFacts DEF Right
<1> QED BY <1>1, <1>3, <1>4, <1>6, OneRight

\* iter_next() finds no child.
LEMMA EndRight ==
    ASSUME NEW m \in Memory, Lists(m), NEW i \in Iters, m.it[i].dir # NoNode,
           NEW lost, lost = (m.it[i].pos # NoNode /\ m.parent[m.it[i].pos] # m.it[i].dir),
           lost \/ NextOf(m, i) = NoNode,
           NEW vis, NEW st, NEW ver, AllRight(m, vis, st, ver),
           NEW w, w = [ver EXCEPT ![i] = IF @ = "void" THEN @ ELSE IF lost THEN "error" ELSE "end"]
    PROVE  AllRight(m, vis, st, w)
<1>1. /\ Histories(vis, st, ver) /\ Alone(m) /\ Right(m, i, vis[i], st[i], ver[i])
      /\ \A j \in Iters : Right(m, j, vis[j], st[j], ver[j])
  BY DEF AllRight
<1>2. /\ ver \in [Iters -> {"none", "running", "end", "void"}]
      /\ vis = [vis EXCEPT ![i] = vis[i]] /\ st = [st EXCEPT ![i] = st[i]]
      /\ vis[i] \in SUBSET Nodes /\ st[i] \in SUBSET Nodes
  BY <1>1 DEF Histories
<1>3. CASE ver[i] = "void"
  <2>1. w = ver
    BY <1>2, <1>3
  <2> QED BY <2>1
<1>4. CASE ver[i] # "void"
  <2>1. Follows(m, i, vis[i], st[i])
    BY <1>1, <1>4 DEF Right
  <2>2. ~ lost
    <3>1. m.it[i].pos # NoNode => m.parent[m.it[i].pos] = m.it[i].dir
      BY <2>1, NextIs
    <3> QED BY <3>1
  <2>3. st[i] \subseteq vis[i]
    BY <2>1, <2>2, NextIs
  <2>4. w = [ver EXCEPT ![i] = "end"]
    BY <1>2, <1>4, <2>2
  <2>5. Right(m, i, vis[i], st[i], "end")
    BY <2>1, <2>3 DEF Right
  <2>6. AllRight(m, [vis EXCEPT ![i] = vis[i]], [st EXCEPT ![i] = st[i]], [ver EXCEPT ![i] = "end"])
    BY <1>1, <1>2, <2>5, OneRight
  <2> QED BY <1>2, <2>4, <2>6
<1> QED BY <1>3, <1>4

\* iter_next() finds a child.
Shown(vis, st, i, n) == [vis EXCEPT ![i] = @ \cup ({n} \cap st[i])]

Ended(ver, vis, i, n) ==
    [ver EXCEPT ![i] = IF @ = "void" THEN @ ELSE IF n \in vis[i] THEN "twice" ELSE "running"]

\* The next child is neither one that was returned nor beyond one that was not.
LEMMA NextRight ==
    ASSUME NEW m \in Memory, Lists(m), NEW i \in Iters, m.it[i].dir # NoNode,
           NEW n, n = NextOf(m, i), n # NoNode, NEW q, IterMove(m, q, i), q.it[i].pos = n,
           NEW vis, NEW st, NEW ver, AllRight(m, vis, st, ver),
           NEW v, v = Shown(vis, st, i, n), NEW w, w = Ended(ver, vis, i, n)
    PROVE  AllRight(q, v, st, w)
<1>1. /\ Histories(vis, st, ver) /\ Alone(m) /\ Right(m, i, vis[i], st[i], ver[i])
  BY DEF AllRight
<1>2. /\ ver \in [Iters -> {"none", "running", "end", "void"}]
      /\ st = [st EXCEPT ![i] = st[i]] /\ vis \in [Iters -> SUBSET Nodes]
      /\ vis[i] \in SUBSET Nodes /\ st[i] \in SUBSET Nodes
  BY <1>1 DEF Histories
<1>3. /\ q.parent = m.parent /\ q.name = m.name /\ q.it[i].dir = m.it[i].dir
      /\ \A j \in Iters : j # i => q.it[j] = m.it[j]
  BY DEF IterMove
<1>4. Alone(q)
  BY <1>1, <1>3 DEF Alone
<1> DEFINE a == vis[i] \cup ({n} \cap st[i])
           r == IF ver[i] = "void" THEN "void" ELSE "running"
<1>5. v = [vis EXCEPT ![i] = a] /\ a \in SUBSET Nodes
  BY <1>2 DEF Shown
<1>6. ver[i] # "void" => n \notin vis[i] /\ Follows(q, i, a, st[i])
  <2> SUFFICES ASSUME ver[i] # "void" PROVE n \notin vis[i] /\ Follows(q, i, a, st[i])
    OBVIOUS
  <2>1. Follows(m, i, vis[i], st[i])
    BY <1>1 DEF Right
  <2>2. /\ n \in Kids(m, m.it[i].dir) /\ n \notin vis[i]
        /\ \A c \in st[i] : c \in vis[i] \cup {n} <=> m.name[c] <= m.name[n]
    BY <2>1, NextIs
  <2>3. Kids(q, q.it[i].dir) = Kids(m, m.it[i].dir)
    BY <1>3 DEF Kids
  <2>4. vis[i] \subseteq st[i] /\ st[i] \subseteq Kids(m, m.it[i].dir)
    BY <2>1 DEF Follows
  <2>5. \A c \in st[i] : c \in a <=> q.name[c] <= q.name[n]
    BY <1>3, <2>2
  <2> QED BY <1>3, <2>2, <2>3, <2>4, <2>5 DEF Follows
<1>7. w = [ver EXCEPT ![i] = r]
  BY <1>2, <1>6 DEF Ended
<1>8. Right(q, i, a, st[i], r)
  BY <1>1, <1>3, <1>6 DEF Right
<1>9. r \in {"none", "running", "end", "void"}
  OBVIOUS
<1> HIDE DEF a, r
<1>10. AllRight(q, [vis EXCEPT ![i] = a], [st EXCEPT ![i] = st[i]], [ver EXCEPT ![i] = r])
  BY <1>2, <1>3, <1>4, <1>5, <1>8, <1>9, OneRight, ZenonT(40)
<1> QED BY <1>2, <1>5, <1>7, <1>10

\* iso_dir_iter_free(): the iterator is gone.
LEMMA CloseRight ==
    ASSUME NEW m, NEW w, Sane(m, w), Itered(m), NEW i \in Iters, m.it[i].dir # NoNode,
           NEW x, x = Without(m, i), NEW vis, NEW st, NEW ver, AllRight(m, vis, st, ver)
    PROVE  x \in Memory /\ Lists(x) /\ AllRight(x, vis, st, [ver EXCEPT ![i] = "none"])
<1>1. Sane(x, Holding(m, w, i))
  BY Closed
<1>2. OnlyClosed(m, x, i)
  BY Closed
<1>3. x.parent = m.parent /\ x.name = m.name
  BY <1>2 DEF OnlyClosed
<1>4. x.it = [m.it EXCEPT ![i] = NoIter]
  BY <1>2 DEF OnlyClosed
<1>5. m \in Memory /\ x \in Memory /\ Lists(x)
  BY <1>1 DEF Sane
<1>6. /\ Histories(vis, st, ver) /\ Alone(m)
      /\ vis = [vis EXCEPT ![i] = vis[i]] /\ st = [st EXCEPT ![i] = st[i]]
      /\ vis[i] \in SUBSET Nodes /\ st[i] \in SUBSET Nodes
  BY DEF AllRight, Histories
<1>7. x.it[i].dir = NoNode /\ \A j \in Iters : j # i => x.it[j] = m.it[j]
  BY <1>4, <1>5 DEF Memory, NoIter
<1>8. Alone(x)
  BY <1>6, <1>7 DEF Alone
<1>9. Right(x, i, vis[i], st[i], "none")
  BY <1>7 DEF Right
<1>10. AllRight(x, [vis EXCEPT ![i] = vis[i]], [st EXCEPT ![i] = st[i]], [ver EXCEPT ![i] = "none"])
  BY <1>3, <1>6, <1>7, <1>8, <1>9, OneRight, ZenonT(40)
<1> QED BY <1>5, <1>6, <1>10

\* Then its references go.
LEMMA FreeRight ==
    ASSUME NEW m, NEW w, Sane(m, w), Itered(m), NEW i \in Iters, m.it[i].dir # NoNode,
           NEW x, x = Without(m, i),
           NEW p, p = m.it[i].pos, NEW y, y = LeftAt(x, p),
           NEW q, q = UnrefOf(y, m.it[i].dir), NEW vis, NEW st, NEW ver, AllRight(m, vis, st, ver),
           NEW s, s = StayOf(q, st, {}), NEW v, v = VisitedOf(vis, s)
    PROVE  AllRight(q, v, s, [ver EXCEPT ![i] = "none"])
<1>1. SameView(x, q)
  BY FreeStep DEF LeftAt
<1>2. x \in Memory /\ Lists(x) /\ AllRight(x, vis, st, [ver EXCEPT ![i] = "none"])
  BY CloseRight
<1> QED BY <1>1, <1>2, ViewRight

\* The invariant for an application with one iterator on a directory at a time.
IterInv == AllRight(t, visited, stay, verdict)

\* There is no iterator in the beginning.
LEMMA IterStarts == NTInit => IterInv
<1> SUFFICES ASSUME NTInit PROVE IterInv
  OBVIOUS
<1>1. /\ t.it = [i \in Iters |-> NoIter] /\ visited = [i \in Iters |-> {}]
      /\ stay = [i \in Iters |-> {}] /\ verdict = [i \in Iters |-> "none"]
  BY DEF NTInit
<1>2. Histories(visited, stay, verdict)
  BY <1>1 DEF Histories
<1>3. \A i \in Iters : t.it[i].dir = NoNode
  BY <1>1 DEF NoIter
<1>4. Alone(t)
  BY <1>3 DEF Alone
<1>5. \A i \in Iters : Right(t, i, visited[i], stay[i], verdict[i])
  BY <1>1, <1>3 DEF Right
<1> QED BY <1>2, <1>4, <1>5 DEF IterInv, AllRight

\* Each call keeps that, if no directory has two iterators.
LEMMA IterStays ==
    ASSUME IterLimit = 1, NTInv, IterInv, [NTNext]_ntVars
    PROVE  IterInv'
<1> SUFFICES AllRight(t', visited', stay', verdict')
  BY DEF IterInv
<1>1. PICK m, w, q, vis, st, ver : /\ m = t /\ w = app /\ q = t' /\ vis = visited
                                   /\ st = stay /\ ver = verdict
  OBVIOUS
<1>2. Sane(m, w) /\ Itered(m) /\ m \in Memory /\ Lists(m)
  BY <1>1, InvIs DEF Sane
<1>3. AllRight(m, vis, st, ver)
  BY <1>1 DEF IterInv
<1>4. Histories(vis, st, ver)
  BY <1>3 DEF AllRight
<1>5. ASSUME NEW left, Followed(q, left)
      PROVE  stay' = StayOf(q, st, left) /\ visited' = VisitedOf(vis, stay')
  BY <1>1, <1>5 DEF Followed, StayOf, VisitedOf
<1>6. ASSUME NEW old, Voided(old)
      PROVE  /\ verdict' \in [Iters -> {"none", "running", "end", "void"}]
             /\ \A i \in Iters : verdict'[i] = IF old # NoNode /\ m.it[i].pos = old THEN "void"
                                               ELSE ver[i]
  BY <1>1, <1>4, <1>6 DEF Voided, Histories
<1>7. ASSUME NEW d \in Dirs, NEW n \in Nodes \ {Root}, NEW nm \in Names, NEW mode \in Modes,
             AddNew(d, n, nm, mode)
      PROVE  AllRight(t', visited', stay', verdict')
  <2>1. m.ref[d] > 0 /\ m.ref[n] = 0 /\ nm \in Nat
    <3>1. m.ref[d] > 0 /\ ~ (m.ref[n] > 0)
      BY <1>1, <1>7 DEF AddNew, Live
    <3>2. m.ref[n] \in Nat
      BY <1>2 DEF Memory
    <3> QED BY <3>1, <3>2, NTAssumption
  <2>2. PICK x, old : x = [m EXCEPT !.ref[n] = 1, !.name[n] = nm] /\ old = ChildNamed(m, d, nm)
    OBVIOUS
  <2>3. q = InsertOf(x, d, n) /\ Followed(q, {}) /\ Voided(old)
    BY <1>1, <1>7, <2>2 DEF AddNew
  <2>4. InsertView(x, q, d, n)
    BY <1>2, <2>1, <2>2, <2>3, AddNewStep
  <2>5. /\ x.it = m.it /\ x.parent = m.parent /\ x.name[n] = nm
        /\ \A c \in Nodes : c # n => x.name[c] = m.name[c]
    <3>1. x.name = [m.name EXCEPT ![n] = nm] /\ x.it = m.it /\ x.parent = m.parent
      BY <1>2, <2>2 DEF Memory
    <3>2. m.name \in [Nodes -> Nat]
      BY <1>2 DEF Memory
    <3> QED BY <3>1, <3>2
  <2>6. m.parent[n] = NoNode
    BY <1>2, <2>1, FreeNode
  <2>7. PICK r : r = verdict'
    OBVIOUS
  <2>8. old = ChildNamed(m, d, x.name[n]) /\ x.name[n] \in Nat
    BY <2>1, <2>2, <2>5
  <2>9. \A i \in Iters : r[i] = IF old # NoNode /\ m.it[i].pos = old THEN "void" ELSE ver[i]
    BY <1>6, <2>3, <2>7
  <2>10. AllMove(m, q, {}, ver, r)
    BY <1>2, <2>4, <2>5, <2>6, <2>8, <2>9, InsertAllMove
  <2> QED BY <1>1, <1>2, <1>3, <1>5, <1>6, <2>3, <2>7, <2>10, AllMoved
<1>8. ASSUME NEW d \in Dirs, NEW n \in Nodes \ {Root}, NEW mode \in Modes, AddNode(d, n, mode)
      PROVE  AllRight(t', visited', stay', verdict')
  <2>1. /\ m.ref[d] > 0 /\ w[n] > 0 /\ m.parent[n] = NoNode /\ n \notin Above(m, d)
        /\ q = InsertOf(m, d, n)
    BY <1>1, <1>8 DEF AddNode, Live
  <2>2. PICK old : old = ChildNamed(m, d, m.name[n])
    OBVIOUS
  <2>3. Followed(q, {}) /\ Voided(old)
    BY <1>1, <1>8, <2>2 DEF AddNode
  <2>4. InsertView(m, q, d, n)
    BY <1>2, <2>1, AddNodeStep
  <2>5. m.name[n] \in Nat
    BY <1>2 DEF Memory
  <2>6. AllMove(m, q, {}, ver, verdict')
    BY <1>2, <1>6, <2>1, <2>2, <2>3, <2>4, <2>5, InsertAllMove
  <2> QED BY <1>1, <1>2, <1>3, <1>5, <1>6, <2>3, <2>6, AllMoved
<1>9. ASSUME NEW n \in Nodes, Take(n) PROVE AllRight(t', visited', stay', verdict')
  <2>1. /\ n \in Nodes \ {Root} /\ m.parent[n] # NoNode /\ q = TakeOf(m, n)
        /\ Followed(q, {n}) /\ verdict' = ver
    BY <1>1, <1>9 DEF Take
  <2> QED BY <1>1, <1>2, <1>3, <1>5, <2>1, TakeRight
<1>10. ASSUME NEW n \in Nodes, RemoveNode(n) PROVE AllRight(t', visited', stay', verdict')
  <2>1. /\ n \in Nodes \ {Root} /\ m.parent[n] # NoNode /\ q = UnrefOf(TakeOf(m, n), n)
        /\ Followed(q, {n}) /\ verdict' = ver
    BY <1>1, <1>10 DEF RemoveNode
  <2> QED BY <1>1, <1>2, <1>3, <1>5, <2>1, RemoveRight
<1>11. ASSUME NEW n \in Nodes, Ref(n) PROVE AllRight(t', visited', stay', verdict')
  <2>1. q = RefOf(m, n) /\ visited' = vis /\ stay' = st /\ verdict' = ver
    BY <1>1, <1>11 DEF Ref
  <2>2. SameSight(m, q)
    BY <1>2, <2>1, RefStep
  <2> QED BY <1>1, <1>3, <2>1, <2>2, SameRight DEF SameSight
<1>12. ASSUME NEW n \in Nodes, Unref(n) PROVE AllRight(t', visited', stay', verdict')
  <2>1. w[n] > 0 /\ q = UnrefOf(m, n) /\ Followed(q, {}) /\ verdict' = ver
    BY <1>1, <1>12 DEF Unref
  <2>2. SameView(m, q)
    BY <1>2, <2>1, UnrefSane
  <2> QED BY <1>1, <1>2, <1>3, <1>5, <2>1, <2>2, ViewRight
<1>13. ASSUME NEW n \in Nodes, NEW nm \in Names, SetName(n, nm)
       PROVE  AllRight(t', visited', stay', verdict')
  <2>1. nm \in Nat /\ n \in Nodes \ {Root} /\ Followed(q, {n}) /\ verdict' = ver
    BY <1>1, <1>13, NTAssumption DEF SetName
  <2>2. CASE m.parent[n] = NoNode
    <3>1. q = [m EXCEPT !.name[n] = nm]
      BY <1>1, <1>13, <2>2 DEF SetName
    <3> QED BY <1>1, <1>2, <1>3, <1>5, <2>1, <2>2, <3>1, NameRight
  <2>3. CASE m.parent[n] # NoNode
    <3>1. /\ ChildNamed(m, m.parent[n], nm) = NoNode
          /\ q = InsertOf(TakeOf([m EXCEPT !.name[n] = nm], n), m.parent[n], n)
      BY <1>1, <1>13, <2>3 DEF SetName
    <3>2. PICK x, y : x = Renaming(m, n, nm) /\ y = TakeOf(x, n)
      OBVIOUS
    <3>3. q = InsertOf(y, m.parent[n], n) /\ ChildNamed(m, m.parent[n], nm) = NoNode
      BY <3>1, <3>2 DEF Renaming
    <3>4. PICK s, v : s = StayOf(q, st, {n}) /\ v = VisitedOf(vis, s) /\ s = stay' /\ v = visited'
      BY <1>5, <2>1
    <3>5. AllRight(q, v, s, ver)
      BY <1>2, <1>3, <2>1, <2>3, <3>2, <3>3, <3>4, RenameRight
    <3> QED BY <1>1, <2>1, <3>4, <3>5
  <2> QED BY <2>2, <2>3
<1>14. ASSUME NEW i \in Iters, NEW d \in Dirs, IterOpen(i, d)
       PROVE  AllRight(t', visited', stay', verdict')
  <2>1. /\ m.it[i].dir = NoNode /\ Cardinality(DirOf(m, d)) < IterLimit
        /\ q = RefOf([m EXCEPT !.it[i] = [NoIter EXCEPT !.dir = d], !.reg = <<i>> \o @], d)
        /\ visited' = [vis EXCEPT ![i] = {}] /\ stay' = [st EXCEPT ![i] = Kids(m, d)]
        /\ verdict' = [ver EXCEPT ![i] = "running"]
    BY <1>1, <1>14 DEF IterOpen, DirOf, Kids
  <2>2. \A j \in Iters : m.it[j].dir # d
    <3>1. IsFiniteSet(DirOf(m, d))
      BY NTAssumption, FS_Subset DEF DirOf
    <3>2. Cardinality(DirOf(m, d)) = 0
      BY <2>1, <3>1, FS_CardinalityType
    <3>3. DirOf(m, d) = {}
      BY <3>1, <3>2, FS_EmptySet
    <3> QED BY <3>3 DEF DirOf
  <2>3. PICK x : x = [m EXCEPT !.it[i] = [NoIter EXCEPT !.dir = d], !.reg = <<i>> \o @]
    OBVIOUS
  <2>4. q = RefOf(x, d)
    BY <2>1, <2>3
  <2>5. m.it[i].dir = NoNode
    BY <2>1
  <2>6. Opened(m, RefOf(x, d), i, d)
    BY <1>2, <2>3, <2>5, OpenStep
  <2>7. /\ q.parent = m.parent /\ q.name = m.name
        /\ q.it = [m.it EXCEPT ![i] = [NoIter EXCEPT !.dir = d]]
    BY <2>4, <2>6 DEF Opened
  <2>8. AllRight(q, [vis EXCEPT ![i] = {}], [st EXCEPT ![i] = Kids(m, d)], [ver EXCEPT ![i] = "running"])
    BY <1>2, <1>3, <2>2, <2>7, OpenRight
  <2> QED BY <1>1, <2>1, <2>8
<1>15. ASSUME NEW i \in Iters, IterNext(i) PROVE AllRight(t', visited', stay', verdict')
  <2>1. PICK x, p, n, lost : /\ x = Stale(m, i) /\ p = m.it[i].pos /\ n = NextOf(m, i)
                             /\ lost = (p # NoNode /\ m.parent[p] # m.it[i].dir)
    OBVIOUS
  <2>2. m.it[i].dir # NoNode /\ stay' = st
    BY <1>1, <1>15 DEF IterNext
  <2>3. CASE lost \/ n = NoNode
    <3>1. /\ q = x /\ visited' = vis
          /\ verdict' = [ver EXCEPT ![i] = IF @ = "void" THEN @ ELSE IF lost THEN "error" ELSE "end"]
      BY <1>1, <1>15, <2>1, <2>3, ZenonT(40) DEF IterNext, Stale, NextOf, Verdict
    <3>2. AllRight(m, vis, st, verdict')
      BY <1>2, <1>3, <2>1, <2>2, <2>3, <3>1, EndRight
    <3>3. IterMove(m, x, i) /\ x.it[i].pos = m.it[i].pos
      BY <1>2, <2>1, <2>2, StaleStep, ZenonT(40)
    <3>4. /\ x.parent = m.parent /\ x.name = m.name
          /\ \A j \in Iters : x.it[j].dir = m.it[j].dir /\ x.it[j].pos = m.it[j].pos
      BY <3>3 DEF IterMove
    <3>5. AllRight(x, vis, st, verdict')
      BY <3>2, <3>4, SameRight
    <3> QED BY <1>1, <2>2, <3>1, <3>5
  <2>4. CASE ~ (lost \/ n = NoNode)
    <3>1. q = IterMoved(IF p = NoNode THEN x ELSE UnrefOf(x, p), i, n)
      BY <1>1, <1>15, <2>1, <2>4, ZenonT(40) DEF IterNext, Stale, NextOf
    <3>2. PICK v, r : /\ v = Shown(vis, st, i, n) /\ r = Ended(ver, vis, i, n)
                      /\ v = visited' /\ r = verdict'
      BY <1>1, <1>15, <2>1, <2>4, ZenonT(40) DEF IterNext, NextOf, Verdict, Shown, Ended
    <3>3. n \in Nodes \ {Root}
      <4>1. m.it[i].dir \in Dirs /\ p \in (Nodes \ {Root}) \cup {NoNode}
        BY <1>2, <2>1, <2>2 DEF Memory, Itered
      <4>2. n = IF p = NoNode THEN m.head[m.it[i].dir] ELSE m.next[p]
        BY <2>1 DEF NextOf
      <4>3. p # NoNode => m.parent[p] = m.it[i].dir
        BY <2>1, <2>4
      <4>4. n \in Kids(m, m.it[i].dir)
        BY <1>2, <2>4, <4>1, <4>2, <4>3, NextChild
      <4> QED BY <4>4 DEF Kids
    <3>4. PICK u : u = LeftAt(x, p)
      OBVIOUS
    <3>5. q = IterMoved(u, i, n)
      BY <3>1, <3>4 DEF LeftAt
    <3>6. p # NoNode => m.parent[p] = m.it[i].dir
      BY <2>1, <2>4
    <3>7. p = m.it[i].pos /\ x = Stale(m, i) /\ Sane(m, w) /\ Itered(m) /\ m.it[i].dir # NoNode
      BY <1>2, <2>1, <2>2
    <3>8. IterMove(m, IterMoved(u, i, n), i)
      BY <3>3, <3>4, <3>6, <3>7, NextStep, ZenonT(40)
    <3>9. Arrived(IterMoved(u, i, n), i, n)
      BY <3>3, <3>4, <3>6, <3>7, NextStep, ZenonT(40)
    <3>10. IterMove(m, q, i) /\ q.it[i].pos = n
      BY <3>5, <3>8, <3>9 DEF Arrived
    <3>11. n = NextOf(m, i) /\ n # NoNode /\ m \in Memory /\ Lists(m)
      BY <1>2, <2>1, <2>4
    <3>12. AllRight(q, v, st, r)
      BY <1>3, <2>2, <3>2, <3>10, <3>11, NextRight
    <3> QED BY <1>1, <2>2, <3>2, <3>12
  <2> QED BY <2>3, <2>4
<1>16. ASSUME NEW i \in Iters, IterFree(i) PROVE AllRight(t', visited', stay', verdict')
  <2>1. m.it[i].dir # NoNode /\ Followed(q, {}) /\ verdict' = [ver EXCEPT ![i] = "none"]
    BY <1>1, <1>16 DEF IterFree
  <2>2. PICK x, p : x = Without(m, i) /\ p = m.it[i].pos
    OBVIOUS
  <2>3. PICK y : y = LeftAt(x, p)
    OBVIOUS
  <2>4. q = UnrefOf(y, m.it[i].dir)
    BY <1>1, <1>16, <2>2, <2>3 DEF IterFree, Without, LeftAt
  <2>5. PICK s, v : s = StayOf(q, st, {}) /\ v = VisitedOf(vis, s) /\ s = stay' /\ v = visited'
    BY <1>5, <2>1
  <2>6. m.it[i].dir # NoNode
    BY <2>1
  <2>7. AllRight(q, v, s, [ver EXCEPT ![i] = "none"])
    BY <1>2, <1>3, <2>2, <2>3, <2>4, <2>5, <2>6, FreeRight
  <2> QED BY <1>1, <2>1, <2>5, <2>7
<1>17. ASSUME NEW i \in Iters, NEW remove \in BOOLEAN, IterTake(i, remove)
       PROVE  AllRight(t', visited', stay', verdict')
  <2>1. PICK x, n : x = Stale(m, i) /\ n = m.it[i].pos
    OBVIOUS
  <2>2. Sane(x, w) /\ Itered(x) /\ IterMove(m, x, i) /\ x.it[i].pos = m.it[i].pos
    BY <1>2, <2>1, StaleStep
  <2>3. n # NoNode /\ n \in Nodes /\ verdict' = ver
    <3>1. n # NoNode /\ verdict' = ver
      BY <1>1, <1>17, <2>1 DEF IterTake
    <3> QED BY <1>2, <2>1, <3>1 DEF Memory
  <2>4. /\ x.parent = m.parent /\ x.name = m.name
        /\ \A j \in Iters : x.it[j].dir = m.it[j].dir /\ x.it[j].pos = m.it[j].pos
    BY <2>2 DEF IterMove
  <2>5. m.parent[n] # NoNode => n # Root
    BY <1>2, <2>1 DEF Itered
  <2>6. AllRight(x, vis, st, ver)
    BY <1>3, <2>4, SameRight
  <2>7. CASE q = x /\ visited' = vis /\ stay' = st
    BY <1>1, <2>3, <2>6, <2>7
  <2>8. CASE m.parent[n] # NoNode /\ q = UnrefOf(TakeOf(x, n), n) /\ Followed(q, {n})
    <3>1. stay' = StayOf(q, st, {n}) /\ visited' = VisitedOf(vis, stay')
      BY <1>5, <2>8
    <3> QED BY <1>1, <2>2, <2>3, <2>4, <2>5, <2>6, <2>8, <3>1, RemoveRight
  <2>9. CASE m.parent[n] # NoNode /\ q = TakeOf(x, n) /\ Followed(q, {n})
    <3>1. stay' = StayOf(q, st, {n}) /\ visited' = VisitedOf(vis, stay')
      BY <1>5, <2>9
    <3> QED BY <1>1, <2>2, <2>3, <2>4, <2>5, <2>6, <2>9, <3>1, TakeRight
  <2>10. \/ q = x /\ visited' = vis /\ stay' = st
         \/ m.parent[n] # NoNode /\ q = UnrefOf(TakeOf(x, n), n) /\ Followed(q, {n})
         \/ m.parent[n] # NoNode /\ q = TakeOf(x, n) /\ Followed(q, {n})
    BY <1>1, <1>17, <2>1 DEF IterTake, Stale
  <2> QED BY <2>7, <2>8, <2>9, <2>10
<1>18. CASE UNCHANGED ntVars
  BY <1>1, <1>3, <1>18 DEF ntVars
<1> QED BY <1>7, <1>8, <1>9, <1>10, <1>11, <1>12, <1>13, <1>14, <1>15, <1>16, <1>17, <1>18 DEF NTNext

\* With one iterator on a directory at a time, iso_dir_iter_next() returns no
\* child twice and does not lose its position, and when it ends it has returned
\* all children which were in the directory all the time.
THEOREM IterationAlwaysComplete ==
    ASSUME IterLimit = 1
    PROVE  NTSpec => []IterationIsComplete
<1>1. NTInit => NTInv /\ IterInv
  BY InvStarts, IterStarts
<1>2. NTInv /\ IterInv /\ [NTNext]_ntVars => (NTInv /\ IterInv)'
  BY InvStays, IterStays
<1>3. IterInv => IterationIsComplete
  <2> SUFFICES ASSUME IterInv, NEW i \in Iters
               PROVE  /\ verdict[i] \notin {"twice", "error"}
                      /\ verdict[i] = "end" => stay[i] \subseteq visited[i]
    BY DEF IterationIsComplete
  <2>1. /\ verdict[i] \in {"none", "running", "end", "void"}
        /\ Right(t, i, visited[i], stay[i], verdict[i])
    BY DEF IterInv, AllRight, Histories
  <2>2. "end" # "void" /\ "end" # "none"
    OBVIOUS
  <2> QED BY <2>1, <2>2 DEF Right
<1> QED BY <1>1, <1>2, <1>3, PTL DEF NTSpec
===============================================================================
