----------------------------- MODULE RouteNetProofs -----------------------------
(***************************************************************************)
(* Theorems about the routing of nets for every graph, every sequence of   *)
(* requests and every answer that CheapestPaths lets an engine give: the   *)
(* net that route_net returns is a tree that hangs every reached sink from *)
(* the sources at its distance, whatever the scratch arrays held before.   *)
(***************************************************************************)
EXTENDS RouteNet, CsrGraphLemmas, TLAPS

-----------------------------------------------------------------------------
(* Folds.  FoldLeft is a recursion over the indices; what is proved of it is that it *)
(* passes through the states of a run.                                               *)

\* A set that holds zero and every successor of its members holds every number.
LEMMA NatSet ==
  ASSUME NEW S, 0 \in S, \A n \in Nat : n \in S => n + 1 \in S
  PROVE  \A n \in Nat : n \in S
  <1> DEFINE B == {n \in Nat : n \notin S}
  <1>1. CASE B = {}
    BY <1>1
  <1>2. CASE B # {}
    <2>1. PICK m \in B : \A k \in B : m <= k
      BY <1>2, LeastNat
    <2>2. m # 0 /\ m - 1 \in Nat
      BY <2>1
    <2>3. m - 1 \in S
      BY <2>1, <2>2
    <2>4. m - 1 + 1 \in S
      BY <2>2, <2>3
    <2> QED BY <2>1, <2>2, <2>4
  <1> QED BY <1>1, <1>2

\* The largest member of 1 .. n is n.
LEMMA MaxOfInterval ==
  ASSUME NEW k \in Nat, NEW s \in SUBSET (1 .. k + 1)
  PROVE  /\ k + 1 \in s => Max(s) = k + 1
         /\ k + 1 \notin s => s \in SUBSET (1 .. k)
         /\ s \ {k + 1} \in SUBSET (1 .. k)
  <1>1. ASSUME k + 1 \in s
        PROVE  Max(s) = k + 1
    <2>1. k + 1 \in s /\ \A y \in s : k + 1 >= y
      BY <1>1
    <2>2. \A x \in s : (\A y \in s : x >= y) => x = k + 1
      BY <1>1
    <2> QED BY <2>1, <2>2 DEF Max
  <1> QED BY <1>1

\* A nonempty subset of 1 .. n has a largest member, which Max names.
LEMMA MaxOf ==
  ASSUME NEW n \in Nat, NEW s \in SUBSET (1 .. n), s # {}
  PROVE  Max(s) \in s /\ \A y \in s : y <= Max(s)
  <1> DEFINE B == {n - y : y \in s}
  <1>1. PICK m \in B : \A k \in B : m <= k
    <2>1. \A y \in s : n - y \in Nat
      OBVIOUS
    <2>2. B \in SUBSET Nat /\ B # {}
      BY <2>1
    <2> HIDE DEF B
    <2> QED BY <2>2, LeastNat
  <1>2. PICK x \in s : m = n - x
    BY <1>1
  <1>3. \A y \in s : x >= y
    <2> TAKE y \in s
    <2>1. n - x <= n - y /\ x \in Nat /\ y \in Nat
      BY <1>1, <1>2
    <2> QED BY <2>1
  <1>4. Max(s) \in s /\ \A y \in s : Max(s) >= y
    BY <1>2, <1>3 DEF Max
  <1> QED BY <1>4

(* A fold goes through the values a run of its steps takes, one for each element. *)
Folding(b, g, s, f) == IF s = {} THEN b ELSE g[Max(s)][f[s \ {Max(s)}]]

\* The steps of a left fold over 1 .. n, and what the library's fold over the
\* sets of indices satisfies.
Steps(n, T) == [1 .. n -> [T -> T]]
FoldsTo(f, T, b, n, g) ==
    f \in [SUBSET (1 .. n) -> T] /\ \A s \in SUBSET (1 .. n) : f[s] = Folding(b, g, s, f)
FollowsSteps(f, T, b, n, g) ==
    /\ f[{}] = b
    /\ \A s \in SUBSET (1 .. n) :
          s # {} /\ f[s \ {Max(s)}] \in T => f[s] = g[Max(s)][f[s \ {Max(s)}]]
\* f on the first k indices is the state after k steps.
RunsThrough(f, T, b, n, g) ==
    /\ f[1 .. 0] = b
    /\ \A k \in 1 .. n : f[1 .. k - 1] \in T /\ f[1 .. k] = g[k][f[1 .. k - 1]]
    /\ f[1 .. n] \in T

\* A function that satisfies the equation of the fold exists.
LEMMA FoldExists ==
  \A T : \A b \in T : \A n \in Nat : \A g \in Steps(n, T) : \E f : FoldsTo(f, T, b, n, g)
  <1> SUFFICES ASSUME NEW T, NEW b \in T, NEW n \in Nat, NEW g \in Steps(n, T)
               PROVE  \E f : FoldsTo(f, T, b, n, g)
    OBVIOUS
  <1> SUFFICES \E f \in [SUBSET (1 .. n) -> T] : \A s \in SUBSET (1 .. n) : f[s] = Folding(b, g, s, f)
    BY DEF FoldsTo
  <1> USE DEF Steps
  <1> DEFINE Fold(k) == \E f \in [SUBSET (1 .. k) -> T] : \A s \in SUBSET (1 .. k) : f[s] = Folding(b, g, s, f)
             K == {k \in Nat : k <= n => Fold(k)}
  <1>1. 0 \in K
    <2> DEFINE f == [s \in SUBSET (1 .. 0) |-> b]
    <2>1. SUBSET (1 .. 0) = {{}}
      <3>1. 1 .. 0 = {}
        OBVIOUS
      <3> QED BY <3>1
    <2>2. f \in [SUBSET (1 .. 0) -> T] /\ \A s \in SUBSET (1 .. 0) : f[s] = Folding(b, g, s, f)
      BY <2>1 DEF Folding
    <2>3. Fold(0)
      <3> HIDE DEF f
      <3> QED BY <2>2
    <2> QED BY <2>3
  <1>2. ASSUME NEW k \in Nat, k \in K
        PROVE  k + 1 \in K
    <2>0. (k <= n => Fold(k)) /\ (k + 1 <= n => k <= n)
      <3>1. k + 1 <= n => k <= n
        OBVIOUS
      <3>2. k <= n => Fold(k)
        <4> HIDE DEF Fold
        <4> QED BY <1>2
      <3> QED BY <3>1, <3>2
    <2>1. SUFFICES ASSUME k + 1 <= n PROVE Fold(k + 1)
      <3> HIDE DEF Fold
      <3> QED OBVIOUS
    <2>2. PICK f \in [SUBSET (1 .. k) -> T] : \A s \in SUBSET (1 .. k) : f[s] = Folding(b, g, s, f)
      BY <2>0, <2>1
    <2> DEFINE h == [s \in SUBSET (1 .. k + 1) |-> IF k + 1 \in s THEN g[k + 1][f[s \ {k + 1}]] ELSE f[s]]
    <2>3. h \in [SUBSET (1 .. k + 1) -> T]
      <3>1. ASSUME NEW s \in SUBSET (1 .. k + 1)
            PROVE  (IF k + 1 \in s THEN g[k + 1][f[s \ {k + 1}]] ELSE f[s]) \in T
        <4>1. g[k + 1] \in [T -> T]
          BY <2>1
        <4>2. f[s \ {k + 1}] \in T
          BY MaxOfInterval
        <4>3. k + 1 \notin s => f[s] \in T
          BY MaxOfInterval
        <4> QED BY <4>1, <4>2, <4>3
      <3> QED BY <3>1
    <2>4. ASSUME NEW s \in SUBSET (1 .. k + 1)
          PROVE  h[s] = Folding(b, g, s, h)
      <3>1. CASE k + 1 \in s
        <4>1. Max(s) = k + 1 /\ s # {} /\ s \ {k + 1} \in SUBSET (1 .. k)
          BY <3>1, MaxOfInterval
        <4>2. h[s \ {k + 1}] = f[s \ {k + 1}]
          <5>1. s \ {k + 1} \in SUBSET (1 .. k + 1) /\ k + 1 \notin s \ {k + 1}
            OBVIOUS
          <5> QED BY <5>1
        <4>3. h[s] = g[k + 1][f[s \ {k + 1}]]
          BY <3>1
        <4> HIDE DEF h
        <4> QED BY <4>1, <4>2, <4>3 DEF Folding
      <3>2. CASE k + 1 \notin s
        <4>1. s \in SUBSET (1 .. k)
          BY <3>2, MaxOfInterval
        <4>2. \A x \in SUBSET (1 .. k) : h[x] = f[x]
          BY MaxOfInterval
        <4>3. f[s] = Folding(b, g, s, f)
          BY <2>2, <4>1
        <4>4. s \ {Max(s)} \in SUBSET (1 .. k)
          BY <4>1
        <4> HIDE DEF h
        <4> QED BY <4>1, <4>2, <4>3, <4>4 DEF Folding
      <3> QED BY <3>1, <3>2
    <2> HIDE DEF h
    <2> QED BY <2>3, <2>4
  <1> HIDE DEF K
  <1>3. \A k \in Nat : k \in K
    BY <1>1, <1>2, NatSet
  <1>4. Fold(n)
    <2> HIDE DEF Fold
    <2> QED BY <1>3 DEF K
  <1> QED BY <1>4

\* It passes through the states of the run, one index after the other.
LEMMA FoldRun ==
  \A T : \A b \in T : \A n \in Nat : \A g \in Steps(n, T) : \A f :
     FollowsSteps(f, T, b, n, g) => RunsThrough(f, T, b, n, g)
  <1> SUFFICES ASSUME NEW T, NEW b \in T, NEW n \in Nat, NEW g \in Steps(n, T), NEW f, FollowsSteps(f, T, b, n, g)
               PROVE  RunsThrough(f, T, b, n, g)
    OBVIOUS
  <1>0. f[{}] = b
    BY DEF FollowsSteps
  <1> USE DEF Steps
  <1>00. ASSUME NEW s \in SUBSET (1 .. n), s # {}, f[s \ {Max(s)}] \in T
         PROVE  f[s] = g[Max(s)][f[s \ {Max(s)}]]
    BY <1>00 DEF FollowsSteps
  <1>1. f[1 .. 0] = b
    <2>1. 1 .. 0 = {}
      OBVIOUS
    <2> QED BY <1>0, <2>1
  <1>2. ASSUME NEW k \in Nat, k + 1 <= n, f[1 .. k] \in T
        PROVE  f[1 .. k + 1] = g[k + 1][f[1 .. k]]
    <2>1. 1 .. k + 1 \in SUBSET (1 .. k + 1) /\ k + 1 \in 1 .. k + 1 /\ 1 .. k + 1 \in SUBSET (1 .. n)
      BY <1>2
    <2>2. Max(1 .. k + 1) = k + 1
      BY <2>1, MaxOfInterval
    <2>3. (1 .. k + 1) \ {k + 1} = 1 .. k
      OBVIOUS
    <2>5. 1 .. k + 1 # {}
      BY <2>1
    <2>6. (1 .. k + 1) \ {Max(1 .. k + 1)} = 1 .. k
      BY <2>2, <2>3
    <2> QED BY <1>00, <1>2, <2>1, <2>2, <2>5, <2>6
  <1> DEFINE K == {k \in Nat : k <= n => f[1 .. k] \in T}
  <1>3. 0 \in K
    BY <1>1
  <1>4. ASSUME NEW k \in Nat, k \in K
        PROVE  k + 1 \in K
    <2>1. SUFFICES ASSUME k + 1 <= n PROVE f[1 .. k + 1] \in T
      OBVIOUS
    <2>2. f[1 .. k] \in T /\ g[k + 1] \in [T -> T]
      BY <1>4, <2>1
    <2>3. f[1 .. k + 1] = g[k + 1][f[1 .. k]]
      BY <1>2, <2>1, <2>2
    <2>4. g[k + 1][f[1 .. k]] \in T
      BY <2>2
    <2> QED BY <2>3, <2>4
  <1>5. \A k \in Nat : k \in K
    <2> HIDE DEF K
    <2> QED BY <1>3, <1>4, NatSet
  <1>6. \A k \in Nat : k <= n => f[1 .. k] \in T
    <2> TAKE k \in Nat
    <2>1. k \in K
      <3> HIDE DEF K
      <3> QED BY <1>5
    <2> QED BY <2>1
  <1>7. ASSUME NEW k \in 1 .. n
        PROVE  f[1 .. k - 1] \in T /\ f[1 .. k] = g[k][f[1 .. k - 1]]
    <2>1. k - 1 \in Nat /\ (k - 1) + 1 = k /\ k - 1 <= n /\ k <= n
      OBVIOUS
    <2>3. f[1 .. k - 1] \in T
      BY <1>6, <2>1
    <2>2. f[1 .. (k - 1) + 1] = g[(k - 1) + 1][f[1 .. k - 1]]
      BY <1>2, <2>1, <2>3
    <2> QED BY <2>1, <2>2, <2>3
  <1> QED BY <1>1, <1>6, <1>7 DEF RunsThrough

-----------------------------------------------------------------------------
(* The tree as it grows: add_unique_node over a list of nodes. *)

\* A [seen, nodes] pair that add_unique_node works on.
Tree == [seen : [Vertex -> Nat], nodes : Seq(Vertex)]

\* The nodes listed are the ones marked with the stamp, once each.
Marked(x, st) == IsInjective(x.nodes) /\ \A v \in Vertex : x.seen[v] = st <=> v \in Range(x.nodes)

\* r goes on where s ends.
Prolongs(s, r) == Len(s) <= Len(r) /\ \A i \in 1 .. Len(s) : r[i] = s[i]

\* u is listed before v.
Before(s, u, v) == \E i, j \in 1 .. Len(s) : i < j /\ s[i] = u /\ s[j] = v

\* add_unique_node keeps the list and the marks in step, and only appends.
LEMMA AddUniqueStep ==
  ASSUME NEW x \in Tree, NEW v \in Int, NEW st \in Nat, Marked(x, st)
  PROVE  LET r == AddUnique(x, v, st) IN
         /\ r \in Tree /\ Marked(r, st)
         /\ Range(r.nodes) = Range(x.nodes) \cup ({v} \cap Vertex)
         /\ Prolongs(x.nodes, r.nodes)
         /\ \A u \in Vertex : u # v => r.seen[u] = x.seen[u]
         /\ v \in Vertex \ Range(x.nodes) => r.nodes = Append(x.nodes, v)
  <1>1. CASE v \notin Vertex \/ x.seen[v] = st
    <2>1. AddUnique(x, v, st) = x
      BY <1>1 DEF AddUnique, Valid
    <2>2. v \in Vertex => v \in Range(x.nodes)
      BY <1>1 DEF Marked
    <2>3. Prolongs(x.nodes, x.nodes)
      BY DEF Prolongs, Tree
    <2> QED BY <2>1, <2>2, <2>3
  <1>2. CASE v \in Vertex /\ x.seen[v] # st
    <2> DEFINE n == Len(x.nodes)
               r == [seen |-> [x.seen EXCEPT ![v] = st], nodes |-> Append(x.nodes, v)]
    <2>1. AddUnique(x, v, st) = r
      BY <1>2 DEF AddUnique, Valid
    <2>2. x.seen \in [Vertex -> Nat] /\ x.nodes \in Seq(Vertex) /\ n \in Nat /\ DOMAIN x.nodes = 1 .. n
      BY DEF Tree
    <2>3. /\ r.nodes \in Seq(Vertex) /\ Len(r.nodes) = n + 1 /\ DOMAIN r.nodes = 1 .. n + 1
          /\ \A i \in 1 .. n : r.nodes[i] = x.nodes[i]
          /\ r.nodes[n + 1] = v
      BY <1>2, <2>2
    <2>4. v \notin Range(x.nodes)
      BY <1>2 DEF Marked
    <2>5. r \in Tree
      BY <1>2, <2>2, <2>3 DEF Tree
    <2>6. Range(r.nodes) = Range(x.nodes) \cup {v}
      <3>1. \A i \in 1 .. n + 1 : i \in 1 .. n \/ i = n + 1
        BY <2>2
      <3>2. \A i \in 1 .. n : i \in 1 .. n + 1
        BY <2>2
      <3>3. n + 1 \in 1 .. n + 1
        BY <2>2
      <3> QED BY <2>2, <2>3, <3>1, <3>2, <3>3 DEF Range
    <2>7. IsInjective(r.nodes)
      <3>1. ASSUME NEW i \in 1 .. n + 1, NEW j \in 1 .. n + 1, r.nodes[i] = r.nodes[j]
            PROVE  i = j
        <4>1. (i \in 1 .. n \/ i = n + 1) /\ (j \in 1 .. n \/ j = n + 1)
          BY <2>2
        <4>2. \A k \in 1 .. n : x.nodes[k] # v
          BY <2>2, <2>4 DEF Range
        <4>3. CASE i \in 1 .. n /\ j \in 1 .. n
          BY <2>2, <2>3, <3>1, <4>3 DEF Marked, IsInjective
        <4> QED BY <2>3, <3>1, <4>1, <4>2, <4>3
      <3> QED BY <2>3, <3>1 DEF IsInjective
    <2>8. \A u \in Vertex : r.seen[u] = IF u = v THEN st ELSE x.seen[u]
      BY <2>2
    <2>9. \A u \in Vertex : r.seen[u] = st <=> u \in Range(r.nodes)
      BY <2>6, <2>8 DEF Marked
    <2>10. Prolongs(x.nodes, r.nodes)
      BY <2>2, <2>3 DEF Prolongs
    <2>11. {v} \cap Vertex = {v} /\ r.nodes = Append(x.nodes, v)
      BY <1>2
    <2> HIDE DEF r
    <2> QED BY <2>1, <2>5, <2>6, <2>7, <2>8, <2>9, <2>10, <2>11 DEF Marked
  <1> QED BY <1>1, <1>2

\* Adding a list of nodes is a run of add_unique_node over it.
LEMMA AddAllRun ==
  ASSUME NEW tree \in Tree, NEW nodes \in Seq(Int), NEW st \in Nat
  PROVE  \E run : /\ run[0] = tree /\ run[Len(nodes)] = AddAll(tree, nodes, st)
                  /\ \A k \in 1 .. Len(nodes) :
                        run[k - 1] \in Tree /\ run[k] = AddUnique(run[k - 1], nodes[k], st)
  <1> DEFINE n == Len(nodes)
             step(i) == [x \in Tree |-> AddUnique(x, nodes[i], st)]
             g == [i \in 1 .. n |-> step(i)]
             Eq(f) == f = [s \in SUBSET DOMAIN nodes |->
                             IF s = {} THEN tree ELSE AddUnique(f[s \ {Max(s)}], nodes[Max(s)], st)]
             iter == CHOOSE f : Eq(f)
  <1>1. n \in Nat /\ DOMAIN nodes = 1 .. n /\ \A i \in 1 .. n : nodes[i] \in Int
    OBVIOUS
  <1>2. AddAll(tree, nodes, st) = iter[DOMAIN nodes]
    BY DEF AddAll, FoldLeft, MapThenFoldSet
  <1>3. \A x \in Tree : \A i \in 1 .. n : AddUnique(x, nodes[i], st) \in Tree
    <2> TAKE x \in Tree
    <2> TAKE i \in 1 .. n
    <2>1. nodes[i] \in Vertex => Append(x.nodes, nodes[i]) \in Seq(Vertex) /\ [x.seen EXCEPT ![nodes[i]] = st] \in [Vertex -> Nat]
      BY DEF Tree
    <2> QED BY <2>1 DEF AddUnique, Tree, Valid
  <1>4. g \in [1 .. n -> [Tree -> Tree]]
    <2>1. \A i \in 1 .. n : step(i) \in [Tree -> Tree]
      BY <1>3
    <2> QED BY <2>1
  <1>5. \A x \in Tree : \A i \in 1 .. n : g[i][x] = AddUnique(x, nodes[i], st)
    OBVIOUS
  <1>6. \E f : Eq(f)
    <2>1. PICK f \in [SUBSET (1 .. n) -> Tree] : \A s \in SUBSET (1 .. n) : f[s] = Folding(tree, g, s, f)
      <3>1. n \in Nat /\ tree \in Tree
        OBVIOUS
      <3>2. g \in Steps(n, Tree)
        BY <1>4 DEF Steps
      <3> HIDE DEF g, n
      <3>3. \E f : FoldsTo(f, Tree, tree, n, g)
        BY <3>1, <3>2, FoldExists
      <3> QED BY <3>3 DEF FoldsTo
    <2>2. ASSUME NEW s \in SUBSET (1 .. n)
          PROVE  f[s] = IF s = {} THEN tree ELSE AddUnique(f[s \ {Max(s)}], nodes[Max(s)], st)
      <3>1. s # {} => Max(s) \in 1 .. n
        BY <1>1, MaxOf
      <3>2. f[s \ {Max(s)}] \in Tree
        BY <2>1
      <3>3. f[s] = Folding(tree, g, s, f)
        BY <2>1
      <3> HIDE DEF g
      <3> QED BY <1>5, <3>1, <3>2, <3>3 DEF Folding
    <2>3. Eq(f)
      BY <1>1, <2>1, <2>2
    <2> QED BY <2>3
  <1>7. Eq(iter)
    <2> HIDE DEF Eq
    <2> QED BY <1>6
  <1>8. /\ iter[{}] = tree
        /\ \A s \in SUBSET (1 .. n) :
              s # {} => iter[s] = AddUnique(iter[s \ {Max(s)}], nodes[Max(s)], st)
    <2> HIDE DEF iter
    <2>1. {} \in SUBSET (1 .. n)
      OBVIOUS
    <2> QED BY <1>1, <1>7, <2>1
  <1>9. \A s \in SUBSET (1 .. n) :
           s # {} /\ iter[s \ {Max(s)}] \in Tree => iter[s] = g[Max(s)][iter[s \ {Max(s)}]]
    <2> TAKE s \in SUBSET (1 .. n)
    <2>1. s # {} => Max(s) \in 1 .. n
      BY <1>1, MaxOf
    <2> HIDE DEF iter, g
    <2> QED BY <1>5, <1>8, <2>1
  <1>10. /\ iter[1 .. 0] = tree
         /\ \A k \in 1 .. n : iter[1 .. k - 1] \in Tree /\ iter[1 .. k] = g[k][iter[1 .. k - 1]]
    <2>1. n \in Nat /\ tree \in Tree
      OBVIOUS
    <2>2. g \in Steps(n, Tree)
      BY <1>4 DEF Steps
    <2> HIDE DEF iter, g, n
    <2>3. FollowsSteps(iter, Tree, tree, n, g)
      BY <1>8, <1>9 DEF FollowsSteps
    <2>4. RunsThrough(iter, Tree, tree, n, g)
      BY <2>1, <2>2, <2>3, FoldRun
    <2> QED BY <2>4 DEF RunsThrough
  <1> DEFINE run == [k \in 0 .. n |-> iter[1 .. k]]
  <1>11. run[0] = tree /\ run[n] = AddAll(tree, nodes, st)
    <2> HIDE DEF iter
    <2> QED BY <1>1, <1>2, <1>10
  <1>12. \A k \in 1 .. n : run[k - 1] \in Tree /\ run[k] = AddUnique(run[k - 1], nodes[k], st)
    <2> TAKE k \in 1 .. n
    <2>1. k - 1 \in 0 .. n /\ k \in 0 .. n
      OBVIOUS
    <2>2. run[k - 1] = iter[1 .. k - 1] /\ run[k] = iter[1 .. k]
      BY <2>1
    <2> HIDE DEF iter, run, g
    <2> QED BY <1>5, <1>10, <2>2
  <1> HIDE DEF run
  <1> QED BY <1>11, <1>12

\* What precedes in a list precedes in every prolongation.
LEMMA BeforeProlonged ==
  ASSUME NEW s \in Seq(Vertex), NEW r \in Seq(Vertex), Prolongs(s, r), NEW u, NEW v, Before(s, u, v)
  PROVE  Before(r, u, v)
  <1>1. PICK i \in 1 .. Len(s), j \in 1 .. Len(s) : i < j /\ s[i] = u /\ s[j] = v
    BY DEF Before
  <1>2. i \in 1 .. Len(r) /\ j \in 1 .. Len(r) /\ r[i] = u /\ r[j] = v
    BY <1>1 DEF Prolongs
  <1> QED BY <1>1, <1>2 DEF Before

\* Prolonging is transitive.
LEMMA ProlongsTwice ==
  ASSUME NEW s \in Seq(Vertex), NEW q \in Seq(Vertex), NEW r \in Seq(Vertex),
         Prolongs(s, q), Prolongs(q, r)
  PROVE  Prolongs(s, r)
  <1>1. Len(s) \in Nat /\ Len(q) \in Nat /\ Len(r) \in Nat /\ Len(s) <= Len(q) /\ Len(q) <= Len(r)
    BY DEF Prolongs
  <1>2. ASSUME NEW i \in 1 .. Len(s)
        PROVE  r[i] = s[i]
    <2>1. i \in 1 .. Len(q)
      BY <1>1
    <2> QED BY <2>1 DEF Prolongs
  <1> QED BY <1>1, <1>2 DEF Prolongs

\* What is appended comes after everything.
LEMMA BeforeLast ==
  ASSUME NEW s \in Seq(Vertex), NEW u \in Range(s), NEW v \in Vertex
  PROVE  Before(Append(s, v), u, v)
  <1>1. PICK i \in 1 .. Len(s) : s[i] = u
    BY DEF Range
  <1>2. Len(s) \in Nat /\ Len(Append(s, v)) = Len(s) + 1 /\ Append(s, v)[i] = u /\ Append(s, v)[Len(s) + 1] = v
    BY <1>1
  <1>3. i \in 1 .. Len(Append(s, v)) /\ Len(s) + 1 \in 1 .. Len(Append(s, v)) /\ i < Len(s) + 1
    BY <1>2
  <1> QED BY <1>2, <1>3 DEF Before

\* The k-th of the nodes is not in the tree, nor among those before it.
Fresh(tree, nodes, k) ==
    nodes[k] \in Vertex \ Range(tree.nodes) /\ \A i \in 1 .. k - 1 : nodes[i] # nodes[k]

\* The tree after the first k nodes.
Joined(x, tree, nodes, k, st) ==
    /\ x \in Tree /\ Marked(x, st)
    /\ Range(x.nodes) = Range(tree.nodes) \cup ({nodes[j] : j \in 1 .. k} \cap Vertex)
    /\ \A u \in Vertex : x.seen[u] = tree.seen[u] \/ x.seen[u] = st
    /\ Prolongs(tree.nodes, x.nodes)
    /\ \A j \in 1 .. k - 1 :
          nodes[j] \in Vertex /\ Fresh(tree, nodes, j + 1) => Before(x.nodes, nodes[j], nodes[j + 1])

\* One more node joined.
LEMMA JoinedStep ==
  ASSUME NEW tree \in Tree, NEW nodes \in Seq(Int), NEW st \in Nat, NEW k \in Nat, k + 1 <= Len(nodes),
         NEW x, Joined(x, tree, nodes, k, st)
  PROVE  Joined(AddUnique(x, nodes[k + 1], st), tree, nodes, k + 1, st)
  <1> DEFINE v == nodes[k + 1]
             r == AddUnique(x, v, st)
  <1>1. k + 1 \in 1 .. Len(nodes) /\ v \in Int /\ x \in Tree /\ Marked(x, st)
    BY DEF Joined
  <1>2. /\ r \in Tree /\ Marked(r, st)
        /\ Range(r.nodes) = Range(x.nodes) \cup ({v} \cap Vertex)
        /\ Prolongs(x.nodes, r.nodes)
        /\ \A u \in Vertex : u # v => r.seen[u] = x.seen[u]
        /\ v \in Vertex \ Range(x.nodes) => r.nodes = Append(x.nodes, v)
    BY <1>1, AddUniqueStep
  <1>3. x.nodes \in Seq(Vertex) /\ r.nodes \in Seq(Vertex) /\ tree.nodes \in Seq(Vertex)
    BY <1>1, <1>2 DEF Tree
  <1> HIDE DEF r
  <1>4. Range(r.nodes) = Range(tree.nodes) \cup ({nodes[j] : j \in 1 .. k + 1} \cap Vertex)
    <2>1. {nodes[j] : j \in 1 .. k + 1} = {nodes[j] : j \in 1 .. k} \cup {v}
      <3>1. \A j \in 1 .. k + 1 : j \in 1 .. k \/ j = k + 1
        OBVIOUS
      <3>2. \A j \in 1 .. k : j \in 1 .. k + 1
        OBVIOUS
      <3>3. k + 1 \in 1 .. k + 1
        OBVIOUS
      <3> QED BY <3>1, <3>2, <3>3
    <2>2. Range(x.nodes) = Range(tree.nodes) \cup ({nodes[j] : j \in 1 .. k} \cap Vertex)
      BY DEF Joined
    <2> QED BY <1>2, <2>1, <2>2
  <1>5. ASSUME NEW u \in Vertex
        PROVE  r.seen[u] = tree.seen[u] \/ r.seen[u] = st
    <2>1. CASE u = v
      <3>1. u \in Range(r.nodes)
        BY <1>2, <2>1
      <3> QED BY <1>2, <3>1 DEF Marked
    <2>2. CASE u # v
      BY <1>2, <2>2 DEF Joined
    <2> QED BY <2>1, <2>2
  <1>6. Prolongs(tree.nodes, r.nodes)
    <2>1. Prolongs(tree.nodes, x.nodes)
      BY DEF Joined
    <2> QED BY <1>2, <1>3, <2>1, ProlongsTwice
  <1>7. ASSUME NEW j \in 1 .. (k + 1) - 1, nodes[j] \in Vertex, Fresh(tree, nodes, j + 1)
        PROVE  Before(r.nodes, nodes[j], nodes[j + 1])
    <2>1. CASE j \in 1 .. k - 1
      <3>1. Before(x.nodes, nodes[j], nodes[j + 1])
        BY <1>7, <2>1 DEF Joined
      <3> QED BY <1>2, <1>3, <3>1, BeforeProlonged
    <2>2. CASE j \notin 1 .. k - 1
      <3>1. j = k /\ k \in 1 .. k /\ k \in Nat
        BY <2>2
      <3>2. nodes[k] \in Range(x.nodes)
        BY <1>7, <3>1 DEF Joined
      <3>3. v \in Vertex \ Range(x.nodes)
        <4>1. v \in Vertex \ Range(tree.nodes) /\ \A i \in 1 .. k : nodes[i] # v
          BY <1>7, <3>1 DEF Fresh
        <4> QED BY <4>1 DEF Joined
      <3>4. r.nodes = Append(x.nodes, v)
        BY <1>2, <3>3
      <3>7. Before(r.nodes, nodes[k], v)
        BY <1>3, <3>2, <3>3, <3>4, BeforeLast
      <3> QED BY <3>1, <3>7
    <2> QED BY <2>1, <2>2
  <1>8. Joined(r, tree, nodes, k + 1, st)
    BY <1>2, <1>4, <1>5, <1>6, <1>7 DEF Joined
  <1> QED BY <1>8 DEF r

\* What adding a list of nodes to a tree makes of it.
LEMMA AddAllResult ==
  ASSUME NEW tree \in Tree, NEW nodes \in Seq(Int), NEW st \in Nat, Marked(tree, st)
  PROVE  Joined(AddAll(tree, nodes, st), tree, nodes, Len(nodes), st)
  <1>1. PICK run : /\ run[0] = tree /\ run[Len(nodes)] = AddAll(tree, nodes, st)
                   /\ \A k \in 1 .. Len(nodes) :
                         run[k - 1] \in Tree /\ run[k] = AddUnique(run[k - 1], nodes[k], st)
    BY AddAllRun
  <1> DEFINE K == {k \in Nat : k <= Len(nodes) => Joined(run[k], tree, nodes, k, st)}
  <1>2. 0 \in K
    <2>1. tree.nodes \in Seq(Vertex)
      BY DEF Tree
    <2>2. Prolongs(tree.nodes, tree.nodes)
      BY <2>1 DEF Prolongs
    <2>3. 1 .. 0 = {} /\ 1 .. 0 - 1 = {}
      OBVIOUS
    <2>4. {nodes[j] : j \in 1 .. 0} = {}
      BY <2>3
    <2>5. Joined(tree, tree, nodes, 0, st)
      BY <2>2, <2>3, <2>4 DEF Joined
    <2> QED BY <1>1, <2>5
  <1>3. ASSUME NEW k \in Nat, k \in K
        PROVE  k + 1 \in K
    <2>1. SUFFICES ASSUME k + 1 <= Len(nodes) PROVE Joined(run[k + 1], tree, nodes, k + 1, st)
      OBVIOUS
    <2>2. Joined(run[k], tree, nodes, k, st)
      BY <1>3, <2>1
    <2>3. k + 1 \in 1 .. Len(nodes) /\ (k + 1) - 1 = k
      BY <2>1
    <2>4. run[k + 1] = AddUnique(run[k], nodes[k + 1], st)
      BY <1>1, <2>3
    <2> QED BY <2>1, <2>2, <2>4, JoinedStep
  <1>4. \A k \in Nat : k \in K
    <2> HIDE DEF K
    <2> QED BY <1>2, <1>3, NatSet
  <1>5. Len(nodes) \in K
    <2> HIDE DEF K
    <2> QED BY <1>4
  <1> QED BY <1>1, <1>5

-----------------------------------------------------------------------------
(* Paths and their costs. *)

\* The weight of an edge is a cost.
LEMMA UnitWeight ==
  ASSUME NEW e \in Edge
  PROVE  EffectiveWeight(e, Unit) \in Cost /\ EffectiveWeight(e, Unit) \in Nat
  <1>1. Unit \in [Vertex -> Nat]
    BY DEF Unit
  <1> QED BY <1>1, WeightType, CostEnds

\* What a path costs up to each of its edges.
CostsAlong(run, p) ==
    /\ run[0] = 0 /\ run[Len(p)] = PathCost(p)
    /\ \A k \in 1 .. Len(p) : run[k - 1] \in Cost /\ run[k] = Saturate(run[k - 1] + EffectiveWeight(p[k], Unit))

\* The cost of a path is a run along its edges.
LEMMA PathCostRun ==
  ASSUME NEW p \in Seq(Edge)
  PROVE  \E run : CostsAlong(run, p)
  <1> DEFINE n == Len(p)
             step(i) == [c \in Cost |-> Saturate(c + EffectiveWeight(p[i], Unit))]
             g == [i \in 1 .. n |-> step(i)]
             Eq(f) == f = [s \in SUBSET DOMAIN p |->
                             IF s = {} THEN 0
                             ELSE Saturate(f[s \ {Max(s)}] + EffectiveWeight(p[Max(s)], Unit))]
             iter == CHOOSE f : Eq(f)
  <1>1. n \in Nat /\ DOMAIN p = 1 .. n /\ \A i \in 1 .. n : p[i] \in Edge
    OBVIOUS
  <1>2. PathCost(p) = iter[DOMAIN p]
    BY DEF PathCost, FoldLeft, MapThenFoldSet
  <1>3. \A c \in Cost : \A i \in 1 .. n : Saturate(c + EffectiveWeight(p[i], Unit)) \in Cost
    <2> TAKE c \in Cost
    <2> TAKE i \in 1 .. n
    <2>1. c + EffectiveWeight(p[i], Unit) \in Nat
      BY <1>1, UnitWeight, CostEnds
    <2> QED BY <2>1, SaturateType
  <1>4. g \in Steps(n, Cost)
    <2>1. \A i \in 1 .. n : step(i) \in [Cost -> Cost]
      BY <1>3
    <2> QED BY <2>1 DEF Steps
  <1>5. \A c \in Cost : \A i \in 1 .. n : g[i][c] = Saturate(c + EffectiveWeight(p[i], Unit))
    OBVIOUS
  <1>50. 0 \in Cost /\ n \in Nat
    BY CostEnds
  <1>6. \E f : Eq(f)
    <2>1. PICK f : FoldsTo(f, Cost, 0, n, g)
      <3> HIDE DEF g, n
      <3> QED BY <1>4, <1>50, FoldExists
    <2>2. ASSUME NEW s \in SUBSET (1 .. n)
          PROVE  f[s] = IF s = {} THEN 0
                        ELSE Saturate(f[s \ {Max(s)}] + EffectiveWeight(p[Max(s)], Unit))
      <3>1. s # {} => Max(s) \in 1 .. n
        BY <1>1, MaxOf
      <3>2. f[s \ {Max(s)}] \in Cost
        BY <2>1 DEF FoldsTo
      <3>3. f[s] = Folding(0, g, s, f)
        BY <2>1 DEF FoldsTo
      <3> HIDE DEF g
      <3> QED BY <1>5, <3>1, <3>2, <3>3 DEF Folding
    <2>3. f \in [SUBSET (1 .. n) -> Cost]
      BY <2>1 DEF FoldsTo
    <2>4. Eq(f)
      BY <1>1, <2>2, <2>3
    <2> QED BY <2>4
  <1>7. Eq(iter)
    <2> HIDE DEF Eq
    <2> QED BY <1>6
  <1>8. /\ iter[{}] = 0
        /\ \A s \in SUBSET (1 .. n) :
              s # {} => iter[s] = Saturate(iter[s \ {Max(s)}] + EffectiveWeight(p[Max(s)], Unit))
    <2> HIDE DEF iter
    <2>1. {} \in SUBSET (1 .. n)
      OBVIOUS
    <2> QED BY <1>1, <1>7, <2>1
  <1>9. FollowsSteps(iter, Cost, 0, n, g)
    <2>1. ASSUME NEW s \in SUBSET (1 .. n), s # {}, iter[s \ {Max(s)}] \in Cost
          PROVE  iter[s] = g[Max(s)][iter[s \ {Max(s)}]]
      <3>1. Max(s) \in 1 .. n
        BY <1>1, <2>1, MaxOf
      <3> HIDE DEF iter, g
      <3> QED BY <1>5, <1>8, <2>1, <3>1
    <2> HIDE DEF iter, g
    <2> QED BY <1>8, <2>1 DEF FollowsSteps
  <1>10. RunsThrough(iter, Cost, 0, n, g)
    <2> HIDE DEF iter, g, n
    <2> QED BY <1>4, <1>50, <1>9, FoldRun
  <1> DEFINE run == [k \in 0 .. n |-> iter[1 .. k]]
  <1>11. run[0] = 0 /\ run[n] = PathCost(p)
    <2> HIDE DEF iter
    <2> QED BY <1>1, <1>2, <1>10 DEF RunsThrough
  <1>12. ASSUME NEW k \in 1 .. n
         PROVE  run[k - 1] \in Cost /\ run[k] = Saturate(run[k - 1] + EffectiveWeight(p[k], Unit))
    <2>1. k - 1 \in 0 .. n /\ k \in 0 .. n
      OBVIOUS
    <2>2. run[k - 1] = iter[1 .. k - 1] /\ run[k] = iter[1 .. k]
      BY <2>1
    <2>3. iter[1 .. k - 1] \in Cost /\ iter[1 .. k] = g[k][iter[1 .. k - 1]]
      <3> HIDE DEF iter, g
      <3> QED BY <1>10 DEF RunsThrough
    <2> HIDE DEF iter, run, g
    <2> QED BY <1>5, <2>2, <2>3
  <1> HIDE DEF run
  <1> QED BY <1>11, <1>12 DEF CostsAlong

\* A prefix of a path costs what the run along the path has reached there.
LEMMA CostsAgree ==
  ASSUME NEW p \in Seq(Edge), NEW q \in Seq(Edge), Prolongs(q, p),
         NEW r, NEW s, CostsAlong(r, p), CostsAlong(s, q)
  PROVE  \A k \in 0 .. Len(q) : r[k] = s[k] /\ r[k] \in Cost
  <1> DEFINE K == {k \in Nat : k <= Len(q) => r[k] = s[k] /\ r[k] \in Cost}
  <1>0. Len(q) \in Nat /\ Len(p) \in Nat /\ Len(q) <= Len(p) /\ \A i \in 1 .. Len(q) : p[i] = q[i]
    BY DEF Prolongs
  <1>1. 0 \in K
    BY CostEnds DEF CostsAlong
  <1>2. ASSUME NEW k \in Nat, k \in K
        PROVE  k + 1 \in K
    <2>1. SUFFICES ASSUME k + 1 <= Len(q) PROVE r[k + 1] = s[k + 1] /\ r[k + 1] \in Cost
      OBVIOUS
    <2>2. k + 1 \in 1 .. Len(q) /\ k + 1 \in 1 .. Len(p) /\ (k + 1) - 1 = k
      BY <1>0, <2>1
    <2>3. r[k] = s[k] /\ r[k] \in Cost
      BY <1>2, <2>1
    <2>4. /\ r[k + 1] = Saturate(r[k] + EffectiveWeight(p[k + 1], Unit))
          /\ s[k + 1] = Saturate(s[k] + EffectiveWeight(q[k + 1], Unit))
      BY <2>2 DEF CostsAlong
    <2>5. p[k + 1] = q[k + 1] /\ p[k + 1] \in Edge
      BY <1>0, <2>2
    <2>6. r[k] + EffectiveWeight(p[k + 1], Unit) \in Nat
      BY <2>3, <2>5, UnitWeight, CostEnds
    <2> QED BY <2>3, <2>4, <2>5, <2>6, SaturateType
  <1>3. \A k \in Nat : k \in K
    <2> HIDE DEF K
    <2> QED BY <1>1, <1>2, NatSet
  <1> QED BY <1>3

\* A path costs what its prefix costs and its last edge, saturated.
LEMMA PathCosts ==
  /\ PathCost(NoPath) = 0
  /\ \A p \in Seq(Edge) : PathCost(p) \in Cost
  /\ \A p \in Seq(Edge) : \A n \in 1 .. Len(p) :
        /\ SubSeq(p, 1, n) \in Seq(Edge) /\ SubSeq(p, 1, n - 1) \in Seq(Edge)
        /\ PathCost(SubSeq(p, 1, n)) =
             Saturate(PathCost(SubSeq(p, 1, n - 1)) + EffectiveWeight(p[n], Unit))
  <1>1. PathCost(NoPath) = 0
    <2>1. NoPath \in Seq(Edge) /\ Len(NoPath) = 0
      BY DEF NoPath
    <2>2. PICK r : CostsAlong(r, NoPath)
      BY <2>1, PathCostRun
    <2> QED BY <2>1, <2>2 DEF CostsAlong
  <1>2. ASSUME NEW p \in Seq(Edge), NEW n \in 0 .. Len(p)
        PROVE  SubSeq(p, 1, n) \in Seq(Edge) /\ Len(SubSeq(p, 1, n)) = n /\ Prolongs(SubSeq(p, 1, n), p)
    <2>1. /\ SubSeq(p, 1, n) \in Seq(Edge) /\ Len(SubSeq(p, 1, n)) = n
          /\ \A i \in 1 .. n : SubSeq(p, 1, n)[i] = p[i]
      OBVIOUS
    <2> QED BY <2>1 DEF Prolongs
  <1>3. ASSUME NEW p \in Seq(Edge), NEW r, CostsAlong(r, p), NEW n \in 0 .. Len(p)
        PROVE  PathCost(SubSeq(p, 1, n)) = r[n] /\ r[n] \in Cost
    <2>1. PICK s : CostsAlong(s, SubSeq(p, 1, n))
      BY <1>2, PathCostRun
    <2>2. s[n] = PathCost(SubSeq(p, 1, n))
      BY <1>2, <2>1 DEF CostsAlong
    <2>3. \A k \in 0 .. n : r[k] = s[k] /\ r[k] \in Cost
      BY <1>2, <1>3, <2>1, CostsAgree
    <2>4. n \in 0 .. n
      OBVIOUS
    <2> QED BY <2>2, <2>3, <2>4
  <1>4. ASSUME NEW p \in Seq(Edge)
        PROVE  PathCost(p) \in Cost
    <2>1. PICK r : CostsAlong(r, p)
      BY PathCostRun
    <2>2. Len(p) \in 0 .. Len(p)
      OBVIOUS
    <2>3. r[Len(p)] \in Cost
      BY <1>3, <2>1, <2>2
    <2> QED BY <2>1, <2>3 DEF CostsAlong
  <1>5. ASSUME NEW p \in Seq(Edge), NEW n \in 1 .. Len(p)
        PROVE  /\ SubSeq(p, 1, n) \in Seq(Edge) /\ SubSeq(p, 1, n - 1) \in Seq(Edge)
               /\ PathCost(SubSeq(p, 1, n)) =
                    Saturate(PathCost(SubSeq(p, 1, n - 1)) + EffectiveWeight(p[n], Unit))
    <2>1. PICK r : CostsAlong(r, p)
      BY PathCostRun
    <2>2. n \in 0 .. Len(p) /\ n - 1 \in 0 .. Len(p)
      OBVIOUS
    <2>3. PathCost(SubSeq(p, 1, n)) = r[n] /\ PathCost(SubSeq(p, 1, n - 1)) = r[n - 1]
      BY <1>3, <2>1, <2>2
    <2>4. r[n] = Saturate(r[n - 1] + EffectiveWeight(p[n], Unit))
      BY <2>1 DEF CostsAlong
    <2> QED BY <1>2, <2>2, <2>3, <2>4
  <1> QED BY <1>1, <1>4, <1>5

\* What a simple path consists of.
LEMMA SimplePathFacts ==
  ASSUME NEW p \in SimplePaths
  PROVE  /\ p \in Seq(Edge) /\ Len(p) \in Nat /\ 1 \in 1 .. Len(p) /\ Len(p) \in 1 .. Len(p)
         /\ p # NoPath
         /\ \A i \in 1 .. Len(p) : p[i] \in Edge /\ to[p[i]] \in Vertex
         /\ Simple(p)
  <1>1. PICK n \in 1 .. Rows - 1 : p \in [1 .. n -> Edge] /\ Simple(p)
    BY DEF SimplePaths
  <1>2. n \in Nat /\ n >= 1 /\ p \in Seq(Edge) /\ Len(p) = n
    BY <1>1, GraphTypes
  <1>3. \A i \in 1 .. Len(p) : p[i] \in Edge /\ to[p[i]] \in Vertex
    BY <1>1, <1>2, GraphTypes
  <1>4. Len(NoPath) = 0
    BY DEF NoPath
  <1>5. p # NoPath
    BY <1>2, <1>4
  <1> QED BY <1>1, <1>2, <1>3, <1>5

\* The distance of a node: what its cheapest paths cost.
Distance(v, S, A) == IF v \in S THEN 0 ELSE PathCost(CHOOSE p \in Cheapest(S, v, A) : TRUE)

\* An edge by which a settled node hangs from another.
Tight(e, S, A) ==
    /\ to[e] \notin S /\ Cheapest(S, to[e], A) # {} /\ Distance(to[e], S, A) # Inf
    /\ Distance(to[e], S, A) = Saturate(Distance(SourceForEdge(e), S, A) + EffectiveWeight(e, Unit))

\* A cheapest path of a node has the node's distance.
LEMMA CheapestFacts ==
  ASSUME NEW S, NEW A, NEW v, NEW p \in Cheapest(S, v, A)
  PROVE  /\ p \in SimplePaths /\ PathSource(p) \in S /\ to[p[Len(p)]] = v /\ PathCost(p) # Inf
         /\ \A i \in 1 .. Len(p) : to[p[i]] \notin S
         /\ v \notin S
         /\ Distance(v, S, A) = PathCost(p) /\ Distance(v, S, A) \in Cost
  <1>1. ASSUME NEW q \in Cheapest(S, v, A)
        PROVE  /\ q \in SimplePaths /\ PathSource(q) \in S /\ to[q[Len(q)]] = v /\ PathCost(q) # Inf
               /\ \A i \in 1 .. Len(q) : to[q[i]] \notin S
               /\ PathCost(q) \in Cost
               /\ \A r \in Cheapest(S, v, A) : PathCost(q) <= PathCost(r)
    <2>1. q \in Admissible(S, v, A) /\ \A r \in Cheapest(S, v, A) : PathCost(q) <= PathCost(r)
      BY DEF Cheapest
    <2>2. q \in SimplePaths
      BY <2>1 DEF Admissible
    <2>3. PathCost(q) \in Cost
      BY <2>2, SimplePathFacts, PathCosts
    <2> QED BY <2>1, <2>2, <2>3 DEF Admissible, Last, Relaxable
  <1>2. v \notin S
    BY <1>1, SimplePathFacts
  <1> DEFINE c == CHOOSE q \in Cheapest(S, v, A) : TRUE
  <1>3. c \in Cheapest(S, v, A)
    OBVIOUS
  <1> HIDE DEF c
  <1>4. PathCost(c) <= PathCost(p) /\ PathCost(p) <= PathCost(c) /\ PathCost(c) \in Cost /\ PathCost(p) \in Cost
    BY <1>1, <1>3
  <1>5. PathCost(c) = PathCost(p)
    BY <1>4, CostEnds
  <1>6. Distance(v, S, A) = PathCost(p)
    BY <1>2, <1>5 DEF Distance, c
  <1> QED BY <1>1, <1>2, <1>4, <1>6

\* A settled path consists of edges by which settled nodes hang.
LEMMA SettledTight ==
  ASSUME NEW S, NEW A, NEW t \in Vertex, NEW p \in Settled(S, t, A)
  PROVE  /\ p \in Cheapest(S, t, A) /\ p \in SimplePaths /\ PathSource(p) \in S
         /\ \A i \in 1 .. Len(p) : Tight(p[i], S, A)
  <1>1. /\ p \in Cheapest(S, t, A)
        /\ \A n \in 1 .. Len(p) : to[p[n]] \in Vertex => SubSeq(p, 1, n) \in Cheapest(S, to[p[n]], A)
    BY DEF Settled
  <1>2. p \in SimplePaths /\ PathSource(p) \in S /\ \A i \in 1 .. Len(p) : to[p[i]] \notin S
    BY <1>1, CheapestFacts
  <1>3. p \in Seq(Edge) /\ Simple(p) /\ \A i \in 1 .. Len(p) : p[i] \in Edge /\ to[p[i]] \in Vertex
    BY <1>2, SimplePathFacts
  <1>4. ASSUME NEW n \in 1 .. Len(p)
        PROVE  /\ SubSeq(p, 1, n) \in Cheapest(S, to[p[n]], A)
               /\ Distance(to[p[n]], S, A) = PathCost(SubSeq(p, 1, n))
               /\ Distance(to[p[n]], S, A) # Inf
    <2>1. SubSeq(p, 1, n) \in Cheapest(S, to[p[n]], A)
      BY <1>1, <1>3
    <2> QED BY <2>1, CheapestFacts
  <1>5. ASSUME NEW n \in 1 .. Len(p)
        PROVE  Distance(SourceForEdge(p[n]), S, A) = PathCost(SubSeq(p, 1, n - 1))
    <2>1. CASE n = 1
      <3>1. SubSeq(p, 1, n - 1) = NoPath
        BY <1>3, <2>1 DEF NoPath
      <3>2. SourceForEdge(p[n]) \in S
        BY <1>2, <2>1 DEF PathSource
      <3> QED BY <3>1, <3>2, PathCosts DEF Distance
    <2>2. CASE n # 1
      <3>1. n - 1 \in 1 .. Len(p) /\ n > 1
        BY <1>3, <2>2
      <3>2. SourceForEdge(p[n]) = to[p[n - 1]]
        BY <1>3, <3>1 DEF Simple
      <3> QED BY <1>4, <3>1, <3>2
    <2> QED BY <2>1, <2>2
  <1>6. ASSUME NEW n \in 1 .. Len(p)
        PROVE  Tight(p[n], S, A)
    <2>1. PathCost(SubSeq(p, 1, n)) = Saturate(PathCost(SubSeq(p, 1, n - 1)) + EffectiveWeight(p[n], Unit))
      BY <1>3, PathCosts
    <2>2. /\ Cheapest(S, to[p[n]], A) # {} /\ Distance(to[p[n]], S, A) # Inf
          /\ Distance(to[p[n]], S, A) = PathCost(SubSeq(p, 1, n))
      BY <1>4
    <2>3. Distance(SourceForEdge(p[n]), S, A) = PathCost(SubSeq(p, 1, n - 1))
      BY <1>5
    <2> QED BY <1>2, <2>1, <2>2, <2>3 DEF Tight
  <1> QED BY <1>1, <1>2, <1>6

-----------------------------------------------------------------------------
(* The tree as a whole, and the way up from a node. *)

\* u is the run of the steps g from b.
Climbs(u, T, b, n, g) ==
    u \in [0 .. n -> T] /\ u[0] = b /\ \A k \in 1 .. n : u[k] = g[k][u[k - 1]]

\* Every sequence of steps has a run.
LEMMA ClimbExists ==
  \A T : \A b \in T : \A n \in Nat : \A g \in Steps(n, T) : \E u : Climbs(u, T, b, n, g)
  <1> SUFFICES ASSUME NEW T, NEW b \in T, NEW n \in Nat, NEW g \in Steps(n, T)
               PROVE  \E u : Climbs(u, T, b, n, g)
    OBVIOUS
  <1>1. PICK f : FoldsTo(f, T, b, n, g)
    BY FoldExists
  <1>2. FollowsSteps(f, T, b, n, g)
    <2>1. {} \in SUBSET (1 .. n)
      OBVIOUS
    <2>2. \A s \in SUBSET (1 .. n) : f[s] = Folding(b, g, s, f)
      BY <1>1 DEF FoldsTo
    <2>3. f[{}] = b
      BY <2>1, <2>2 DEF Folding
    <2> QED BY <2>2, <2>3 DEF FollowsSteps, Folding
  <1>3. RunsThrough(f, T, b, n, g)
    BY <1>2, FoldRun
  <1> DEFINE u == [k \in 0 .. n |-> f[1 .. k]]
  <1>4. \A k \in 0 .. n : 1 .. k \in SUBSET (1 .. n) /\ f[1 .. k] \in T
    <2> TAKE k \in 0 .. n
    <2>1. 1 .. k \in SUBSET (1 .. n)
      OBVIOUS
    <2> QED BY <1>1, <2>1 DEF FoldsTo
  <1>5. u \in [0 .. n -> T]
    BY <1>4
  <1>6. u[0] = b
    BY <1>3 DEF RunsThrough
  <1>7. ASSUME NEW k \in 1 .. n
        PROVE  u[k] = g[k][u[k - 1]]
    <2>1. k - 1 \in 0 .. n /\ k \in 0 .. n
      OBVIOUS
    <2> QED BY <1>3, <2>1 DEF RunsThrough
  <1> HIDE DEF u
  <1> QED BY <1>5, <1>6, <1>7 DEF Climbs

\* The edges E hang the nodes from the sources, each at its distance.
Hangs(E, nodes, S, A) ==
    /\ E \in SUBSET Edge /\ S \in SUBSET Vertex
    /\ nodes \in Seq(Vertex) /\ IsInjective(nodes)
    /\ Range(nodes) = S \cup {to[e] : e \in E}
    /\ \A e \in E : Tight(e, S, A) /\ Before(nodes, SourceForEdge(e), to[e])
    /\ \A e, f \in E : to[e] = to[f] => e = f

\* A list that names no node twice is no longer than the graph.
LEMMA ShortEnough ==
  ASSUME NEW nodes \in Seq(Vertex), IsInjective(nodes)
  PROVE  Len(nodes) <= Rows
  <1> DEFINE n == Len(nodes)
  <1>1. n \in Nat /\ nodes \in [1 .. n -> Vertex]
    OBVIOUS
  <1>2. nodes \in Injection(1 .. n, Vertex)
    BY <1>1 DEF IsInjective, Injection
  <1>3. IsFiniteSet(Vertex) /\ Cardinality(Vertex) = Rows
    <2>1. 0 \in Int /\ Rows - 1 \in Int
      BY GraphTypes
    <2>2. IsFiniteSet(0 .. Rows - 1) /\ Cardinality(0 .. Rows - 1) = IF 0 > Rows - 1 THEN 0 ELSE (Rows - 1) - 0 + 1
      BY <2>1, FS_Interval
    <2> QED BY <2>2, GraphTypes DEF Vertex
  <1>4. Cardinality(1 .. n) <= Cardinality(Vertex)
    BY <1>2, <1>3, FS_Injection
  <1>5. Cardinality(1 .. n) = n
    <2>1. Cardinality(1 .. n) = IF 1 > n THEN 0 ELSE n - 1 + 1
      BY <1>1, FS_Interval
    <2> QED BY <1>1, <2>1
  <1> QED BY <1>3, <1>4, <1>5

\* The cost of the way up the tree from a node is the node's distance.
LEMMA RootCostIsDistance ==
  ASSUME NEW n, NEW nodes, NEW S, NEW A, Hangs(TreeEdges(n), nodes, S, A), NEW v \in Range(nodes)
  PROVE  RootCost(n, S, v) = Distance(v, S, A)
  <1> DEFINE E == TreeEdges(n)
             Over(x) == CHOOSE d \in E : to[d] = x
             Leaf(x) == ~\E e \in E : to[e] = x
             Down(h) == [x \in Vertex |->
                            IF x \in S THEN 0 ELSE IF Leaf(x) THEN Inf
                            ELSE Saturate(h[SourceForEdge(Over(x))] + EffectiveWeight(Over(x), Unit))]
             Base == [x \in Vertex |-> IF x \in S THEN 0 ELSE Inf]
             Costs == [Vertex -> Cost]
             g == [k \in 1 .. Rows |-> [h \in Costs |-> Down(h)]]
             Eq(u) == u = [k \in 0 .. Rows |->
                             [x \in Vertex |->
                                IF x \in S THEN 0
                                ELSE IF k = 0 \/ ~\E e \in TreeEdges(n) : to[e] = x THEN Inf
                                ELSE LET e == CHOOSE d \in TreeEdges(n) : to[d] = x
                                     IN  Saturate(u[k - 1][SourceForEdge(e)] + EffectiveWeight(e, Unit))]]
             up == CHOOSE u : Eq(u)
  <1>1. RootCost(n, S, v) = up[Rows][v]
    BY DEF RootCost
  <1>2. /\ E \in SUBSET Edge /\ S \in SUBSET Vertex /\ nodes \in Seq(Vertex) /\ IsInjective(nodes)
        /\ Range(nodes) = S \cup {to[e] : e \in E}
        /\ \A e \in E : Tight(e, S, A) /\ Before(nodes, SourceForEdge(e), to[e])
        /\ \A e, f \in E : to[e] = to[f] => e = f
    BY DEF Hangs
  <1> HIDE DEF E
  <1>3. ASSUME NEW e \in E
        PROVE  e \in Edge /\ SourceForEdge(e) \in Vertex /\ to[e] \in Vertex
    <2>1. PICK i \in 1 .. Len(nodes) : nodes[i] = SourceForEdge(e)
      BY <1>2 DEF Before
    <2> QED BY <1>2, <2>1, GraphTypes
  <1>4. \A e \in E : Over(to[e]) = e /\ ~Leaf(to[e])
    BY <1>2
  <1>5. \A x \in Vertex : ~Leaf(x) => Over(x) \in E
    OBVIOUS
  <1>6. ASSUME NEW h \in Costs
        PROVE  Down(h) \in Costs
    <2>1. ASSUME NEW x \in Vertex, ~Leaf(x)
          PROVE  Saturate(h[SourceForEdge(Over(x))] + EffectiveWeight(Over(x), Unit)) \in Cost
      <3>1. Over(x) \in E
        BY <1>5, <2>1
      <3> HIDE DEF Over
      <3>2. Over(x) \in Edge /\ SourceForEdge(Over(x)) \in Vertex
        BY <1>3, <3>1
      <3>3. h[SourceForEdge(Over(x))] + EffectiveWeight(Over(x), Unit) \in Nat
        BY <3>2, UnitWeight, CostEnds
      <3> QED BY <3>3, SaturateType
    <2> HIDE DEF Leaf, Over
    <2> QED BY <2>1, CostEnds
  <1>7. Base \in Costs /\ Rows \in Nat
    BY CostEnds, GraphTypes
  <1>8. g \in Steps(Rows, Costs)
    <2>1. [h \in Costs |-> Down(h)] \in [Costs -> Costs]
      <3> HIDE DEF Down, Costs
      <3> QED BY <1>6
    <2> HIDE DEF Down, Costs
    <2> QED BY <2>1 DEF Steps
  <1>9. PICK u : Climbs(u, Costs, Base, Rows, g)
    <2> HIDE DEF g, Base, Costs
    <2> QED BY <1>7, <1>8, ClimbExists
  <1>10. /\ u \in [0 .. Rows -> Costs] /\ u[0] = Base
         /\ \A k \in 1 .. Rows : u[k - 1] \in Costs /\ u[k] = Down(u[k - 1])
    <2>1. u \in [0 .. Rows -> Costs] /\ u[0] = Base /\ \A k \in 1 .. Rows : u[k] = g[k][u[k - 1]]
      <3> HIDE DEF g, Base, Costs
      <3> QED BY <1>9 DEF Climbs
    <2>2. ASSUME NEW k \in 1 .. Rows
          PROVE  u[k - 1] \in Costs
      <3>1. k - 1 \in 0 .. Rows
        BY <1>7
      <3> HIDE DEF Costs
      <3> QED BY <2>1, <3>1
    <2> HIDE DEF Down, Costs, Base
    <2> QED BY <2>1, <2>2
  <1>11. Eq(u)
    <2> DEFINE Column(k) == [x \in Vertex |->
                                IF x \in S THEN 0
                                ELSE IF k = 0 \/ Leaf(x) THEN Inf
                                ELSE Saturate(u[k - 1][SourceForEdge(Over(x))] + EffectiveWeight(Over(x), Unit))]
    <2>1. ASSUME NEW k \in 0 .. Rows
          PROVE  u[k] = Column(k)
      <3>1. CASE k = 0
        <4> HIDE DEF Leaf, Over
        <4> QED BY <1>10, <3>1
      <3>2. CASE k # 0
        <4>1. k \in 1 .. Rows
          BY <1>7, <3>2
        <4>2. u[k] = Down(u[k - 1])
          BY <1>10, <4>1
        <4> HIDE DEF Leaf, Over
        <4> QED BY <3>2, <4>2
      <3> QED BY <3>1, <3>2
    <2>2. u = [k \in 0 .. Rows |-> Column(k)]
      <3> HIDE DEF Column
      <3> QED BY <1>10, <2>1
    <2> QED BY <2>2 DEF E
  <1>12. Eq(up)
    <2> HIDE DEF Eq
    <2> QED BY <1>11
  <1> HIDE DEF up
  <1>13. ASSUME NEW k \in 0 .. Rows, NEW x \in S
         PROVE  up[k][x] = 0
    <2>1. x \in Vertex
      BY <1>2
    <2> QED BY <1>12, <2>1
  <1>14. ASSUME NEW k \in 1 .. Rows, NEW e \in E
         PROVE  up[k][to[e]] = Saturate(up[k - 1][SourceForEdge(e)] + EffectiveWeight(e, Unit))
    <2>1. to[e] \in Vertex /\ to[e] \notin S /\ k \in 0 .. Rows /\ k # 0
      BY <1>2, <1>3, <1>7 DEF Tight
    <2>2. Over(to[e]) = e /\ ~Leaf(to[e])
      BY <1>4
    <2> DEFINE Cell(m, x) == IF x \in S THEN 0
                             ELSE IF m = 0 \/ Leaf(x) THEN Inf
                             ELSE Saturate(up[m - 1][SourceForEdge(Over(x))] + EffectiveWeight(Over(x), Unit))
    <2>4. up = [m \in 0 .. Rows |-> [x \in Vertex |-> Cell(m, x)]]
      BY <1>12 DEF E
    <2>5. up[k][to[e]] = Cell(k, to[e])
      <3> HIDE DEF Cell
      <3> QED BY <2>1, <2>4
    <2>3. up[k][to[e]] = Saturate(up[k - 1][SourceForEdge(Over(to[e]))] + EffectiveWeight(Over(to[e]), Unit))
      <3> HIDE DEF Leaf, Over
      <3> QED BY <2>1, <2>2, <2>5
    <2> HIDE DEF Over
    <2> QED BY <2>2, <2>3
  <1> DEFINE Right(j) == j \in 1 .. Len(nodes) => \A k \in j .. Rows : up[k][nodes[j]] = Distance(nodes[j], S, A)
             K == {i \in Nat : \A j \in 1 .. i : Right(j)}
  <1> HIDE DEF Eq, Over, Leaf
  <1>15. ASSUME NEW i \in Nat, \A j \in 1 .. i : Right(j)
         PROVE  Right(i + 1)
    <2>1. SUFFICES ASSUME i + 1 \in 1 .. Len(nodes), NEW k \in i + 1 .. Rows
                   PROVE  up[k][nodes[i + 1]] = Distance(nodes[i + 1], S, A)
      OBVIOUS
    <2>2. k \in 0 .. Rows /\ k \in 1 .. Rows
      BY <1>7
    <2>3. nodes[i + 1] \in Range(nodes)
      BY <1>2, <2>1 DEF Range
    <2>4. CASE nodes[i + 1] \in S
      BY <1>13, <2>2, <2>4 DEF Distance
    <2>5. CASE nodes[i + 1] \notin S
      <3>1. PICK e \in E : to[e] = nodes[i + 1]
        BY <1>2, <2>3, <2>5
      <3>2. PICK a \in 1 .. Len(nodes), b \in 1 .. Len(nodes) :
               a < b /\ nodes[a] = SourceForEdge(e) /\ nodes[b] = to[e]
        BY <1>2 DEF Before
      <3>3. b = i + 1
        BY <1>2, <2>1, <3>1, <3>2 DEF IsInjective
      <3>4. a \in 1 .. i /\ k - 1 \in a .. Rows
        BY <1>7, <3>2, <3>3
      <3>5. up[k - 1][SourceForEdge(e)] = Distance(SourceForEdge(e), S, A)
        BY <1>15, <3>2, <3>4
      <3>6. up[k][to[e]] = Saturate(up[k - 1][SourceForEdge(e)] + EffectiveWeight(e, Unit))
        BY <1>14, <2>2
      <3>7. Distance(to[e], S, A) = Saturate(Distance(SourceForEdge(e), S, A) + EffectiveWeight(e, Unit))
        BY <1>2 DEF Tight
      <3> QED BY <3>1, <3>5, <3>6, <3>7
    <2> QED BY <2>4, <2>5
  <1>16. 0 \in K
    OBVIOUS
  <1>17. ASSUME NEW i \in Nat, i \in K
         PROVE  i + 1 \in K
    <2> HIDE DEF Right
    <2>1. \A j \in 1 .. i : Right(j)
      BY <1>17
    <2>2. Right(i + 1)
      BY <1>15, <2>1
    <2>3. \A j \in 1 .. i + 1 : j \in 1 .. i \/ j = i + 1
      OBVIOUS
    <2> QED BY <2>1, <2>2, <2>3
  <1>18. \A i \in Nat : i \in K
    <2> HIDE DEF K
    <2> QED BY <1>16, <1>17, NatSet
  <1>19. PICK i \in 1 .. Len(nodes) : nodes[i] = v
    BY <1>2 DEF Range
  <1>20. Right(i)
    <2>1. i \in Nat /\ i \in 1 .. i
      BY <1>19
    <2> HIDE DEF Right
    <2> QED BY <1>18, <2>1
  <1>21. Rows \in i .. Rows
    <2>1. Len(nodes) <= Rows
      BY <1>2, ShortEnough
    <2> QED BY <1>7, <2>1
  <1> QED BY <1>1, <1>19, <1>20, <1>21

-----------------------------------------------------------------------------
(* Query boxes. *)

\* The ends of a nonempty set of integers that lie in an interval.
LEMMA SpanOf ==
  ASSUME NEW a \in Int, NEW b \in Int, NEW s \in SUBSET (a .. b), s # {}
  PROVE  Min(s) \in s /\ Max(s) \in s /\ \A y \in s : Min(s) <= y /\ y <= Max(s)
  <1> DEFINE L == {y - a : y \in s}
             H == {b - y : y \in s}
  <1>1. L \in SUBSET Nat /\ L # {} /\ H \in SUBSET Nat /\ H # {}
    <2>1. \A y \in s : y - a \in Nat /\ b - y \in Nat
      OBVIOUS
    <2> QED BY <2>1
  <1>2. PICK m \in L : \A k \in L : m <= k
    <2> HIDE DEF L
    <2> QED BY <1>1, LeastNat
  <1>3. PICK h \in H : \A k \in H : h <= k
    <2> HIDE DEF H
    <2> QED BY <1>1, LeastNat
  <1>4. PICK x \in s : m = x - a
    BY <1>2
  <1>5. PICK z \in s : h = b - z
    BY <1>3
  <1>6. \A y \in s : x <= y /\ y <= z
    <2> TAKE y \in s
    <2>1. x - a <= y - a /\ b - z <= b - y
      BY <1>2, <1>3, <1>4, <1>5
    <2> QED BY <2>1
  <1>7. \A y \in s : z >= y
    BY <1>6
  <1>8. Min(s) \in s /\ \A y \in s : Min(s) <= y
    BY <1>6 DEF Min
  <1>9. Max(s) \in s /\ \A y \in s : Max(s) >= y
    BY <1>7 DEF Max
  <1> QED BY <1>8, <1>9

\* A margin moves a side of the box outwards only, clamped or not.
LEMMA WidenCovers ==
  ASSUME NEW c \in MissingCoord .. MaxCoord, NEW m \in Nat
  PROVE  Widen(c, -m) <= c /\ c <= Widen(c, m) /\ Widen(c, -m) \in Int /\ Widen(c, m) \in Int
  BY CoordinateAssumption DEF Widen, MissingCoord

\* A query box never shuts out the terminals it is derived from.
LEMMA BoxCoversTerminals ==
  ASSUME NEW sources \in SUBSET Vertex, NEW targets \in SUBSET Vertex
  PROVE  sources \cup targets \subseteq AdmittedNodes(DeriveBounds(sources, targets, Config))
  <1> DEFINE known == {v \in sources \cup targets : HasCoordinate(v)}
             Xs == {endX[v] : v \in known}
             Ys == {endY[v] : v \in known}
             box == [enabled |-> TRUE,
                     minX |-> Widen(Min(Xs), -Config.marginX), maxX |-> Widen(Max(Xs), Config.marginX),
                     minY |-> Widen(Min(Ys), -Config.marginY), maxY |-> Widen(Max(Ys), Config.marginY)]
  <1>1. Config.marginX \in Nat /\ Config.marginY \in Nat
    BY RequestAssumption
  <1>2. ASSUME NEW v \in sources \cup targets
        PROVE  NodeAdmitted(v, Unbounded) /\ NodeAdmitted(v, box)
    <2>1. NodeAdmitted(v, Unbounded)
      BY DEF NodeAdmitted, Unbounded
    <2>2. CASE ~HasCoordinate(v)
      <3>1. endX[v] = MissingCoord /\ endY[v] = MissingCoord
        BY <2>2, CoordinateAssumption DEF HasCoordinate
      <3> QED BY <2>1, <3>1 DEF NodeAdmitted
    <2>3. CASE HasCoordinate(v)
      <3>1. endX[v] \in Xs /\ endY[v] \in Ys
        BY <2>3
      <3>2. Xs \in SUBSET (MissingCoord .. MaxCoord) /\ Ys \in SUBSET (MissingCoord .. MaxCoord)
        BY CoordinateAssumption
      <3>3. MissingCoord \in Int /\ MaxCoord \in Int
        BY CoordinateAssumption DEF MissingCoord
      <3> HIDE DEF Xs, Ys
      <3>4. /\ Min(Xs) \in Xs /\ Max(Xs) \in Xs /\ Min(Xs) <= endX[v] /\ endX[v] <= Max(Xs)
            /\ Min(Ys) \in Ys /\ Max(Ys) \in Ys /\ Min(Ys) <= endY[v] /\ endY[v] <= Max(Ys)
        BY <3>1, <3>2, <3>3, SpanOf
      <3>5. /\ Widen(Min(Xs), -Config.marginX) <= Min(Xs) /\ Widen(Min(Xs), -Config.marginX) \in Int
            /\ Max(Xs) <= Widen(Max(Xs), Config.marginX) /\ Widen(Max(Xs), Config.marginX) \in Int
        BY <1>1, <3>2, <3>4, WidenCovers
      <3>6. /\ Widen(Min(Ys), -Config.marginY) <= Min(Ys) /\ Widen(Min(Ys), -Config.marginY) \in Int
            /\ Max(Ys) <= Widen(Max(Ys), Config.marginY) /\ Widen(Max(Ys), Config.marginY) \in Int
        BY <1>1, <3>2, <3>4, WidenCovers
      <3>7. Min(Xs) \in Int /\ Max(Xs) \in Int /\ endX[v] \in Int /\ Min(Ys) \in Int /\ Max(Ys) \in Int /\ endY[v] \in Int
        <4>1. \A x \in MissingCoord .. MaxCoord : x \in Int
          BY <3>3
        <4> QED BY <3>1, <3>2, <3>4, <4>1
      <3>8. InBox(v, box)
        BY <3>4, <3>5, <3>6, <3>7 DEF InBox
      <3> QED BY <2>1, <3>8 DEF NodeAdmitted
    <2> QED BY <2>2, <2>3
  <1>3. DeriveBounds(sources, targets, Config) = Unbounded \/ DeriveBounds(sources, targets, Config) = box
    BY DEF DeriveBounds
  <1> HIDE DEF box
  <1> QED BY <1>2, <1>3 DEF AdmittedNodes

\* A query without a box admits every node.
LEMMA UnboundedAdmitsAll == AdmittedNodes(Unbounded) = Vertex
  BY DEF AdmittedNodes, NodeAdmitted, Unbounded

-----------------------------------------------------------------------------
(* The inductive invariant. *)

\* What sinks and nets hold.
Sinks == [target : Int, reached : BOOLEAN, path : Seq(Edge), distance : Cost]
Nets  == [reachedAll : BOOLEAN, certified : BOOLEAN, members : Seq(Vertex), sinks : Seq(Sinks),
          admitted : SUBSET Vertex]

\* Types.
TypeOK ==
    /\ idx \in 1 .. Len(Requests) + 1 /\ stamp \in Nat
    /\ treeSeen \in [Vertex -> Nat] /\ parentSeen \in [Vertex -> Nat]
    /\ phase \in {"next", "bounds", "query", "retry", "extract", "attach", "finish", "threw", "done"}
    /\ members \in Seq(Vertex) /\ retried \in BOOLEAN
    /\ sinks \in Seq(Sinks) /\ pos \in Nat \ {0}
    /\ nets \in Seq(Nets)

\* Every net begins with a stamp that no node bears.
StampFresh == \A v \in Vertex : treeSeen[v] <= stamp /\ parentSeen[v] <= stamp

\* The sinks to be asked for, and the nodes the answer may use.
Wanted   == {t \in Range(Request.sinks) : Valid(t) /\ t \notin Sources}
Admitted == IF retried THEN Vertex ELSE AdmittedNodes(bounds)

\* The phases of a net.
Routing == phase \in {"bounds", "query", "retry", "extract", "attach", "finish"}
Asking  == phase \in {"bounds", "query", "retry", "extract"}
Joining == phase \in {"attach", "finish"}

\* The marks of the scratch array are the list of the tree's nodes.
TreeMarked == Routing => idx <= Len(Requests) /\ Marked([seen |-> treeSeen, nodes |-> members], stamp)

\* Until an answer is used the tree is the set of the sources.
SourcesOnly ==
    Asking =>
        /\ Range(members) = Sources /\ pos = 1 /\ \A v \in Vertex : parentSeen[v] # stamp
        /\ Len(sinks) = Len(Request.sinks)
        /\ \A i \in 1 .. Len(sinks) :
              LET t == Request.sinks[i] IN
              sinks[i] = IF Valid(t) /\ t \in Sources THEN AlreadyIn(t) ELSE Missed(t)

\* The box of a query lets every terminal in.
InBounds == Routing /\ phase # "bounds" => Sources \cup Wanted \subseteq AdmittedNodes(bounds)

\* The retry comes after the first answer only.
NotRetried == phase \in {"bounds", "query", "retry"} => ~retried

\* A certified answer has a settled path for each wanted sink that has an
\* admissible one, and none for the others; short of a certificate, or of a
\* path, the whole graph has been searched.
AnswerFits ==
    phase = "extract" =>
        /\ answer.certified \in BOOLEAN
        /\ answer.certified => \A t \in Wanted :
              IF Admissible(Sources, t, Admitted) = {} THEN answer.path[t] = NoPath
              ELSE answer.path[t] \in Settled(Sources, t, Admitted)
        /\ Config.fallback /\ Admitted # Vertex =>
              answer.certified /\ \A t \in Wanted : answer.path[t] # NoPath

\* The answer in hand has a path for t.
Found(t) == answer.certified /\ Admissible(Sources, t, Admitted) # {}

\* A sink whose turn has not come.
Waiting(s) ==
    LET t == s.target IN
    IF ~Valid(t) THEN s = Missed(t)
    ELSE IF t \in Sources THEN s = AlreadyIn(t)
    ELSE IF Found(t) THEN \E p \in Settled(Sources, t, Admitted) : s = Candidate(t, p)
    ELSE s = Missed(t)

\* A sink whose turn has been.
Treated(s, S, certified, admitted, nodes) ==
    LET t == s.target IN
    /\ s.reached => t \in Range(nodes)
    /\ Valid(t) /\ t \notin S =>
          /\ s.reached <=> certified /\ Admissible(S, t, admitted) # {}
          /\ Config.fallback /\ ~s.reached => admitted = Vertex

\* While candidates are joined, the edges of the reached sinks hang the tree from
\* the sources, and the parents that are marked belong to nodes of the tree.
Grown ==
    Joining =>
        /\ answer.certified \in BOOLEAN /\ Len(sinks) <= Len(Request.sinks)
        /\ Hangs(TreeEdges([sinks |-> sinks]), members, Sources, Admitted)
        /\ TreeEdges([sinks |-> sinks]) # {} => answer.certified
        /\ \A v \in Vertex : parentSeen[v] = stamp => v \in Range(members)
        /\ \A t \in Wanted : Config.fallback /\ ~Found(t) => Admitted = Vertex
        /\ \A i \in 1 .. Len(sinks) :
              /\ sinks[i].target = Request.sinks[i]
              /\ IF i < pos THEN Treated(sinks[i], Sources, answer.certified, Admitted, members)
                 ELSE Waiting(sinks[i])
        /\ phase = "finish" => pos > Len(sinks)

\* The net that has just been finished.
NetFinished ==
    /\ phase \notin {"threw", "done"} => Len(nets) = idx - 1
    /\ phase = "next" /\ nets # <<>> =>
        LET k == Len(nets)  n == nets[k]  S == SourcesOf(Requests[k]) IN
        /\ Hangs(TreeEdges(n), n.members, S, n.admitted)
        /\ \A i \in 1 .. Len(n.sinks) : Treated(n.sinks[i], S, n.certified, n.admitted, n.members)

\* The inductive invariant.
Inv ==
    /\ TypeOK /\ StampFresh /\ TreeMarked /\ SourcesOnly /\ InBounds /\ NotRetried
    /\ AnswerFits /\ Grown /\ NetFinished

\* Types of a request.
LEMMA RequestFacts ==
  ASSUME NEW i \in 1 .. Len(Requests)
  PROVE  /\ Requests[i].sources \in Seq(Int) /\ Requests[i].sinks \in Seq(Int)
         /\ SourcesOf(Requests[i]) \in SUBSET Vertex
         /\ Len(Requests[i].sinks) \in Nat
         /\ \A j \in 1 .. Len(Requests[i].sinks) : Requests[i].sinks[j] \in Int
  <1>1. Requests[i] \in [sources : Seq(Int), sinks : Seq(Int)]
    <2> DEFINE R == [sources : Seq(Int), sinks : Seq(Int)]
    <2>1. Requests \in Seq(R)
      BY RequestAssumption
    <2> HIDE DEF R
    <2>2. Requests[i] \in R
      BY <2>1
    <2> QED BY <2>2 DEF R
  <1>2. Requests[i].sources \in Seq(Int) /\ Requests[i].sinks \in Seq(Int)
    BY <1>1
  <1>3. SourcesOf(Requests[i]) \in SUBSET Vertex
    BY DEF SourcesOf, Valid
  <1> QED BY <1>2, <1>3

\* The invariant holds before the first net.
LEMMA InitInv == Init => Inv
  <1> SUFFICES ASSUME Init PROVE Inv
    OBVIOUS
  <1> USE DEF Init
  <1>1. TypeOK
    <2>1. idx \in 1 .. Len(Requests) + 1
      <3> DEFINE R == [sources : Seq(Int), sinks : Seq(Int)]
      <3>1. Requests \in Seq(R)
        BY RequestAssumption
      <3> HIDE DEF R
      <3>2. Len(Requests) \in Nat
        BY <3>1
      <3> QED BY <3>2
    <2>2. members \in Seq(Vertex) /\ nets \in Seq(Nets) /\ sinks \in Seq(Sinks)
      OBVIOUS
    <2>3. treeSeen \in [Vertex -> Nat] /\ parentSeen \in [Vertex -> Nat] /\ stamp \in Nat /\ pos \in Nat \ {0}
      OBVIOUS
    <2>4. retried \in BOOLEAN /\ phase = "next"
      OBVIOUS
    <2> QED BY ONLY <2>1, <2>2, <2>3, <2>4 DEF TypeOK
  <1>2. StampFresh
    BY DEF StampFresh
  <1>3. TreeMarked /\ SourcesOnly /\ InBounds /\ NotRetried /\ AnswerFits /\ Grown
    BY DEF TreeMarked, SourcesOnly, InBounds, NotRetried, AnswerFits, Grown, Routing, Asking, Joining
  <1>4. NetFinished
    BY DEF NetFinished
  <1> QED BY <1>1, <1>2, <1>3, <1>4 DEF Inv

\* The fields of the three kinds of sink.
LEMMA SinkFields ==
  \A t, p :
     /\ Missed(t).target = t /\ ~Missed(t).reached /\ Missed(t).path = NoPath /\ Missed(t).distance = Inf
     /\ AlreadyIn(t).target = t /\ AlreadyIn(t).reached /\ AlreadyIn(t).path = NoPath
     /\ Candidate(t, p).target = t /\ ~Candidate(t, p).reached
     /\ Candidate(t, p).path = p /\ Candidate(t, p).distance = PathCost(p)
     /\ [Candidate(t, p) EXCEPT !.reached = TRUE].target = t
     /\ [Candidate(t, p) EXCEPT !.reached = TRUE].reached
     /\ [Candidate(t, p) EXCEPT !.reached = TRUE].path = p
  BY DEF Missed, AlreadyIn, Candidate

\* The types of the three kinds of sink.
LEMMA SinkTypes ==
  /\ \A t \in Int : Missed(t) \in Sinks /\ AlreadyIn(t) \in Sinks
  /\ \A t \in Int : \A p \in Seq(Edge) :
        Candidate(t, p) \in Sinks /\ [Candidate(t, p) EXCEPT !.reached = TRUE] \in Sinks
  <1>1. NoPath \in Seq(Edge)
    BY DEF NoPath
  <1>2. \A t \in Int : Missed(t) \in Sinks /\ AlreadyIn(t) \in Sinks
    BY <1>1, CostEnds DEF Missed, AlreadyIn, Sinks
  <1>3. ASSUME NEW t \in Int, NEW p \in Seq(Edge)
        PROVE  Candidate(t, p) \in Sinks /\ [Candidate(t, p) EXCEPT !.reached = TRUE] \in Sinks
    BY PathCosts DEF Candidate, Sinks
  <1> QED BY <1>2, <1>3

\* Until an answer is used, the targets of the query are the wanted sinks.
LEMMA TargetsAsked ==
  ASSUME TypeOK, idx <= Len(Requests), Len(sinks) = Len(Request.sinks),
         \A i \in 1 .. Len(sinks) :
            LET t == Request.sinks[i] IN
            sinks[i] = IF Valid(t) /\ t \in Sources THEN AlreadyIn(t) ELSE Missed(t)
  PROVE  Targets = Wanted
  <1>1. idx \in 1 .. Len(Requests)
    BY DEF TypeOK
  <1>2. Request.sinks \in Seq(Int) /\ sinks \in Seq(Sinks)
    BY <1>1, RequestFacts DEF Request, TypeOK
  <1>3. ASSUME NEW i \in 1 .. Len(sinks)
        PROVE  /\ sinks[i].target = Request.sinks[i]
               /\ sinks[i].reached <=> Request.sinks[i] \in Sources
    <2>1. Request.sinks[i] \in Sources => Valid(Request.sinks[i])
      BY DEF Sources, SourcesOf
    <2> QED BY <2>1, SinkFields
  <1>4. Targets \subseteq Wanted
    BY <1>2, <1>3 DEF Targets, Wanted, Range
  <1>5. ASSUME NEW t \in Wanted
        PROVE  t \in Targets
    <2>1. PICK i \in 1 .. Len(sinks) : Request.sinks[i] = t /\ Valid(t) /\ t \notin Sources
      BY <1>2 DEF Wanted, Range
    <2>2. sinks[i] \in Range(sinks)
      BY <1>2 DEF Range
    <2> QED BY <1>3, <2>1, <2>2 DEF Targets
  <1> QED BY <1>4, <1>5

-----------------------------------------------------------------------------
(* A net starts and asks. *)

\* The number of requests is a number.
LEMMA RequestCount == Requests \in Seq([sources : Seq(Int), sinks : Seq(Int)]) /\ Len(Requests) \in Nat
  <1> DEFINE R == [sources : Seq(Int), sinks : Seq(Int)]
  <1>1. Requests \in Seq(R)
    BY RequestAssumption
  <1> HIDE DEF R
  <1>2. Len(Requests) \in Nat
    BY <1>1
  <1> QED BY <1>1, <1>2 DEF R

\* A certified answer has a settled path for every target that has an admissible
\* one, and none for the others.
LEMMA AnswerFacts ==
  ASSUME NEW S, NEW T \in SUBSET Vertex, NEW A, NEW a \in Answers(S, T, A)
  PROVE  /\ a.certified \in BOOLEAN
         /\ a.certified => \A t \in T :
               IF Admissible(S, t, A) = {} THEN a.path[t] = NoPath ELSE a.path[t] \in Settled(S, t, A)
  <1> DEFINE exact == UNION {OrNone(Settled(S, t, A)) : t \in T}
             ends(p, t) == IF p = NoPath THEN Admissible(S, t, A) = {} ELSE to[Last(p)] = t
             good == {f \in [T -> exact] : \A t \in T : ends(f[t], t)}
             bad == {[t \in T |-> NoPath], [t \in T |-> Costliest(S, t, A)]}
  <1>1. a \in [certified : {TRUE}, path : good] \/ a \in [certified : {FALSE}, path : bad]
    BY DEF Answers
  <1> HIDE DEF good, bad
  <1>2. a.certified \in BOOLEAN /\ (a.certified => a.path \in good)
    BY <1>1
  <1>3. ASSUME a.certified, NEW t \in T
        PROVE  IF Admissible(S, t, A) = {} THEN a.path[t] = NoPath ELSE a.path[t] \in Settled(S, t, A)
    <2> DEFINE p == a.path[t]
    <2>1. p \in exact /\ ends(p, t)
      <3> HIDE DEF exact, ends
      <3> QED BY <1>2, <1>3 DEF good
    <2> HIDE DEF p
    <2>2. CASE p = NoPath
      BY <2>1, <2>2 DEF p
    <2>3. CASE p # NoPath
      <3>1. PICK u \in T : p \in OrNone(Settled(S, u, A))
        BY <2>1
      <3>2. p \in Settled(S, u, A)
        BY <2>3, <3>1 DEF OrNone
      <3>3. p \in Cheapest(S, u, A)
        BY <3>2, SettledTight
      <3>4. to[p[Len(p)]] = u /\ to[Last(p)] = t
        BY <2>1, <2>3, <3>3, CheapestFacts
      <3>5. u = t
        BY <3>4 DEF Last
      <3>6. Admissible(S, t, A) # {}
        BY <3>3, <3>5 DEF Cheapest
      <3> QED BY <3>2, <3>5, <3>6 DEF p
    <2> QED BY <2>2, <2>3
  <1> QED BY <1>2, <1>3

\* Only the empty sequence has an empty range.
LEMMA EmptyRange ==
  ASSUME NEW T, NEW s \in Seq(T)
  PROVE  Range(s) = {} <=> s = <<>>
  <1>1. CASE Len(s) = 0
    BY <1>1 DEF Range
  <1>2. CASE Len(s) # 0
    <2>1. 1 \in DOMAIN s
      BY <1>2
    <2>2. s[1] \in Range(s)
      BY <2>1 DEF Range
    <2> QED BY <1>2, <2>2
  <1> QED BY <1>1, <1>2

\* A net starts with its sources as the tree, whatever its predecessor has left in
\* the scratch arrays.
LEMMA StartNetInv ==
  ASSUME Inv, StartNet
  PROVE  Inv'
  <1> DEFINE st == stamp + 1
             base == [seen |-> treeSeen, nodes |-> <<>>]
             tree == AddAll(base, Request.sources, st)
             n == Len(Request.sinks)
             First(t) == IF Valid(t) /\ t \in Sources THEN AlreadyIn(t) ELSE Missed(t)
  <1>1. /\ phase = "next" /\ idx <= Len(Requests) /\ stamp' = st
        /\ treeSeen' = tree.seen /\ members' = tree.nodes
        /\ sinks' = IF tree.nodes = <<>> THEN <<>>
                    ELSE [i \in 1 .. n |->
                            IF Valid(Request.sinks[i]) /\ tree.seen[Request.sinks[i]] = st
                            THEN AlreadyIn(Request.sinks[i]) ELSE Missed(Request.sinks[i])]
        /\ phase' = IF tree.nodes = <<>> THEN "finish"
                    ELSE IF \E t \in Range(Request.sinks) : Valid(t) /\ tree.seen[t] # st
                         THEN "bounds" ELSE "attach"
        /\ bounds' = Unbounded /\ retried' = FALSE /\ pos' = 1
        /\ answer' = [NoAnswer EXCEPT !.certified = members' # <<>>]
        /\ idx' = idx /\ parentSeen' = parentSeen /\ nets' = nets
    BY DEF StartNet, NextStamp
  <1>2. TypeOK /\ StampFresh /\ NetFinished
    BY DEF Inv
  <1>3. idx \in 1 .. Len(Requests)
    BY <1>1, <1>2, RequestCount DEF TypeOK
  <1>4. Request.sources \in Seq(Int) /\ Request.sinks \in Seq(Int) /\ Sources \in SUBSET Vertex /\ n \in Nat
        /\ \A i \in 1 .. n : Request.sinks[i] \in Int
    BY <1>3, RequestFacts DEF Request, Sources
  <1>5. Request' = Request /\ Sources' = Sources /\ Wanted' = Wanted /\ Admitted' = Vertex
    <2>1. Request' = Request
      BY <1>1 DEF Request
    <2>2. Sources' = Sources
      BY <2>1 DEF Sources
    <2>3. Wanted' = Wanted
      BY <2>1, <2>2 DEF Wanted
    <2>4. Admitted' = Vertex
      BY <1>1, UnboundedAdmitsAll DEF Admitted
    <2> QED BY <2>1, <2>2, <2>3, <2>4
  <1>6. st \in Nat /\ treeSeen \in [Vertex -> Nat] /\ \A v \in Vertex : treeSeen[v] # st /\ parentSeen[v] # st
    BY <1>2 DEF TypeOK, StampFresh
  <1>7. base \in Tree /\ Marked(base, st)
    <2>1. <<>> \in Seq(Vertex) /\ Range(<<>>) = {} /\ IsInjective(<<>>)
      BY DEF Range, IsInjective
    <2>2. base.seen = treeSeen /\ base.nodes = <<>>
      OBVIOUS
    <2>3. base \in Tree
      BY <1>6, <2>1 DEF Tree
    <2> HIDE DEF base
    <2> QED BY <1>6, <2>1, <2>2, <2>3 DEF Marked
  <1>8. /\ tree \in Tree /\ Marked(tree, st)
        /\ Range(tree.nodes) = Sources
        /\ \A v \in Vertex : tree.seen[v] = treeSeen[v] \/ tree.seen[v] = st
    <2>1. Joined(tree, base, Request.sources, Len(Request.sources), st)
      <3> HIDE DEF base
      <3> QED BY <1>4, <1>6, <1>7, AddAllResult
    <2>2. Range(base.nodes) = {} /\ base.seen = treeSeen
      BY DEF Range
    <2> HIDE DEF tree, base
    <2>3. Range(tree.nodes) = {Request.sources[j] : j \in 1 .. Len(Request.sources)} \cap Vertex
      BY <2>1, <2>2 DEF Joined
    <2>4. Range(Request.sources) = {Request.sources[j] : j \in 1 .. Len(Request.sources)}
      BY <1>4 DEF Range
    <2>5. Range(tree.nodes) = Sources
      BY <2>3, <2>4 DEF Sources, SourcesOf, Valid
    <2> QED BY <2>1, <2>2, <2>5 DEF Joined
  <1> HIDE DEF tree, base
  <1>9. tree.nodes \in Seq(Vertex) /\ tree.seen \in [Vertex -> Nat] /\ (tree.nodes = <<>> <=> Sources = {})
    <2>1. tree.nodes \in Seq(Vertex) /\ tree.seen \in [Vertex -> Nat]
      BY <1>8 DEF Tree
    <2>2. Range(tree.nodes) = {} <=> tree.nodes = <<>>
      BY <2>1, EmptyRange
    <2> QED BY <1>8, <2>1, <2>2
  <1>10. \A t : Valid(t) => (tree.seen[t] = st <=> t \in Sources)
    BY <1>8 DEF Marked, Valid
  <1>11. sinks' = IF Sources = {} THEN <<>> ELSE [i \in 1 .. n |-> First(Request.sinks[i])]
    <2>1. \A i \in 1 .. n : First(Request.sinks[i]) = IF Valid(Request.sinks[i]) /\ tree.seen[Request.sinks[i]] = st
                            THEN AlreadyIn(Request.sinks[i]) ELSE Missed(Request.sinks[i])
      BY <1>10
    <2> HIDE DEF First
    <2> QED BY <1>1, <1>9, <2>1
  <1>12. phase' = IF Sources = {} THEN "finish" ELSE IF Wanted # {} THEN "bounds" ELSE "attach"
    <2>1. (\E t \in Range(Request.sinks) : Valid(t) /\ tree.seen[t] # st) <=> Wanted # {}
      BY <1>10 DEF Wanted
    <2> QED BY <1>1, <1>9, <2>1
  <1>13. Len(sinks') <= n /\ (Sources # {} => Len(sinks') = n) /\ (Sources = {} => sinks' = <<>>)
         /\ \A i \in 1 .. Len(sinks') : i \in 1 .. n /\ sinks'[i] = First(Request.sinks[i])
    <2> HIDE DEF First
    <2> QED BY <1>4, <1>11
  <1>14. TypeOK'
    <2>1. \A i \in 1 .. n : First(Request.sinks[i]) \in Sinks
      BY <1>4, SinkTypes
    <2>2. sinks' \in Seq(Sinks)
      <3> HIDE DEF First
      <3> QED BY <1>4, <1>11, <2>1
    <2>3. phase' \in {"bounds", "attach", "finish"} /\ retried' \in BOOLEAN /\ pos' \in Nat \ {0}
      <3>1. phase' \in {"bounds", "attach", "finish"}
        BY <1>12
      <3>2. retried' = FALSE /\ pos' = 1
        BY <1>1
      <3>3. retried' \in BOOLEAN
        BY ONLY <3>2
      <3>4. pos' \in Nat \ {0}
        BY ONLY <3>2
      <3> QED BY ONLY <3>1, <3>3, <3>4
    <2>4. parentSeen \in [Vertex -> Nat] /\ nets \in Seq(Nets) /\ idx \in 1 .. Len(Requests) + 1
      BY <1>2 DEF TypeOK
    <2> QED BY <1>1, <1>6, <1>9, <2>2, <2>3, <2>4 DEF TypeOK
  <1>15. StampFresh'
    <2>1. \A v \in Vertex : treeSeen[v] <= stamp /\ parentSeen[v] <= stamp
      BY <1>2 DEF StampFresh
    <2>2. stamp \in Nat /\ parentSeen \in [Vertex -> Nat]
      BY <1>2 DEF TypeOK
    <2>3. ASSUME NEW v \in Vertex
          PROVE  tree.seen[v] <= st /\ parentSeen[v] <= st
      <3>1. treeSeen[v] \in Nat /\ parentSeen[v] \in Nat
        BY <1>6, <2>2
      <3> QED BY <1>8, <2>1, <2>2, <3>1
    <2> QED BY <1>1, <2>3 DEF StampFresh
  <1>16. TreeMarked'
    <2>1. Marked([seen |-> tree.seen, nodes |-> tree.nodes], st)
      BY <1>8 DEF Marked
    <2> QED BY <1>1, <1>3, <2>1 DEF TreeMarked
  <1>17. SourcesOnly'
    <2>1. Asking' => Sources # {}
      BY <1>12 DEF Asking
    <2> QED BY <1>1, <1>5, <1>6, <1>8, <1>13, <2>1 DEF SourcesOnly
  <1>18. InBounds' /\ NotRetried' /\ AnswerFits'
    <2>1. phase' \in {"bounds", "attach", "finish"}
      BY <1>12
    <2>2. Wanted \subseteq Vertex /\ AdmittedNodes(bounds') = Vertex
      BY <1>1, UnboundedAdmitsAll DEF Wanted, Valid
    <2> QED BY <1>1, <1>4, <1>5, <2>1, <2>2 DEF InBounds, NotRetried, AnswerFits
  <1>19. Grown'
    <2> SUFFICES ASSUME Joining' PROVE Grown'
      BY DEF Grown
    <2>0. Sources = {} \/ Wanted = {}
      BY <1>12 DEF Joining
    <2>1. \A i \in 1 .. Len(sinks') : sinks'[i].path = NoPath /\ sinks'[i].target = Request.sinks[i]
      BY <1>13, SinkFields
    <2>2. TreeEdges([sinks |-> sinks']) = {}
      <3>1. \A i \in 1 .. Len(sinks') : Range(sinks'[i].path) = {}
        BY <2>1 DEF Range, NoPath
      <3> QED BY <3>1 DEF TreeEdges
    <2>3. Hangs({}, members', Sources, Vertex)
      BY <1>1, <1>4, <1>8, <1>9 DEF Hangs, Marked
    <2>4. answer'.certified \in BOOLEAN
      BY <1>1 DEF NoAnswer
    <2>5. ASSUME NEW i \in 1 .. Len(sinks')
          PROVE  Waiting(sinks[i])'
      <3>1. Sources # {} /\ Wanted = {}
        BY <1>13, <2>0
      <3>2. sinks'[i] = First(Request.sinks[i]) /\ sinks'[i].target = Request.sinks[i] /\ i \in 1 .. n
        BY <1>13, <2>1
      <3>3. Valid(Request.sinks[i]) => Request.sinks[i] \in Sources
        BY <1>4, <3>1, <3>2 DEF Wanted, Range
      <3> QED BY <1>5, <3>2, <3>3 DEF Waiting
    <2>6. phase' = "finish" => pos' > Len(sinks')
      BY <1>1, <1>12, <1>13
    <2>7. \A i \in 1 .. Len(sinks') : ~(i < pos')
      BY <1>1
    <2> QED BY <1>1, <1>5, <1>6, <1>13, <2>1, <2>2, <2>3, <2>4, <2>5, <2>6, <2>7 DEF Grown
  <1>20. NetFinished'
    <2>1. phase' \in {"bounds", "attach", "finish"}
      BY <1>12
    <2> QED BY <1>1, <1>2, <2>1 DEF NetFinished
  <1> QED BY <1>14, <1>15, <1>16, <1>17, <1>18, <1>19, <1>20 DEF Inv

\* What the steps that ask, and leave the tree and the sinks alone, keep.
LEMMA AskingFacts ==
  ASSUME Inv, Asking
  PROVE  /\ idx \in 1 .. Len(Requests) /\ Sources \in SUBSET Vertex /\ Wanted \in SUBSET Vertex
         /\ Targets = Wanted
  <1>1. idx \in 1 .. Len(Requests)
    BY RequestCount DEF Inv, TypeOK, TreeMarked, Asking, Routing
  <1>2. Sources \in SUBSET Vertex /\ Wanted \in SUBSET Vertex
    BY <1>1, RequestFacts DEF Sources, Request, Wanted, Valid
  <1>3. Targets = Wanted
    <2>1. TypeOK /\ SourcesOnly
      BY DEF Inv
    <2>2. Len(sinks) = Len(Request.sinks)
      BY <2>1 DEF SourcesOnly
    <2>3. \A i \in 1 .. Len(sinks) :
             LET t == Request.sinks[i] IN
             sinks[i] = IF Valid(t) /\ t \in Sources THEN AlreadyIn(t) ELSE Missed(t)
      BY <2>1 DEF SourcesOnly
    <2>4. idx <= Len(Requests)
      BY <1>1
    <2> QED BY <2>1, <2>2, <2>3, <2>4, TargetsAsked
  <1> QED BY <1>1, <1>2, <1>3

\* What the steps of the query keep.
LEMMA StillAsking ==
  ASSUME Inv, Asking, UNCHANGED <<idx, scratch, members, sinks, pos, nets>>
  PROVE  /\ Request' = Request /\ Sources' = Sources /\ Wanted' = Wanted /\ Targets' = Targets
         /\ StampFresh'
         /\ phase' \in {"query", "retry", "extract"} => TreeMarked' /\ SourcesOnly' /\ NetFinished'
         /\ phase' \in {"query", "retry", "extract", "threw"} /\ retried' \in BOOLEAN => TypeOK'
  <1>1. /\ idx' = idx /\ stamp' = stamp /\ treeSeen' = treeSeen /\ parentSeen' = parentSeen
        /\ members' = members /\ sinks' = sinks /\ pos' = pos /\ nets' = nets
    BY DEF scratch
  <1>2. Request' = Request
    BY <1>1 DEF Request
  <1>3. Sources' = Sources
    BY <1>2 DEF Sources
  <1>4. Wanted' = Wanted /\ Targets' = Targets
    BY <1>1, <1>2, <1>3 DEF Wanted, Targets
  <1>5. StampFresh'
    BY <1>1 DEF Inv, StampFresh
  <1>6. ASSUME phase' \in {"query", "retry", "extract"}
        PROVE  TreeMarked' /\ SourcesOnly' /\ NetFinished'
    <2>1. TreeMarked'
      BY <1>1 DEF Inv, TreeMarked, Routing, Asking
    <2>2. SourcesOnly'
      <3>1. SourcesOnly
        BY DEF Inv
      <3> QED BY <1>1, <1>2, <1>3, <3>1 DEF SourcesOnly
    <2>3. NetFinished'
      BY <1>1, <1>6 DEF Inv, NetFinished, Asking
    <2> QED BY <2>1, <2>2, <2>3
  <1>7. phase' \in {"query", "retry", "extract", "threw"} /\ retried' \in BOOLEAN => TypeOK'
    <2>1. TypeOK
      BY DEF Inv
    <2> QED BY <1>1, <2>1 DEF TypeOK
  <1> QED BY <1>2, <1>3, <1>4, <1>5, <1>6, <1>7

\* Nothing but types and the stamp is kept once an exception is on its way.
LEMMA ThrownInv ==
  ASSUME phase' = "threw", TypeOK', StampFresh'
  PROVE  Inv'
  BY DEF Inv, TreeMarked, SourcesOnly, InBounds, NotRetried, AnswerFits, Grown, NetFinished, Routing, Asking, Joining

\* The box is derived from the terminals, or the exception is thrown.
LEMMA SetBoundsInv ==
  ASSUME Inv, SetBounds
  PROVE  Inv'
  <1>1. phase = "bounds" /\ Asking /\ UNCHANGED <<idx, scratch, members, sinks, pos, nets>> /\ retried' = retried
    BY DEF SetBounds, Asking
  <1>2. retried = FALSE
    BY <1>1 DEF Inv, NotRetried, TypeOK
  <1>3. CASE phase' = "threw"
    BY <1>1, <1>2, <1>3, StillAsking, ThrownInv
  <1>4. CASE phase' # "threw"
    <2>1. phase' = "query" /\ bounds' = DeriveBounds(Sources, Targets, Config)
      BY <1>4 DEF SetBounds
    <2>2. /\ Request' = Request /\ Sources' = Sources /\ Wanted' = Wanted
          /\ StampFresh' /\ TreeMarked' /\ SourcesOnly' /\ NetFinished' /\ TypeOK'
      BY <1>1, <1>2, <2>1, StillAsking
    <2>3. InBounds'
      <3>1. Sources \cup Wanted \subseteq AdmittedNodes(bounds')
        BY <1>1, <2>1, AskingFacts, BoxCoversTerminals
      <3> QED BY <2>2, <3>1 DEF InBounds
    <2>4. NotRetried' /\ AnswerFits' /\ Grown'
      BY <1>1, <1>2, <2>1 DEF NotRetried, AnswerFits, Grown, Joining
    <2> QED BY <2>2, <2>3, <2>4 DEF Inv
  <1> QED BY <1>3, <1>4

\* The first answer is used, or is worth a retry.
LEMMA QueryInv ==
  ASSUME Inv, Query
  PROVE  Inv'
  <1>1. phase = "query" /\ Asking /\ UNCHANGED <<idx, scratch, members, sinks, pos, nets>>
        /\ retried' = retried /\ bounds' = bounds
    BY DEF Query, Asking
  <1>2. answer' \in Answers(Sources, Targets, AdmittedNodes(bounds))
        /\ phase' = IF WorthRetry(answer') THEN "retry" ELSE "extract"
    BY DEF Query
  <1>3. retried = FALSE
    BY <1>1 DEF Inv, NotRetried, TypeOK
  <1>4. phase' \in {"retry", "extract"}
    BY <1>2
  <1>5. /\ Request' = Request /\ Sources' = Sources /\ Wanted' = Wanted
        /\ StampFresh' /\ TreeMarked' /\ SourcesOnly' /\ NetFinished' /\ TypeOK'
    BY <1>1, <1>3, <1>4, StillAsking
  <1>6. InBounds' /\ NotRetried' /\ Grown'
    BY <1>1, <1>3, <1>4, <1>5 DEF Inv, InBounds, NotRetried, Grown, Joining, Routing
  <1>7. AnswerFits'
    <2> SUFFICES ASSUME phase' = "extract" PROVE AnswerFits'
      BY DEF AnswerFits
    <2>1. ~WorthRetry(answer')
      BY <1>2
    <2>2. Admitted' = AdmittedNodes(bounds)
      BY <1>1, <1>3 DEF Admitted
    <2>3. Targets = Wanted /\ Wanted \in SUBSET Vertex
      BY <1>1, AskingFacts
    <2>4. /\ answer'.certified \in BOOLEAN
          /\ answer'.certified => \A t \in Wanted :
                IF Admissible(Sources, t, Admitted') = {} THEN answer'.path[t] = NoPath
                ELSE answer'.path[t] \in Settled(Sources, t, Admitted')
      <3>1. answer' \in Answers(Sources, Wanted, Admitted')
        BY <1>2, <2>2, <2>3
      <3> QED BY <2>3, <3>1, AnswerFacts
    <2>5. ASSUME Config.fallback, Admitted' # Vertex
          PROVE  answer'.certified /\ \A t \in Wanted : answer'.path[t] # NoPath
      <3>1. bounds.enabled
        BY <2>2, <2>5 DEF AdmittedNodes, NodeAdmitted
      <3> QED BY <2>1, <2>3, <2>5, <3>1 DEF WorthRetry, AllReached
    <2> QED BY <1>5, <2>4, <2>5 DEF AnswerFits
  <1> QED BY <1>5, <1>6, <1>7 DEF Inv

\* The second answer is used as it is.
LEMMA RetryInv ==
  ASSUME Inv, Retry
  PROVE  Inv'
  <1>1. phase = "retry" /\ Asking /\ UNCHANGED <<idx, scratch, members, sinks, pos, nets>>
        /\ bounds' = bounds
    BY DEF Retry, Asking
  <1>2. answer' \in Answers(Sources, Targets, Vertex) /\ retried' = TRUE /\ phase' = "extract"
    BY DEF Retry
  <1>5. /\ Request' = Request /\ Sources' = Sources /\ Wanted' = Wanted
        /\ StampFresh' /\ TreeMarked' /\ SourcesOnly' /\ NetFinished' /\ TypeOK'
    BY <1>1, <1>2, StillAsking
  <1>6. InBounds' /\ NotRetried' /\ Grown'
    BY <1>1, <1>2, <1>5 DEF Inv, InBounds, NotRetried, Grown, Joining, Routing
  <1>7. AnswerFits'
    <2>2. Admitted' = Vertex
      BY <1>2 DEF Admitted
    <2>3. Targets = Wanted /\ Wanted \in SUBSET Vertex
      BY <1>1, AskingFacts
    <2>4. /\ answer'.certified \in BOOLEAN
          /\ answer'.certified => \A t \in Wanted :
                IF Admissible(Sources, t, Admitted') = {} THEN answer'.path[t] = NoPath
                ELSE answer'.path[t] \in Settled(Sources, t, Admitted')
      <3>1. answer' \in Answers(Sources, Wanted, Admitted')
        BY <1>2, <2>2, <2>3
      <3> QED BY <2>3, <3>1, AnswerFacts
    <2> QED BY <1>5, <2>2, <2>4 DEF AnswerFits
  <1> QED BY <1>5, <1>6, <1>7 DEF Inv

\* An engine's exception leaves the types and the stamps.
LEMMA QueryThrowsInv ==
  ASSUME Inv, QueryThrows
  PROVE  Inv'
  <1>1. Asking /\ phase' = "threw" /\ UNCHANGED <<idx, scratch, members, sinks, pos, nets>> /\ retried' = retried
    BY DEF QueryThrows, Asking, net
  <1>2. retried' \in BOOLEAN
    BY <1>1 DEF Inv, TypeOK
  <1> QED BY <1>1, <1>2, StillAsking, ThrownInv

-----------------------------------------------------------------------------
(* Candidates. *)

\* Sinks without paths put no edge into the tree.
LEMMA NoTreeEdges ==
  ASSUME NEW ss, \A i \in 1 .. Len(ss) : ss[i].reached => ss[i].path = NoPath
  PROVE  TreeEdges([sinks |-> ss]) = {}
  <1>1. Range(NoPath) = {}
    BY DEF Range, NoPath
  <1>2. \A i \in {j \in 1 .. Len(ss) : ss[j].reached} : Range(ss[i].path) = {}
    BY <1>1
  <1>3. [sinks |-> ss].sinks = ss
    OBVIOUS
  <1> QED BY <1>2, <1>3 DEF TreeEdges

\* A path that leads from the tree out of it: what Trim leaves begins in the tree
\* and has no other node there.
LEMMA TrimFacts ==
  ASSUME NEW p \in SimplePaths, InTree(PathSource(p)), ~InTree(to[p[Len(p)]])
  PROVE  /\ Trim(p) \in Seq(Edge) /\ Len(Trim(p)) \in Nat \ {0}
         /\ InTree(PathSource(Trim(p))) /\ Simple(Trim(p))
         /\ Trim(p)[Len(Trim(p))] = p[Len(p)]
         /\ \A i \in 1 .. Len(Trim(p)) :
               /\ Trim(p)[i] \in Range(p) /\ Trim(p)[i] \in Edge
               /\ to[Trim(p)[i]] \in Vertex /\ ~InTree(to[Trim(p)[i]])
         /\ (\A i \in 1 .. Len(p) : ~InTree(to[p[i]])) => Trim(p) = p
         /\ PathSource(Trim(p)) = PathSource(p) \/ \E i \in 1 .. Len(p) : PathSource(Trim(p)) = to[p[i]]
  <1> DEFINE n == Len(p)
             k == LastTreeNode(p)
             c == Trim(p)
  <1>1. /\ p \in Seq(Edge) /\ n \in Nat /\ n >= 1 /\ Simple(p)
        /\ \A i \in 1 .. n : p[i] \in Edge /\ to[p[i]] \in Vertex
    BY SimplePathFacts
  <1>2. k \in 0 .. n /\ InTree(NodeAt(p, k)) /\ \A j \in k + 1 .. n : ~InTree(NodeAt(p, j))
    <2> DEFINE H == {i \in 0 .. n : InTree(NodeAt(p, i))}
    <2>1. 0 \in H
      BY <1>1 DEF NodeAt
    <2>2. Max(H) \in H /\ \A y \in H : y <= Max(H)
      <3>1. H \in SUBSET (0 .. n) /\ H # {}
        BY <2>1
      <3>2. 0 \in Int /\ n \in Int
        BY <1>1
      <3> HIDE DEF H, n
      <3> QED BY <3>1, <3>2, SpanOf
    <2>3. \E i \in 0 .. n : InTree(NodeAt(p, i)) /\ \A j \in i + 1 .. n : ~InTree(NodeAt(p, j))
      <3>1. Max(H) \in 0 .. n /\ InTree(NodeAt(p, Max(H)))
        BY <2>2
      <3>2. ASSUME NEW j \in Max(H) + 1 .. n
            PROVE  ~InTree(NodeAt(p, j))
        <4>1. j \in 0 .. n /\ ~(j <= Max(H))
          BY <1>1, <3>1
        <4> QED BY <2>2, <4>1
      <3> HIDE DEF H
      <3> QED BY <3>1, <3>2
    <2> QED BY <2>3 DEF LastTreeNode
  <1> HIDE DEF k
  <1>3. k # n
    BY <1>1, <1>2 DEF NodeAt
  <1>4. k \in Nat /\ k < n /\ c = SubSeq(p, k + 1, n)
    BY <1>1, <1>2, <1>3 DEF Trim, k
  <1>5. /\ c \in Seq(Edge) /\ Len(c) = n - k /\ Len(c) \in Nat \ {0}
        /\ \A i \in 1 .. Len(c) : c[i] = p[k + i] /\ k + i \in 1 .. n
    BY <1>1, <1>4
  <1> HIDE DEF c
  <1>6. ASSUME NEW i \in 1 .. Len(c)
        PROVE  /\ c[i] \in Range(p) /\ c[i] \in Edge /\ to[c[i]] \in Vertex /\ ~InTree(to[c[i]])
    <2>1. k + i \in 1 .. n /\ k + i \in k + 1 .. n /\ k + i # 0
      BY <1>1, <1>4, <1>5
    <2>2. c[i] = p[k + i] /\ ~InTree(NodeAt(p, k + i))
      BY <1>2, <1>5, <2>1
    <2> QED BY <1>1, <2>1, <2>2 DEF NodeAt, Range
  <1>7. PathSource(c) = NodeAt(p, k)
    <2>1. 1 \in 1 .. Len(c) /\ c[1] = p[k + 1] /\ k + 1 \in 1 .. n
      BY <1>4, <1>5
    <2>2. CASE k = 0
      BY <2>1, <2>2 DEF PathSource, NodeAt
    <2>3. CASE k # 0
      <3>1. k + 1 > 1 /\ (k + 1) - 1 = k
        BY <1>4, <2>3
      <3>2. SourceForEdge(p[k + 1]) = to[p[k]]
        BY <1>1, <2>1, <3>1 DEF Simple
      <3> QED BY <2>1, <2>3, <3>2 DEF PathSource, NodeAt
    <2> QED BY <2>2, <2>3
  <1>8. Simple(c)
    <2>1. ASSUME NEW i \in 1 .. Len(c)
          PROVE  to[c[i]] # PathSource(c)
      BY <1>2, <1>6, <1>7
    <2>2. ASSUME NEW i \in 1 .. Len(c), NEW j \in 1 .. i - 1
          PROVE  to[c[j]] # to[c[i]]
      <3>1. j \in 1 .. Len(c) /\ k + j \in 1 .. (k + i) - 1 /\ k + i \in 1 .. n
        BY <1>4, <1>5
      <3>2. to[p[k + j]] # to[p[k + i]]
        BY <1>1, <3>1 DEF Simple
      <3> QED BY <1>5, <3>1, <3>2
    <2>3. ASSUME NEW i \in 1 .. Len(c), i > 1
          PROVE  SourceForEdge(c[i]) = to[c[i - 1]]
      <3>1. i - 1 \in 1 .. Len(c) /\ k + i \in 1 .. n /\ k + i > 1 /\ (k + i) - 1 = k + (i - 1)
        BY <1>4, <1>5, <2>3
      <3>2. SourceForEdge(p[k + i]) = to[p[(k + i) - 1]]
        BY <1>1, <3>1 DEF Simple
      <3> QED BY <1>5, <3>1, <3>2
    <2> QED BY <2>1, <2>2, <2>3 DEF Simple
  <1>9. c[Len(c)] = p[n]
    <2>1. Len(c) \in 1 .. Len(c) /\ k + Len(c) = n
      BY <1>1, <1>4, <1>5
    <2> QED BY <1>5, <2>1
  <1>10. ASSUME \A i \in 1 .. n : ~InTree(to[p[i]])
         PROVE  c = p
    <2>1. k = 0
      BY <1>2, <1>10 DEF NodeAt
    <2> QED BY <1>1, <1>4, <2>1
  <1>11. PathSource(c) = PathSource(p) \/ \E i \in 1 .. n : PathSource(c) = to[p[i]]
    BY <1>2, <1>7 DEF NodeAt
  <1> QED BY <1>2, <1>5, <1>6, <1>7, <1>8, <1>9, <1>10, <1>11 DEF c

\* A node is marked exactly if it is listed.
LEMMA InTreeMembers ==
  ASSUME TreeMarked, Routing
  PROVE  \A v \in Vertex : InTree(v) <=> v \in Range(members)
  BY DEF TreeMarked, Marked, InTree

\* The candidates taken are settled paths.
LEMMA ExtractInv ==
  ASSUME Inv, Extract
  PROVE  Inv'
  <1> DEFINE target(i) == sinks[i].target
             After(i) == IF target(i) \in Targets /\ Accepted(target(i))
                         THEN Candidate(target(i), Trim(answer.path[target(i)])) ELSE sinks[i]
  <1>1. /\ phase = "extract" /\ Asking /\ Routing /\ phase' = "attach"
        /\ sinks' = [i \in 1 .. Len(sinks) |-> After(i)]
        /\ idx' = idx /\ stamp' = stamp /\ treeSeen' = treeSeen /\ parentSeen' = parentSeen
        /\ members' = members /\ bounds' = bounds /\ retried' = retried /\ answer' = answer
        /\ pos' = pos /\ nets' = nets
    BY DEF Extract, Asking, Routing, scratch
  <1>2. /\ idx \in 1 .. Len(Requests) /\ Sources \in SUBSET Vertex /\ Wanted \in SUBSET Vertex
        /\ Targets = Wanted
    BY <1>1, AskingFacts
  <1>3. /\ TypeOK /\ StampFresh /\ TreeMarked /\ SourcesOnly /\ InBounds /\ AnswerFits /\ NetFinished
    BY DEF Inv
  <1>4. Request' = Request /\ Sources' = Sources /\ Wanted' = Wanted /\ Admitted' = Admitted
    <2>1. Request' = Request
      BY <1>1 DEF Request
    <2>2. Sources' = Sources
      BY <2>1 DEF Sources
    <2> QED BY <1>1, <2>1, <2>2 DEF Wanted, Admitted
  <1>5. /\ Range(members) = Sources /\ pos = 1 /\ \A v \in Vertex : parentSeen[v] # stamp
        /\ Len(sinks) = Len(Request.sinks)
        /\ \A i \in 1 .. Len(sinks) :
              sinks[i] = IF Valid(Request.sinks[i]) /\ Request.sinks[i] \in Sources
                         THEN AlreadyIn(Request.sinks[i]) ELSE Missed(Request.sinks[i])
    BY <1>1, <1>3 DEF SourcesOnly
  <1>6. Request.sinks \in Seq(Int) /\ Len(Request.sinks) \in Nat
    BY <1>2, RequestFacts DEF Request
  <1>7. ASSUME NEW i \in 1 .. Len(sinks)
        PROVE  /\ target(i) = Request.sinks[i] /\ target(i) \in Int
               /\ target(i) \in Wanted <=> Valid(target(i)) /\ target(i) \notin Sources
               /\ sinks[i].reached => sinks[i].path = NoPath
    <2>1. target(i) = Request.sinks[i] /\ (sinks[i].reached => sinks[i].path = NoPath)
      BY <1>5, SinkFields
    <2>2. Request.sinks[i] \in Range(Request.sinks) /\ Request.sinks[i] \in Int
      BY <1>5, <1>6 DEF Range
    <2> QED BY <2>1, <2>2 DEF Wanted
  <1>8. ASSUME NEW t \in Wanted
        PROVE  /\ Accepted(t) <=> Found(t)
               /\ Found(t) => /\ answer.path[t] \in Settled(Sources, t, Admitted)
                              /\ Trim(answer.path[t]) = answer.path[t]
    <2>1. answer.certified => IF Admissible(Sources, t, Admitted) = {} THEN answer.path[t] = NoPath
                              ELSE answer.path[t] \in Settled(Sources, t, Admitted)
      BY <1>1, <1>3 DEF AnswerFits
    <2>2. answer.path[t] \in Settled(Sources, t, Admitted) => answer.path[t] # NoPath
      BY <1>2, SettledTight, SimplePathFacts
    <2>3. Accepted(t) <=> Found(t)
      BY <2>1, <2>2 DEF Accepted, Found
    <2>4. ASSUME answer.path[t] \in Settled(Sources, t, Admitted)
          PROVE  Trim(answer.path[t]) = answer.path[t]
      <3> DEFINE p == answer.path[t]
      <3>1. /\ p \in SimplePaths /\ PathSource(p) \in Sources
            /\ \A i \in 1 .. Len(p) : to[p[i]] \in Vertex \ Sources
            /\ Len(p) \in 1 .. Len(p)
        BY <1>2, <2>4, SettledTight, SimplePathFacts DEF Tight
      <3> HIDE DEF p
      <3>2. InTree(PathSource(p)) /\ \A i \in 1 .. Len(p) : ~InTree(to[p[i]])
        BY <1>1, <1>2, <1>3, <1>5, <3>1, InTreeMembers
      <3>3. Trim(p) = p
        BY <3>1, <3>2, TrimFacts
      <3> QED BY <3>3 DEF p
    <2> QED BY <2>1, <2>3, <2>4 DEF Found
  <1>80. \A t : Found(t)' <=> Found(t)
    BY <1>1, <1>4 DEF Found
  <1>9. ASSUME NEW i \in 1 .. Len(sinks)
        PROVE  /\ sinks'[i].target = Request.sinks[i] /\ sinks'[i] \in Sinks
               /\ sinks'[i].reached => sinks'[i].path = NoPath
               /\ Waiting(sinks[i])'
    <2>1. sinks'[i] = After(i)
      BY <1>1
    <2>2. PICK t : t = target(i)
      OBVIOUS
    <2>3. sinks'[i] = IF t \in Targets /\ Accepted(t) THEN Candidate(t, Trim(answer.path[t])) ELSE sinks[i]
      BY <2>1, <2>2
    <2>4. t = Request.sinks[i] /\ t \in Int /\ (t \in Wanted <=> Valid(t) /\ t \notin Sources)
      BY <1>7, <2>2
    <2>5. CASE t \in Wanted /\ Found(t)
      <3>1. PICK p : p = answer.path[t]
        OBVIOUS
      <3>2. sinks'[i] = Candidate(t, p) /\ p \in Settled(Sources, t, Admitted)
        BY <1>2, <1>8, <2>3, <2>5, <3>1
      <3>3. p \in Seq(Edge)
        BY <1>2, <2>5, <3>2, SettledTight, SimplePathFacts
      <3>4. sinks'[i].target = t /\ ~sinks'[i].reached
        BY <3>2, SinkFields
      <3>5. sinks'[i] \in Sinks
        BY <2>4, <3>2, <3>3, SinkTypes
      <3>6. Waiting(sinks[i])'
        BY <1>4, <1>80, <2>4, <2>5, <3>2, <3>4 DEF Waiting
      <3> QED BY <2>4, <3>4, <3>5, <3>6
    <2>6. CASE ~(t \in Wanted /\ Found(t))
      <3>1. sinks'[i] = sinks[i]
        BY <1>2, <1>8, <2>3, <2>6
      <3>2. sinks[i] \in Sinks
        BY <1>3 DEF TypeOK
      <3>3. sinks[i] = IF Valid(t) /\ t \in Sources THEN AlreadyIn(t) ELSE Missed(t)
        BY <1>5, <2>4
      <3>4. sinks'[i].target = t
        BY <2>2, <3>1
      <3>5. Waiting(sinks[i])'
        BY <1>4, <1>80, <2>4, <2>6, <3>1, <3>3, <3>4 DEF Waiting
      <3> QED BY <1>7, <2>4, <3>1, <3>2, <3>4, <3>5
    <2> QED BY <2>5, <2>6
  <1>10. Len(sinks') = Len(sinks) /\ Len(sinks) \in Nat /\ sinks' \in Seq(Sinks)
    <2>1. Len(sinks) \in Nat
      BY <1>5, <1>6
    <2>2. \A i \in 1 .. Len(sinks) : After(i) \in Sinks
      BY <1>1, <1>9
    <2> HIDE DEF After
    <2> QED BY <1>1, <2>1, <2>2
  <1>11. TypeOK' /\ StampFresh'
    <2>1. TypeOK'
      BY <1>1, <1>3, <1>10 DEF TypeOK
    <2> QED BY <1>1, <1>3, <2>1 DEF StampFresh
  <1>12. TreeMarked' /\ SourcesOnly' /\ InBounds' /\ NotRetried' /\ AnswerFits' /\ NetFinished'
    <2>1. TreeMarked'
      BY <1>1, <1>3 DEF TreeMarked
    <2>2. InBounds'
      BY <1>1, <1>3, <1>4 DEF InBounds
    <2>3. NetFinished'
      BY <1>1, <1>3 DEF NetFinished
    <2> QED BY <1>1, <2>1, <2>2, <2>3 DEF SourcesOnly, NotRetried, AnswerFits, Asking
  <1>13. Grown'
    <2>1. TreeEdges([sinks |-> sinks']) = {}
      BY <1>9, <1>10, NoTreeEdges
    <2>2. Hangs({}, members, Sources, Admitted)
      <3>1. members \in Seq(Vertex)
        BY <1>3 DEF TypeOK
      <3>2. IsInjective(members)
        BY <1>1, <1>3 DEF TreeMarked, Marked
      <3> QED BY <1>2, <1>5, <3>1, <3>2 DEF Hangs
    <2>3. answer.certified \in BOOLEAN
      BY <1>1, <1>3 DEF AnswerFits
    <2>4. ASSUME NEW t \in Wanted, Config.fallback, ~Found(t)
          PROVE  Admitted = Vertex
      <3>2. ~Accepted(t)
        BY <1>8, <2>4
      <3> QED BY <1>1, <1>3, <2>4, <3>2 DEF AnswerFits, Accepted
    <2>5. \A t \in Wanted' : Config.fallback /\ ~Found(t)' => Admitted' = Vertex
      BY <1>4, <1>80, <2>4
    <2>6. ASSUME NEW i \in 1 .. Len(sinks')
          PROVE  sinks'[i].target = Request'.sinks[i] /\ ~(i < pos') /\ Waiting(sinks[i])'
      <3>1. i \in 1 .. Len(sinks)
        BY <1>10
      <3>2. sinks'[i].target = Request.sinks[i] /\ Waiting(sinks[i])'
        BY <1>9, <3>1
      <3>3. pos' = 1 /\ Request' = Request
        BY <1>1, <1>4, <1>5
      <3>4. ~(i < pos')
        BY <3>1, <3>3
      <3> QED BY <3>2, <3>3, <3>4
    <2>7. Hangs(TreeEdges([sinks |-> sinks']), members', Sources', Admitted')
      BY <1>1, <1>4, <2>1, <2>2
    <2>8. answer'.certified \in BOOLEAN /\ Len(sinks') <= Len(Request'.sinks) /\ phase' # "finish"
          /\ \A v \in Vertex : parentSeen'[v] # stamp'
      BY <1>1, <1>4, <1>5, <1>6, <1>10, <2>3
    <2> QED BY <2>1, <2>5, <2>6, <2>7, <2>8 DEF Grown
  <1> QED BY <1>11, <1>12, <1>13 DEF Inv

-----------------------------------------------------------------------------
(* Joining the candidates. *)

\* One sink changes: the edges of its path join those of the others.
LEMMA TreeEdgesGrow ==
  ASSUME NEW ss, NEW rr, NEW k \in 1 .. Len(ss), Len(rr) = Len(ss),
         \A i \in 1 .. Len(ss) : i # k => rr[i] = ss[i],
         ss[k].reached => ss[k].path = NoPath
  PROVE  TreeEdges([sinks |-> rr]) =
            TreeEdges([sinks |-> ss]) \cup (IF rr[k].reached THEN Range(rr[k].path) ELSE {})
  <1> DEFINE J == {j \in 1 .. Len(ss) : ss[j].reached}
             H == {j \in 1 .. Len(ss) : rr[j].reached}
             E == UNION {Range(ss[i].path) : i \in J}
             F == UNION {Range(rr[i].path) : i \in H}
  <1>1. TreeEdges([sinks |-> ss]) = E /\ TreeEdges([sinks |-> rr]) = F
    BY DEF TreeEdges
  <1>2. ss[k].reached => Range(ss[k].path) = {}
    BY DEF Range, NoPath
  <1>3. ASSUME NEW e \in E
        PROVE  e \in F
    <2>1. PICK i \in J : e \in Range(ss[i].path)
      OBVIOUS
    <2>2. i # k
      BY <1>2, <2>1
    <2> QED BY <2>1, <2>2
  <1>4. ASSUME rr[k].reached
        PROVE  Range(rr[k].path) \subseteq F
    <2>1. k \in H
      BY <1>4
    <2> QED BY <2>1
  <1>5. ASSUME NEW e \in F
        PROVE  e \in E \/ (rr[k].reached /\ e \in Range(rr[k].path))
    <2>1. PICK i \in H : e \in Range(rr[i].path)
      OBVIOUS
    <2>2. CASE i = k
      BY <2>1, <2>2
    <2>3. CASE i # k
      <3>1. i \in J /\ e \in Range(ss[i].path)
        BY <2>1, <2>3
      <3> QED BY <3>1
    <2> QED BY <2>2, <2>3
  <1> HIDE DEF E, F
  <1> QED BY <1>1, <1>3, <1>4, <1>5

\* The sink whose turn it is.
LEMMA AttachingFacts ==
  ASSUME Inv, Attaching
  PROVE  /\ idx \in 1 .. Len(Requests) /\ Sources \in SUBSET Vertex /\ pos \in 1 .. Len(sinks)
         /\ Len(sinks) \in Nat /\ Len(sinks) <= Len(Request.sinks)
         /\ Sink = sinks[pos] /\ Sink \in Sinks /\ Sink.target = Request.sinks[pos] /\ Sink.target \in Int
         /\ Sink.target \in Wanted <=> Valid(Sink.target) /\ Sink.target \notin Sources
         /\ Waiting(Sink)
         /\ Hangs(TreeEdges([sinks |-> sinks]), members, Sources, Admitted)
         /\ \A v \in Vertex : InTree(v) <=> v \in Range(members)
         /\ Sources \subseteq Range(members) /\ Range(members) \subseteq Vertex
         /\ Sink.reached => Sink.path = NoPath
  <1>1. Joining /\ Routing /\ phase = "attach" /\ pos <= Len(sinks)
    BY DEF Attaching, Joining, Routing
  <1>2. TypeOK /\ TreeMarked /\ Grown
    BY DEF Inv
  <1>3. idx \in 1 .. Len(Requests)
    BY <1>1, <1>2, RequestCount DEF TypeOK, TreeMarked
  <1>4. Request.sinks \in Seq(Int) /\ Sources \in SUBSET Vertex
    BY <1>3, RequestFacts DEF Request, Sources
  <1>5. pos \in 1 .. Len(sinks) /\ sinks \in Seq(Sinks) /\ Len(sinks) \in Nat
    BY <1>1, <1>2 DEF TypeOK
  <1>6. /\ Len(sinks) <= Len(Request.sinks)
        /\ Hangs(TreeEdges([sinks |-> sinks]), members, Sources, Admitted)
        /\ sinks[pos].target = Request.sinks[pos] /\ Waiting(sinks[pos])
    BY <1>1, <1>2, <1>5 DEF Grown
  <1>7. pos \in 1 .. Len(Request.sinks)
    BY <1>4, <1>5, <1>6
  <1>8. Request.sinks[pos] \in Int /\ Request.sinks[pos] \in Range(Request.sinks)
    BY <1>4, <1>7 DEF Range
  <1>9. sinks[pos] \in Sinks
    BY <1>5
  <1>10. Sources \subseteq Range(members) /\ Range(members) \subseteq Vertex
    BY <1>6, GraphTypes DEF Hangs, Range
  <1>11. sinks[pos].reached => sinks[pos].path = NoPath
    <2>1. PICK s : s = sinks[pos]
      OBVIOUS
    <2>2. Waiting(s)
      BY <1>6, <2>1
    <2>3. s.reached => s.path = NoPath
      BY <2>2, SinkFields DEF Waiting
    <2> QED BY <2>1, <2>3
  <1>12. \A v \in Vertex : InTree(v) <=> v \in Range(members)
    BY <1>1, <1>2, InTreeMembers
  <1> QED BY <1>3, <1>4, <1>5, <1>6, <1>8, <1>9, <1>10, <1>11, <1>12 DEF Sink, Wanted

\* A node of the tree beyond the sources has been found under a certificate.
LEMMA HungIsFound ==
  ASSUME Inv, Joining, NEW t \in Range(members) \ Sources
  PROVE  Found(t)
  <1>1. /\ Hangs(TreeEdges([sinks |-> sinks]), members, Sources, Admitted)
        /\ TreeEdges([sinks |-> sinks]) # {} => answer.certified
    BY DEF Inv, Grown
  <1>2. PICK e \in TreeEdges([sinks |-> sinks]) : to[e] = t
    BY <1>1 DEF Hangs
  <1>3. Cheapest(Sources, t, Admitted) # {} /\ answer.certified
    BY <1>1, <1>2 DEF Hangs, Tight
  <1>4. Admissible(Sources, t, Admitted) # {}
    BY <1>3 DEF Cheapest
  <1> QED BY <1>3, <1>4 DEF Found

\* A candidate is a settled path from a source; what is trimmed of it leads from
\* the tree through new nodes only.
LEMMA CandidateFacts ==
  ASSUME Inv, Attaching, HasCandidate
  PROVE  /\ Sink.target \in Wanted /\ Found(Sink.target)
         /\ LET p == Trim(Sink.path) IN
            /\ p \in Seq(Edge) /\ Len(p) \in Nat \ {0}
            /\ PathSource(p) \in Range(members) /\ Simple(p)
            /\ to[p[Len(p)]] = Sink.target
            /\ \A i \in 1 .. Len(p) :
                  p[i] \in Edge /\ to[p[i]] \in Vertex \ Range(members) /\ Tight(p[i], Sources, Admitted)
  <1> DEFINE t == Sink.target
  <1>1. Valid(t) /\ ~InTree(t) /\ Sink.distance # Inf
    BY DEF HasCandidate
  <1>2. /\ Waiting(Sink) /\ \A v \in Vertex : InTree(v) <=> v \in Range(members)
        /\ Sources \subseteq Range(members) /\ Sources \in SUBSET Vertex
        /\ t \in Wanted <=> Valid(t) /\ t \notin Sources
    BY AttachingFacts
  <1>3. t \in Vertex /\ t \in Wanted /\ t \notin Sources
    BY <1>1, <1>2 DEF Valid
  <1>4. PICK s : s = Sink
    OBVIOUS
  <1>5. Found(t) /\ \E p \in Settled(Sources, t, Admitted) : s = Candidate(t, p)
    BY <1>1, <1>2, <1>3, <1>4, SinkFields DEF Waiting
  <1>6. PICK q \in Settled(Sources, t, Admitted) : s = Candidate(t, q)
    BY <1>5
  <1>7. Sink.path = q
    BY <1>4, <1>6, SinkFields
  <1>8. /\ q \in Cheapest(Sources, t, Admitted) /\ q \in SimplePaths /\ PathSource(q) \in Sources
        /\ \A i \in 1 .. Len(q) : Tight(q[i], Sources, Admitted)
    BY <1>3, <1>6, SettledTight
  <1>9. to[q[Len(q)]] = t
    BY <1>8, CheapestFacts
  <1>10. InTree(PathSource(q)) /\ ~InTree(to[q[Len(q)]])
    BY <1>1, <1>2, <1>8, <1>9
  <1> DEFINE p == Trim(q)
  <1>11. /\ p \in Seq(Edge) /\ Len(p) \in Nat \ {0}
         /\ InTree(PathSource(p)) /\ Simple(p) /\ p[Len(p)] = q[Len(q)]
         /\ \A i \in 1 .. Len(p) :
               p[i] \in Range(q) /\ p[i] \in Edge /\ to[p[i]] \in Vertex /\ ~InTree(to[p[i]])
         /\ PathSource(p) = PathSource(q) \/ \E i \in 1 .. Len(q) : PathSource(p) = to[q[i]]
    BY <1>8, <1>10, TrimFacts
  <1> HIDE DEF p
  <1>12. q \in Seq(Edge) /\ \A i \in 1 .. Len(q) : to[q[i]] \in Vertex
    BY <1>8, SimplePathFacts
  <1>13. PathSource(p) \in Range(members)
    <2>1. PathSource(p) \in Vertex
      BY <1>2, <1>8, <1>11, <1>12
    <2> QED BY <1>2, <1>11, <2>1
  <1>14. \A e \in Range(q) : Tight(e, Sources, Admitted)
    BY <1>8, <1>12 DEF Range
  <1>15. \A i \in 1 .. Len(p) :
            p[i] \in Edge /\ to[p[i]] \in Vertex \ Range(members) /\ Tight(p[i], Sources, Admitted)
    BY <1>2, <1>11, <1>14
  <1>16. Trim(Sink.path) = p
    BY <1>7 DEF p
  <1> QED BY <1>3, <1>5, <1>9, <1>11, <1>13, <1>15, <1>16

\* So no node of a trimmed candidate has a parent yet.
LEMMA CandidateAttaches ==
  ASSUME Inv, Attaching, HasCandidate
  PROVE  SingleParent(Trim(Sink.path))
  <1>1. \A i \in 1 .. Len(Trim(Sink.path)) :
           to[Trim(Sink.path)[i]] \in Vertex \ Range(members)
    BY CandidateFacts
  <1>2. \A v \in Vertex : parentSeen[v] = stamp => v \in Range(members)
    BY DEF Inv, Grown, Attaching, Joining
  <1> QED BY <1>1, <1>2 DEF SingleParent

\* What both ways of treating a sink have in common.
LEMMA OneSinkTreated ==
  ASSUME Inv, Attaching, phase' = phase, pos' = pos + 1,
         UNCHANGED <<idx, stamp, bounds, retried, answer, nets>>,
         NEW s \in Sinks, sinks' = [sinks EXCEPT ![pos] = s], s.target = Sink.target,
         members' \in Seq(Vertex), Range(members) \subseteq Range(members'),
         treeSeen' \in [Vertex -> Nat], parentSeen' \in [Vertex -> Nat],
         \A v \in Vertex : treeSeen'[v] <= stamp /\ parentSeen'[v] <= stamp,
         Marked([seen |-> treeSeen', nodes |-> members'], stamp),
         Hangs(TreeEdges([sinks |-> sinks]) \cup (IF s.reached THEN Range(s.path) ELSE {}),
               members', Sources, Admitted),
         \A v \in Vertex : parentSeen'[v] = stamp => v \in Range(members'),
         Treated(s, Sources, answer.certified, Admitted, members'),
         s.reached /\ s.path # NoPath => answer.certified
  PROVE  Inv'
  <1>1. /\ TypeOK /\ InBounds /\ Grown /\ NetFinished
        /\ idx' = idx /\ stamp' = stamp /\ bounds' = bounds /\ retried' = retried
        /\ answer' = answer /\ nets' = nets /\ phase' = "attach" /\ phase = "attach"
    BY DEF Inv, Attaching
  <1>2. /\ pos \in 1 .. Len(sinks) /\ Len(sinks) \in Nat /\ Sink = sinks[pos] /\ Len(sinks) <= Len(Request.sinks)
        /\ Sink.target = Request.sinks[pos] /\ (Sink.reached => Sink.path = NoPath)
        /\ idx \in 1 .. Len(Requests)
    BY AttachingFacts
  <1>3. Request' = Request /\ Sources' = Sources /\ Wanted' = Wanted /\ Admitted' = Admitted
    <2>1. Request' = Request
      BY <1>1 DEF Request
    <2>2. Sources' = Sources
      BY <2>1 DEF Sources
    <2> QED BY <1>1, <2>1, <2>2 DEF Wanted, Admitted
  <1>4. \A t : Found(t)' <=> Found(t)
    BY <1>1, <1>3 DEF Found
  <1>5. sinks \in Seq(Sinks)
    BY <1>1 DEF TypeOK
  <1>6. /\ sinks' \in Seq(Sinks) /\ Len(sinks') = Len(sinks) /\ sinks'[pos] = s
        /\ \A i \in 1 .. Len(sinks) : i # pos => sinks'[i] = sinks[i]
    BY <1>2, <1>5
  <1>7. TypeOK' /\ StampFresh'
    <2>1. pos' \in Nat \ {0}
      BY <1>2
    <2>2. TypeOK'
      BY <1>1, <1>6, <2>1 DEF TypeOK
    <2> QED BY <1>1, <2>2 DEF StampFresh
  <1>8. TreeMarked' /\ SourcesOnly' /\ NotRetried' /\ AnswerFits'
    BY <1>1, <1>2 DEF TreeMarked, SourcesOnly, NotRetried, AnswerFits, Asking
  <1>9. InBounds' /\ NetFinished'
    <2>1. InBounds'
      BY <1>1, <1>3 DEF InBounds, Routing
    <2> QED BY <1>1, <2>1 DEF NetFinished
  <1>10. /\ answer.certified \in BOOLEAN
         /\ TreeEdges([sinks |-> sinks]) # {} => answer.certified
         /\ \A t \in Wanted : Config.fallback /\ ~Found(t) => Admitted = Vertex
         /\ \A i \in 1 .. Len(sinks) :
               /\ sinks[i].target = Request.sinks[i]
               /\ IF i < pos THEN Treated(sinks[i], Sources, answer.certified, Admitted, members)
                  ELSE Waiting(sinks[i])
    BY <1>1 DEF Grown, Joining
  <1>11. TreeEdges([sinks |-> sinks']) =
            TreeEdges([sinks |-> sinks]) \cup (IF s.reached THEN Range(s.path) ELSE {})
    <2>1. sinks[pos].reached => sinks[pos].path = NoPath
      BY <1>2
    <2>2. PICK ss : ss = sinks
      OBVIOUS
    <2>3. PICK rr : rr = sinks'
      OBVIOUS
    <2>4. PICK k : k = pos
      OBVIOUS
    <2>5. /\ k \in 1 .. Len(ss) /\ Len(rr) = Len(ss)
          /\ \A i \in 1 .. Len(ss) : i # k => rr[i] = ss[i]
          /\ ss[k].reached => ss[k].path = NoPath
      BY <1>2, <1>6, <2>1, <2>2, <2>3, <2>4
    <2>6. TreeEdges([sinks |-> rr]) =
             TreeEdges([sinks |-> ss]) \cup (IF rr[k].reached THEN Range(rr[k].path) ELSE {})
      BY <2>5, TreeEdgesGrow
    <2> QED BY <1>6, <2>2, <2>3, <2>4, <2>6
  <1>12. TreeEdges([sinks |-> sinks']) # {} => answer'.certified
    <2>1. Range(NoPath) = {}
      BY DEF Range, NoPath
    <2> QED BY <1>1, <1>10, <1>11, <2>1
  <1>13. ASSUME NEW i \in 1 .. Len(sinks')
         PROVE  /\ sinks'[i].target = Request.sinks[i]
                /\ i < pos' => Treated(sinks'[i], Sources, answer.certified, Admitted, members')
                /\ ~(i < pos') => Waiting(sinks[i])'
    <2>1. i \in 1 .. Len(sinks) /\ i \in Nat /\ pos \in Nat /\ pos' = pos + 1
      BY <1>2, <1>6
    <2>2. CASE i = pos
      <3>1. i < pos' /\ sinks'[i] = s
        BY <1>6, <2>1, <2>2
      <3> QED BY <1>2, <2>2, <3>1
    <2>3. CASE i # pos
      <3>1. sinks'[i] = sinks[i] /\ (i < pos' <=> i < pos)
        BY <1>6, <2>1, <2>3
      <3>2. PICK q : q = sinks[i]
        OBVIOUS
      <3>3. q.target = Request.sinks[i] /\ sinks'[i] = q
        BY <1>10, <2>1, <3>1, <3>2
      <3>4. i < pos => Treated(q, Sources, answer.certified, Admitted, members')
        <4>1. i < pos => Treated(q, Sources, answer.certified, Admitted, members)
          BY <1>10, <2>1, <3>2
        <4> QED BY <4>1 DEF Treated
      <3>5. ~(i < pos) => Waiting(q)
        BY <1>10, <2>1, <3>2
      <3>6. ~(i < pos) => Waiting(sinks[i])'
        BY <1>3, <1>4, <3>3, <3>5 DEF Waiting
      <3> QED BY <3>1, <3>3, <3>4, <3>6
    <2> QED BY <2>2, <2>3
  <1>14. Grown'
    <2>1. Hangs(TreeEdges([sinks |-> sinks']), members', Sources', Admitted')
      BY <1>3, <1>11
    <2>2. \A t \in Wanted' : Config.fallback /\ ~Found(t)' => Admitted' = Vertex
      BY <1>3, <1>4, <1>10
    <2>3. ASSUME NEW i \in 1 .. Len(sinks')
          PROVE  /\ sinks'[i].target = Request'.sinks[i]
                 /\ i < pos' => Treated(sinks'[i], Sources', answer'.certified, Admitted', members')
                 /\ ~(i < pos') => Waiting(sinks[i])'
      BY <1>1, <1>3, <1>13
    <2>4. answer'.certified \in BOOLEAN /\ Len(sinks') <= Len(Request'.sinks) /\ phase' # "finish"
          /\ \A v \in Vertex : parentSeen'[v] = stamp' => v \in Range(members')
      BY <1>1, <1>2, <1>3, <1>6, <1>10
    <2> QED BY <1>12, <2>1, <2>2, <2>3, <2>4 DEF Grown
  <1> QED BY <1>7, <1>8, <1>9, <1>14 DEF Inv

\* A sink that joins nothing keeps the tree.
LEMMA AttachNothingInv ==
  ASSUME Inv, AttachNothing
  PROVE  Inv'
  <1> DEFINE t == Sink.target
  <1>1. /\ Attaching /\ ~HasCandidate /\ pos' = pos + 1 /\ phase' = phase
        /\ UNCHANGED <<idx, stamp, bounds, retried, answer, nets>>
        /\ members' = members /\ treeSeen' = treeSeen /\ parentSeen' = parentSeen
        /\ sinks' = [sinks EXCEPT ![pos] =
                       IF Valid(@.target) /\ InTree(@.target) THEN AlreadyIn(@.target) ELSE @]
    BY DEF AttachNothing, scratch
  <1>2. /\ pos \in 1 .. Len(sinks) /\ Sink = sinks[pos] /\ Sink \in Sinks /\ t \in Int
        /\ t \in Wanted <=> Valid(t) /\ t \notin Sources
        /\ Waiting(Sink) /\ Hangs(TreeEdges([sinks |-> sinks]), members, Sources, Admitted)
        /\ \A v \in Vertex : InTree(v) <=> v \in Range(members)
        /\ Sources \subseteq Range(members) /\ Sources \in SUBSET Vertex
        /\ Sink.reached => Sink.path = NoPath
    BY <1>1, AttachingFacts
  <1>3. PICK s : s = IF Valid(t) /\ InTree(t) THEN AlreadyIn(t) ELSE Sink
    OBVIOUS
  <1>4. sinks' = [sinks EXCEPT ![pos] = s]
    BY <1>1, <1>2, <1>3
  <1>5. s \in Sinks /\ s.target = t /\ (s.reached => s.path = NoPath)
    BY <1>2, <1>3, SinkTypes, SinkFields
  <1>6. Treated(s, Sources, answer.certified, Admitted, members)
    <2>1. CASE ~Valid(t)
      <3>1. s = Missed(t)
        BY <1>2, <1>3, <2>1 DEF Waiting
      <3> QED BY <2>1, <3>1, SinkFields DEF Treated
    <2>2. CASE t \in Sources
      <3>1. Valid(t) /\ t \in Range(members)
        BY <1>2, <2>2 DEF Valid
      <3> QED BY <1>5, <2>2, <3>1 DEF Treated
    <2>3. CASE t \in Wanted /\ Found(t)
      <3>1. PICK q : q = Sink
        OBVIOUS
      <3>2. \E p \in Settled(Sources, t, Admitted) : q = Candidate(t, p)
        BY <1>2, <2>3, <3>1 DEF Waiting
      <3>3. PICK p \in Settled(Sources, t, Admitted) : q = Candidate(t, p)
        BY <3>2
      <3>4. PathCost(p) # Inf
        BY <1>2, <2>3, SettledTight, CheapestFacts DEF Valid
      <3>5. Sink.distance # Inf
        BY <3>1, <3>3, <3>4, SinkFields
      <3>6. InTree(t) /\ Valid(t)
        BY <1>1, <1>2, <2>3, <3>5 DEF HasCandidate
      <3>7. s = AlreadyIn(t) /\ t \in Range(members)
        BY <1>2, <1>3, <3>6 DEF Valid
      <3> QED BY <2>3, <3>7, SinkFields DEF Treated, Found
    <2>4. CASE t \in Wanted /\ ~Found(t)
      <3>1. Sink = Missed(t)
        BY <1>2, <2>4 DEF Waiting
      <3>2. ~InTree(t)
        <4>1. t \in Vertex \ Sources
          BY <1>2, <2>4 DEF Valid
        <4>2. Joining
          BY <1>1 DEF Attaching, Joining
        <4> QED BY <1>2, <2>4, <4>1, <4>2, HungIsFound
      <3>3. s = Missed(t)
        BY <1>3, <3>1, <3>2
      <3>4. Config.fallback => Admitted = Vertex
        BY <1>1, <2>4 DEF Inv, Grown, Attaching, Joining
      <3> QED BY <2>4, <3>3, <3>4, SinkFields DEF Treated, Found
    <2> QED BY <1>2, <2>1, <2>2, <2>3, <2>4
  <1>7. Hangs(TreeEdges([sinks |-> sinks]) \cup (IF s.reached THEN Range(s.path) ELSE {}),
              members, Sources, Admitted)
    <2>1. Range(NoPath) = {}
      BY DEF Range, NoPath
    <2>2. TreeEdges([sinks |-> sinks]) \cup (IF s.reached THEN Range(s.path) ELSE {}) = TreeEdges([sinks |-> sinks])
      BY <1>5, <2>1
    <2> QED BY <1>2, <2>2
  <1>8. /\ members \in Seq(Vertex) /\ treeSeen \in [Vertex -> Nat] /\ parentSeen \in [Vertex -> Nat]
        /\ \A v \in Vertex : treeSeen[v] <= stamp /\ parentSeen[v] <= stamp
        /\ Marked([seen |-> treeSeen, nodes |-> members], stamp)
        /\ \A v \in Vertex : parentSeen[v] = stamp => v \in Range(members)
    BY <1>1 DEF Inv, TypeOK, StampFresh, TreeMarked, Grown, Attaching, Joining, Routing
  <1>9. members' \in Seq(Vertex) /\ Range(members) \subseteq Range(members')
        /\ treeSeen' \in [Vertex -> Nat] /\ parentSeen' \in [Vertex -> Nat]
        /\ (\A v \in Vertex : treeSeen'[v] <= stamp /\ parentSeen'[v] <= stamp)
        /\ Marked([seen |-> treeSeen', nodes |-> members'], stamp)
        /\ (\A v \in Vertex : parentSeen'[v] = stamp => v \in Range(members'))
    BY <1>1, <1>8
  <1>10. Hangs(TreeEdges([sinks |-> sinks]) \cup (IF s.reached THEN Range(s.path) ELSE {}),
               members', Sources, Admitted)
         /\ Treated(s, Sources, answer.certified, Admitted, members')
    BY <1>1, <1>6, <1>7
  <1> QED BY <1>1, <1>4, <1>5, <1>9, <1>10, OneSinkTreated

\* A sequence over a set is one over a larger set.
LEMMA SeqOfLarger ==
  ASSUME NEW S, NEW T, S \subseteq T, NEW q \in Seq(S)
  PROVE  q \in Seq(T)
  <1>1. Len(q) \in Nat /\ q \in [1 .. Len(q) -> S]
    OBVIOUS
  <1>2. q = [i \in 1 .. Len(q) |-> q[i]] /\ \A i \in 1 .. Len(q) : q[i] \in T
    BY <1>1
  <1> QED BY <1>1, <1>2

\* A path from the tree through new nodes is hung below it.
LEMMA PathHung ==
  ASSUME NEW E, NEW nodes, NEW S, NEW A, Hangs(E, nodes, S, A),
         NEW p \in Seq(Edge), Len(p) \in Nat \ {0}, PathSource(p) \in Range(nodes), Simple(p),
         \A i \in 1 .. Len(p) :
            p[i] \in Edge /\ to[p[i]] \in Vertex \ Range(nodes) /\ Tight(p[i], S, A),
         NEW seen \in [Vertex -> Nat], NEW st \in Nat, Marked([seen |-> seen, nodes |-> nodes], st)
  PROVE  LET q == <<PathSource(p)>> \o [i \in 1 .. Len(p) |-> to[p[i]]]
             r == AddAll([seen |-> seen, nodes |-> nodes], q, st)
         IN  /\ r.nodes \in Seq(Vertex) /\ r.seen \in [Vertex -> Nat] /\ Marked(r, st)
             /\ Range(nodes) \subseteq Range(r.nodes)
             /\ \A i \in 1 .. Len(p) : to[p[i]] \in Range(r.nodes)
             /\ \A v \in Vertex : r.seen[v] = seen[v] \/ r.seen[v] = st
             /\ Hangs(E \cup Range(p), r.nodes, S, A)
  <1> DEFINE n == Len(p)
             ends == [i \in 1 .. n |-> to[p[i]]]
             q == <<PathSource(p)>> \o ends
             base == [seen |-> seen, nodes |-> nodes]
             r == AddAll(base, q, st)
  <1>1. /\ E \in SUBSET Edge /\ S \in SUBSET Vertex /\ nodes \in Seq(Vertex) /\ IsInjective(nodes)
        /\ Range(nodes) = S \cup {to[e] : e \in E}
        /\ \A e \in E : Tight(e, S, A) /\ Before(nodes, SourceForEdge(e), to[e])
        /\ \A e, f \in E : to[e] = to[f] => e = f
    BY DEF Hangs
  <1>2. n \in Nat /\ n >= 1 /\ DOMAIN p = 1 .. n /\ Range(nodes) \subseteq Vertex
    BY <1>1 DEF Range
  <1>3. /\ q \in Seq(Vertex) /\ Len(q) = n + 1 /\ q[1] = PathSource(p)
        /\ \A i \in 1 .. n : q[i + 1] = to[p[i]]
    <2>1. ends \in Seq(Vertex) /\ Len(ends) = n /\ \A i \in 1 .. n : ends[i] = to[p[i]]
      BY <1>2
    <2>2. PathSource(p) \in Vertex
      BY <1>2
    <2> HIDE DEF ends
    <2>3. <<PathSource(p)>> \in Seq(Vertex) /\ Len(<<PathSource(p)>>) = 1 /\ <<PathSource(p)>>[1] = PathSource(p)
      BY <2>2
    <2> QED BY <1>2, <2>1, <2>3
  <1> HIDE DEF q
  <1>4. q \in Seq(Int)
    <2>1. Vertex \subseteq Int
      BY DEF Vertex
    <2> QED BY <1>3, <2>1, SeqOfLarger
  <1>5. base \in Tree /\ base.nodes = nodes /\ base.seen = seen
    BY <1>1 DEF Tree
  <1>6. Joined(r, base, q, n + 1, st)
    <2> HIDE DEF base
    <2>1. Marked(base, st)
      BY DEF base
    <2> QED BY <1>3, <1>4, <1>5, <2>1, AddAllResult
  <1> HIDE DEF base, r
  <1>7. /\ r.nodes \in Seq(Vertex) /\ r.seen \in [Vertex -> Nat] /\ Marked(r, st) /\ IsInjective(r.nodes)
        /\ Range(r.nodes) = Range(nodes) \cup ({q[j] : j \in 1 .. n + 1} \cap Vertex)
        /\ \A v \in Vertex : r.seen[v] = seen[v] \/ r.seen[v] = st
        /\ Prolongs(nodes, r.nodes)
    BY <1>5, <1>6 DEF Joined, Tree, Marked
  <1>8. Range(r.nodes) = Range(nodes) \cup {to[p[i]] : i \in 1 .. n}
    <2>1. \A j \in 1 .. n + 1 : j = 1 \/ (j - 1 \in 1 .. n /\ q[j] = to[p[j - 1]])
      <3> TAKE j \in 1 .. n + 1
      <3>1. j # 1 => j - 1 \in 1 .. n /\ (j - 1) + 1 = j
        BY <1>2
      <3> QED BY <1>3, <3>1
    <2>2. \A i \in 1 .. n : i + 1 \in 1 .. n + 1 /\ q[i + 1] = to[p[i]] /\ to[p[i]] \in Vertex
      BY <1>2, <1>3
    <2>3. q[1] \in Range(nodes)
      BY <1>3
    <2>4. {q[j] : j \in 1 .. n + 1} \subseteq {q[1]} \cup {to[p[i]] : i \in 1 .. n}
      BY <2>1
    <2>5. {to[p[i]] : i \in 1 .. n} \subseteq {q[j] : j \in 1 .. n + 1} \cap Vertex
      BY <2>2
    <2> QED BY <1>7, <2>3, <2>4, <2>5
  <1>9. ASSUME NEW i \in 1 .. n
        PROVE  Before(r.nodes, SourceForEdge(p[i]), to[p[i]])
    <2>1. i \in 1 .. (n + 1) - 1 /\ q[i + 1] = to[p[i]] /\ i \in Nat
      BY <1>2, <1>3
    <2>2. q[i] = SourceForEdge(p[i]) /\ q[i] \in Vertex
      <3>1. CASE i = 1
        BY <1>2, <1>3, <3>1 DEF PathSource
      <3>2. CASE i # 1
        <4>1. i - 1 \in 1 .. n /\ (i - 1) + 1 = i /\ i > 1
          BY <1>2, <3>2
        <4>2. SourceForEdge(p[i]) = to[p[i - 1]]
          BY <4>1 DEF Simple
        <4> QED BY <1>3, <4>1, <4>2
      <3> QED BY <3>1, <3>2
    <2>3. Fresh(base, q, i + 1)
      <3>1. q[i + 1] \in Vertex \ Range(nodes)
        BY <2>1
      <3>2. ASSUME NEW j \in 1 .. (i + 1) - 1
            PROVE  q[j] # q[i + 1]
        <4>1. CASE j = 1
          BY <1>3, <3>1, <4>1
        <4>2. CASE j # 1
          <5>1. j - 1 \in 1 .. i - 1 /\ j - 1 \in 1 .. n /\ (j - 1) + 1 = j
            BY <1>2, <4>2
          <5>2. to[p[j - 1]] # to[p[i]]
            BY <5>1 DEF Simple
          <5> QED BY <1>3, <2>1, <5>1, <5>2
        <4> QED BY <4>1, <4>2
      <3> QED BY <1>5, <3>1, <3>2 DEF Fresh
    <2>4. Before(r.nodes, q[i], q[i + 1])
      BY <1>6, <2>1, <2>2, <2>3 DEF Joined
    <2> QED BY <2>1, <2>2, <2>4
  <1>10. ASSUME NEW e \in E \cup Range(p)
         PROVE  e \in Edge /\ Tight(e, S, A) /\ Before(r.nodes, SourceForEdge(e), to[e])
    <2>1. CASE e \in E
      <3>1. Before(nodes, SourceForEdge(e), to[e])
        BY <1>1, <2>1
      <3>2. Before(r.nodes, SourceForEdge(e), to[e])
        BY <1>1, <1>7, <3>1, BeforeProlonged
      <3> QED BY <1>1, <2>1, <3>2
    <2>2. CASE e \in Range(p)
      <3>1. PICK i \in 1 .. n : p[i] = e
        BY <1>2, <2>2 DEF Range
      <3> QED BY <1>9, <3>1
    <2> QED BY <2>1, <2>2
  <1>11. ASSUME NEW e \in E \cup Range(p), NEW f \in E \cup Range(p), to[e] = to[f]
         PROVE  e = f
    <2>1. \A d \in E : to[d] \in Range(nodes)
      BY <1>1
    <2>2. \A d \in Range(p) : to[d] \notin Range(nodes)
      BY <1>2 DEF Range
    <2>3. CASE e \in E
      BY <1>1, <1>11, <2>1, <2>2, <2>3
    <2>4. CASE e \in Range(p)
      <3>1. f \in Range(p)
        BY <1>11, <2>1, <2>2, <2>4
      <3>2. PICK i \in 1 .. n, j \in 1 .. n : p[i] = e /\ p[j] = f
        BY <1>2, <2>4, <3>1 DEF Range
      <3>3. i < j \/ j < i \/ i = j
        BY <1>2
      <3>4. CASE i < j
        <4>1. i \in 1 .. j - 1
          BY <1>2, <3>4
        <4> QED BY <1>11, <3>2, <4>1 DEF Simple
      <3>5. CASE j < i
        <4>1. j \in 1 .. i - 1
          BY <1>2, <3>5
        <4> QED BY <1>11, <3>2, <4>1 DEF Simple
      <3> QED BY <3>2, <3>3, <3>4, <3>5
    <2> QED BY <2>3, <2>4
  <1>12. Range(r.nodes) = S \cup {to[e] : e \in E \cup Range(p)}
    <2>1. {to[e] : e \in Range(p)} = {to[p[i]] : i \in 1 .. n}
      BY <1>2 DEF Range
    <2> QED BY <1>1, <1>8, <2>1
  <1>13. Hangs(E \cup Range(p), r.nodes, S, A)
    <2>1. E \cup Range(p) \in SUBSET Edge
      BY <1>10
    <2> QED BY <1>1, <1>7, <1>10, <1>11, <1>12, <2>1 DEF Hangs
  <1>14. /\ r.nodes \in Seq(Vertex) /\ r.seen \in [Vertex -> Nat] /\ Marked(r, st)
         /\ Range(nodes) \subseteq Range(r.nodes)
         /\ \A i \in 1 .. Len(p) : to[p[i]] \in Range(r.nodes)
         /\ \A v \in Vertex : r.seen[v] = seen[v] \/ r.seen[v] = st
    BY <1>7, <1>8
  <1> QED BY <1>13, <1>14 DEF r, base, q

\* A candidate is hung below the tree, one parent for every new node.
LEMMA AttachPathInv ==
  ASSUME Inv, AttachPath
  PROVE  Inv'
  <1> DEFINE t == Sink.target
             p == Trim(Sink.path)
             q == <<PathSource(p)>> \o [i \in 1 .. Len(p) |-> to[p[i]]]
             tree == AddAll([seen |-> treeSeen, nodes |-> members], q, stamp)
             children == {to[p[i]] : i \in 1 .. Len(p)}
             s == [Candidate(t, p) EXCEPT !.reached = TRUE]
  <1>1. /\ Attaching /\ HasCandidate /\ pos' = pos + 1 /\ phase' = phase
        /\ UNCHANGED <<idx, stamp, bounds, retried, answer, nets>>
    BY DEF AttachPath
  <1>2. SingleParent(p)
    BY <1>1, CandidateAttaches
  <1>3. /\ pos \in 1 .. Len(sinks) /\ Sink = sinks[pos] /\ t \in Int
        /\ Hangs(TreeEdges([sinks |-> sinks]), members, Sources, Admitted)
        /\ Sources \in SUBSET Vertex
    BY <1>1, AttachingFacts
  <1>4. /\ parentSeen' = [v \in Vertex |-> IF v \in children THEN stamp ELSE parentSeen[v]]
        /\ treeSeen' = tree.seen /\ members' = tree.nodes
        /\ sinks' = [sinks EXCEPT ![pos] = s]
    <2>1. /\ parentSeen' = [v \in Vertex |-> IF v \in children THEN stamp ELSE parentSeen[v]]
          /\ treeSeen' = tree.seen /\ members' = tree.nodes
          /\ sinks' = [sinks EXCEPT ![pos] = [Candidate(@.target, p) EXCEPT !.reached = TRUE]]
      BY <1>2 DEF AttachPath
    <2> HIDE DEF p, tree, children
    <2> QED BY <1>3, <2>1
  <1>5. /\ t \in Wanted /\ Found(t)
        /\ p \in Seq(Edge) /\ Len(p) \in Nat \ {0}
        /\ PathSource(p) \in Range(members) /\ Simple(p) /\ to[p[Len(p)]] = t
        /\ \A i \in 1 .. Len(p) :
              p[i] \in Edge /\ to[p[i]] \in Vertex \ Range(members) /\ Tight(p[i], Sources, Admitted)
    BY <1>1, CandidateFacts
  <1> HIDE DEF p
  <1>6. /\ members \in Seq(Vertex) /\ treeSeen \in [Vertex -> Nat] /\ parentSeen \in [Vertex -> Nat]
        /\ stamp \in Nat
        /\ \A v \in Vertex : treeSeen[v] <= stamp /\ parentSeen[v] <= stamp
        /\ Marked([seen |-> treeSeen, nodes |-> members], stamp)
        /\ \A v \in Vertex : parentSeen[v] = stamp => v \in Range(members)
    BY <1>1 DEF Inv, TypeOK, StampFresh, TreeMarked, Grown, Attaching, Joining, Routing
  <1>7. /\ tree.nodes \in Seq(Vertex) /\ tree.seen \in [Vertex -> Nat] /\ Marked(tree, stamp)
        /\ Range(members) \subseteq Range(tree.nodes)
        /\ \A i \in 1 .. Len(p) : to[p[i]] \in Range(tree.nodes)
        /\ \A v \in Vertex : tree.seen[v] = treeSeen[v] \/ tree.seen[v] = stamp
        /\ Hangs(TreeEdges([sinks |-> sinks]) \cup Range(p), tree.nodes, Sources, Admitted)
    BY <1>3, <1>5, <1>6, PathHung
  <1> HIDE DEF tree
  <1>8. s \in Sinks /\ s.target = t /\ s.reached /\ s.path = p
    BY <1>3, <1>5, SinkTypes, SinkFields
  <1> HIDE DEF s
  <1>9. /\ members' \in Seq(Vertex) /\ Range(members) \subseteq Range(members')
        /\ treeSeen' \in [Vertex -> Nat]
        /\ Marked([seen |-> treeSeen', nodes |-> members'], stamp)
    BY <1>4, <1>7 DEF Marked
  <1>10. /\ parentSeen' \in [Vertex -> Nat]
         /\ \A v \in Vertex : treeSeen'[v] <= stamp /\ parentSeen'[v] <= stamp
         /\ \A v \in Vertex : parentSeen'[v] = stamp => v \in Range(members')
    <2>1. \A v \in children : v \in Range(tree.nodes)
      BY <1>7
    <2>2. \A v \in Vertex : parentSeen'[v] = IF v \in children THEN stamp ELSE parentSeen[v]
      BY <1>4
    <2> HIDE DEF children
    <2>3. parentSeen' \in [Vertex -> Nat]
      BY <1>4, <1>6
    <2>4. ASSUME NEW v \in Vertex
          PROVE  treeSeen'[v] <= stamp /\ parentSeen'[v] <= stamp
      <3>1. stamp <= stamp
        BY <1>6
      <3> QED BY <1>4, <1>6, <1>7, <2>2, <3>1
    <2>5. ASSUME NEW v \in Vertex, parentSeen'[v] = stamp
          PROVE  v \in Range(members')
      BY <1>4, <1>6, <1>7, <2>1, <2>2, <2>5
    <2> QED BY <2>3, <2>4, <2>5
  <1>11. Hangs(TreeEdges([sinks |-> sinks]) \cup (IF s.reached THEN Range(s.path) ELSE {}),
               members', Sources, Admitted)
    BY <1>4, <1>7, <1>8
  <1>12. Treated(s, Sources, answer.certified, Admitted, members')
    <2>1. t \in Range(members')
      <3>1. Len(p) \in 1 .. Len(p)
        BY <1>5
      <3> QED BY <1>4, <1>5, <1>7, <3>1
    <2> QED BY <1>5, <1>8, <2>1 DEF Treated, Found
  <1>13. answer.certified
    BY <1>5 DEF Found
  <1> QED BY <1>1, <1>4, <1>8, <1>9, <1>10, <1>11, <1>12, <1>13, OneSinkTreated

-----------------------------------------------------------------------------
(* The net is finished. *)

\* When the last sink has had its turn, all have.
LEMMA AttachDoneInv ==
  ASSUME Inv, AttachDone
  PROVE  Inv'
  <1>1. /\ phase = "attach" /\ pos > Len(sinks) /\ phase' = "finish"
        /\ idx' = idx /\ stamp' = stamp /\ treeSeen' = treeSeen /\ parentSeen' = parentSeen
        /\ members' = members /\ bounds' = bounds /\ retried' = retried /\ answer' = answer
        /\ sinks' = sinks /\ pos' = pos /\ nets' = nets
    BY DEF AttachDone, scratch, net
  <1>2. /\ TypeOK /\ StampFresh /\ TreeMarked /\ InBounds /\ Grown /\ NetFinished
    BY DEF Inv
  <1>3. Request' = Request /\ Sources' = Sources /\ Wanted' = Wanted /\ Admitted' = Admitted
    <2>1. Request' = Request
      BY <1>1 DEF Request
    <2>2. Sources' = Sources
      BY <2>1 DEF Sources
    <2> QED BY <1>1, <2>1, <2>2 DEF Wanted, Admitted
  <1>4. TypeOK' /\ StampFresh'
    BY <1>1, <1>2 DEF TypeOK, StampFresh
  <1>5. TreeMarked' /\ SourcesOnly' /\ NotRetried' /\ AnswerFits'
    BY <1>1, <1>2 DEF TreeMarked, SourcesOnly, NotRetried, AnswerFits, Asking, Routing
  <1>6. InBounds' /\ NetFinished'
    <2>1. InBounds'
      BY <1>1, <1>2, <1>3 DEF InBounds, Routing
    <2> QED BY <1>1, <1>2, <2>1 DEF NetFinished
  <1>7. Grown'
    <2>1. /\ answer.certified \in BOOLEAN /\ Len(sinks) <= Len(Request.sinks)
          /\ Hangs(TreeEdges([sinks |-> sinks]), members, Sources, Admitted)
          /\ TreeEdges([sinks |-> sinks]) # {} => answer.certified
          /\ \A v \in Vertex : parentSeen[v] = stamp => v \in Range(members)
          /\ \A t \in Wanted : Config.fallback /\ ~Found(t) => Admitted = Vertex
          /\ \A i \in 1 .. Len(sinks) :
                /\ sinks[i].target = Request.sinks[i]
                /\ i < pos => Treated(sinks[i], Sources, answer.certified, Admitted, members)
      BY <1>1, <1>2 DEF Grown, Joining
    <2>2. \A i \in 1 .. Len(sinks) : i < pos
      BY <1>1, <1>2 DEF TypeOK
    <2>3. \A t : Found(t)' <=> Found(t)
      BY <1>1, <1>3 DEF Found
    <2> QED BY <1>1, <1>3, <2>1, <2>2, <2>3 DEF Grown
  <1> QED BY <1>4, <1>5, <1>6, <1>7 DEF Inv

\* The record of a finished net is the state that its last sink has left.
LEMMA FinishNetInv ==
  ASSUME Inv, FinishNet
  PROVE  Inv'
  <1> DEFINE n == [reachedAll |-> members # <<>> /\ \A i \in 1 .. Len(sinks) : sinks[i].reached,
                   certified |-> answer.certified, members |-> members, sinks |-> sinks,
                   admitted |-> IF retried THEN Vertex ELSE AdmittedNodes(bounds)]
  <1>1. /\ phase = "finish" /\ phase' = "next" /\ idx' = idx + 1 /\ nets' = Append(nets, n)
        /\ stamp' = stamp /\ treeSeen' = treeSeen /\ parentSeen' = parentSeen
        /\ members' = members /\ retried' = retried /\ sinks' = sinks /\ pos' = pos
    BY DEF FinishNet, scratch, net
  <1>2. TypeOK /\ StampFresh /\ TreeMarked /\ Grown /\ NetFinished /\ Routing /\ Joining
    BY <1>1 DEF Inv, Routing, Joining
  <1>3. idx \in 1 .. Len(Requests) /\ nets \in Seq(Nets) /\ Len(nets) = idx - 1
    BY <1>1, <1>2, RequestCount DEF TypeOK, TreeMarked, NetFinished
  <1>4. /\ answer.certified \in BOOLEAN /\ pos > Len(sinks)
        /\ Hangs(TreeEdges([sinks |-> sinks]), members, Sources, Admitted)
        /\ \A i \in 1 .. Len(sinks) :
              i < pos => Treated(sinks[i], Sources, answer.certified, Admitted, members)
    BY <1>1, <1>2 DEF Grown
  <1>5. /\ n.certified = answer.certified /\ n.members = members /\ n.sinks = sinks /\ n.admitted = Admitted
        /\ TreeEdges(n) = TreeEdges([sinks |-> sinks])
    BY DEF Admitted, TreeEdges
  <1>6. n \in Nets
    <2>1. members \in Seq(Vertex) /\ sinks \in Seq(Sinks)
      BY <1>2 DEF TypeOK
    <2>2. Admitted \in SUBSET Vertex
      BY DEF Admitted, AdmittedNodes
    <2>3. n.reachedAll \in BOOLEAN
      OBVIOUS
    <2>4. n = [reachedAll |-> n.reachedAll, certified |-> answer.certified, members |-> members,
               sinks |-> sinks, admitted |-> Admitted]
      BY DEF Admitted
    <2> QED BY <1>4, <2>1, <2>2, <2>3, <2>4 DEF Nets
  <1> HIDE DEF n
  <1>7. nets' \in Seq(Nets) /\ Len(nets') = idx /\ nets'[Len(nets')] = n
    BY <1>1, <1>3, <1>6
  <1>8. TypeOK' /\ StampFresh'
    <2>1. idx' \in 1 .. Len(Requests) + 1
      BY <1>1, <1>3, RequestCount
    <2> QED BY <1>1, <1>2, <1>7, <2>1 DEF TypeOK, StampFresh
  <1>9. TreeMarked' /\ SourcesOnly' /\ InBounds' /\ NotRetried' /\ AnswerFits' /\ Grown'
    BY <1>1 DEF TreeMarked, SourcesOnly, InBounds, NotRetried, AnswerFits, Grown, Routing, Asking, Joining
  <1>10. NetFinished'
    <2>1. Len(nets') = idx' - 1
      BY <1>1, <1>3, <1>7
    <2>2. SourcesOf(Requests[Len(nets')]) = Sources
      BY <1>7 DEF Sources, Request
    <2>3. \A i \in 1 .. Len(sinks) : Treated(sinks[i], Sources, answer.certified, Admitted, members)
      BY <1>2, <1>4 DEF TypeOK
    <2>4. /\ Hangs(TreeEdges(n), n.members, Sources, n.admitted)
          /\ \A i \in 1 .. Len(n.sinks) : Treated(n.sinks[i], Sources, n.certified, n.admitted, n.members)
      BY <1>4, <1>5, <2>3
    <2> QED BY <1>7, <2>1, <2>2, <2>4 DEF NetFinished
  <1> QED BY <1>8, <1>9, <1>10 DEF Inv

\* Counting the occupancy is all that is left.
LEMMA CommitInv ==
  ASSUME Inv, Commit
  PROVE  Inv'
  <1>1. /\ phase' = "done" /\ UNCHANGED <<idx, scratch, net, nets>>
    BY DEF Commit
  <1>2. TypeOK' /\ StampFresh'
    BY <1>1 DEF Inv, TypeOK, StampFresh, scratch, net
  <1> QED BY <1>1, <1>2 DEF Inv, TreeMarked, SourcesOnly, InBounds, NotRetried, AnswerFits, Grown,
                     NetFinished, Routing, Asking, Joining

\* A stuttering step keeps the invariant.
LEMMA StutterInv ==
  ASSUME Inv, UNCHANGED vars
  PROVE  Inv'
  <1>1. /\ phase' = phase /\ idx' = idx /\ stamp' = stamp /\ treeSeen' = treeSeen /\ parentSeen' = parentSeen
        /\ members' = members /\ bounds' = bounds /\ retried' = retried /\ answer' = answer
        /\ sinks' = sinks /\ pos' = pos /\ nets' = nets
    BY DEF vars, scratch, net
  <1>2. TypeOK /\ StampFresh /\ TreeMarked /\ SourcesOnly /\ InBounds /\ NotRetried /\ AnswerFits
        /\ Grown /\ NetFinished
    BY DEF Inv
  <1>3. Request' = Request
    BY <1>1 DEF Request
  <1>4. Sources' = Sources
    BY <1>3 DEF Sources
  <1>5. Wanted' = Wanted /\ Admitted' = Admitted /\ (Routing' <=> Routing) /\ (Asking' <=> Asking)
        /\ (Joining' <=> Joining)
    BY <1>1, <1>3, <1>4 DEF Wanted, Admitted, Routing, Asking, Joining
  <1>6. TypeOK' /\ StampFresh' /\ NotRetried' /\ NetFinished'
    BY <1>1, <1>2 DEF TypeOK, StampFresh, NotRetried, NetFinished
  <1>7. TreeMarked' /\ InBounds' /\ SourcesOnly'
    BY <1>1, <1>2, <1>3, <1>4, <1>5 DEF TreeMarked, SourcesOnly, InBounds
  <1>8. AnswerFits'
    BY <1>1, <1>2, <1>4, <1>5 DEF AnswerFits
  <1>9. Grown'
    <2>1. \A t : Found(t)' <=> Found(t)
      BY <1>1, <1>4, <1>5 DEF Found
    <2>2. \A i : Waiting(sinks[i])' <=> Waiting(sinks[i])
      BY <1>1, <1>4, <1>5, <2>1 DEF Waiting
    <2> QED BY <1>1, <1>2, <1>3, <1>4, <1>5, <2>1, <2>2 DEF Grown
  <1> QED BY <1>6, <1>7, <1>8, <1>9 DEF Inv

\* The inductive invariant holds throughout: the stamps tell the nets apart, the
\* tree hangs from the sources by tight edges, and every sink that has had its turn
\* is settled.
THEOREM RoutingInvariant == Spec => []Inv
  <1>1. ASSUME Inv, [Next]_vars
        PROVE  Inv'
    <2>1. CASE StartNet
      BY <1>1, <2>1, StartNetInv
    <2>2. CASE SetBounds
      BY <1>1, <2>2, SetBoundsInv
    <2>3. CASE Query
      BY <1>1, <2>3, QueryInv
    <2>4. CASE Retry
      BY <1>1, <2>4, RetryInv
    <2>5. CASE QueryThrows
      BY <1>1, <2>5, QueryThrowsInv
    <2>6. CASE Extract
      BY <1>1, <2>6, ExtractInv
    <2>7. CASE AttachNothing
      BY <1>1, <2>7, AttachNothingInv
    <2>8. CASE AttachPath
      BY <1>1, <2>8, AttachPathInv
    <2>9. CASE AttachDone
      BY <1>1, <2>9, AttachDoneInv
    <2>10. CASE FinishNet
      BY <1>1, <2>10, FinishNetInv
    <2>11. CASE Commit
      BY <1>1, <2>11, CommitInv
    <2>12. CASE UNCHANGED vars
      BY <1>1, <2>12, StutterInv
    <2> QED BY <1>1, <2>1, <2>2, <2>3, <2>4, <2>5, <2>6, <2>7, <2>8, <2>9, <2>10, <2>11, <2>12 DEF Next
  <1> QED BY <1>1, InitInv, PTL DEF Spec

-----------------------------------------------------------------------------
(* Theorems. *)

\* What is known of the net that has just been returned.
LEMMA ReturnedNet ==
  ASSUME Inv, NEW k \in JustReturned
  PROVE  /\ Hangs(TreeEdges(nets[k]), nets[k].members, SourcesOf(Requests[k]), nets[k].admitted)
         /\ \A i \in 1 .. Len(nets[k].sinks) :
               Treated(nets[k].sinks[i], SourcesOf(Requests[k]), nets[k].certified,
                       nets[k].admitted, nets[k].members)
  <1>1. phase = "next" /\ nets # <<>> /\ k = Len(nets)
    BY DEF JustReturned
  <1> QED BY <1>1 DEF Inv, NetFinished

\* derive_query_bounds and the unbounded retry never shut a terminal of the net out
\* of the search, at any margin and for any coordinates.
THEOREM TerminalsStayAdmitted == Spec => []TerminalsAdmitted
  <1>1. Inv => TerminalsAdmitted
    <2> SUFFICES ASSUME Inv, phase \in {"query", "extract", "attach"}
                 PROVE  Sources \cup Targets \subseteq AdmittedNodes(bounds)
      BY DEF TerminalsAdmitted
    <2>1. Sources \cup Wanted \subseteq AdmittedNodes(bounds)
      BY DEF Inv, InBounds, Routing
    <2>2. CASE phase # "attach"
      BY <2>1, <2>2, AskingFacts DEF Asking
    <2>3. CASE phase = "attach"
      <3>1. TypeOK /\ Len(sinks) <= Len(Request.sinks)
            /\ \A i \in 1 .. Len(sinks) : sinks[i].target = Request.sinks[i]
        BY <2>3 DEF Inv, Grown, Joining
      <3>2. idx \in 1 .. Len(Requests)
        BY <2>3, <3>1, RequestCount DEF Inv, TypeOK, TreeMarked, Routing
      <3>3. Request.sinks \in Seq(Int)
        BY <3>2, RequestFacts DEF Request
      <3>4. sinks \in Seq(Sinks)
        BY <3>1 DEF TypeOK
      <3>5. ASSUME NEW t \in Targets
            PROVE  t \in Sources \cup Wanted
        <4>1. PICK x \in Range(sinks) : Valid(x.target) /\ x.target = t
          BY DEF Targets
        <4>2. PICK i \in 1 .. Len(sinks) : sinks[i] = x
          BY <3>4, <4>1 DEF Range
        <4>3. i \in 1 .. Len(Request.sinks) /\ Request.sinks[i] = t
          BY <3>1, <3>3, <3>4, <4>1, <4>2
        <4>4. t \in Range(Request.sinks)
          BY <3>3, <4>3 DEF Range
        <4> QED BY <4>1, <4>4 DEF Wanted
      <3> QED BY <2>1, <3>5
    <2> QED BY <2>2, <2>3
  <1> QED BY <1>1, RoutingInvariant, PTL

\* trim_routed_sink_to_tree leaves new nodes only, so
\* attach_path_if_single_parent_tree accepts every candidate of every net.
THEOREM TrimmedPathsAttach == Spec => []TrimmedPathAttaches
  <1>1. Inv => TrimmedPathAttaches
    BY CandidateAttaches DEF TrimmedPathAttaches
  <1> QED BY <1>1, RoutingInvariant, PTL

\* Every net that route_net returns is a tree that hangs from its sources, and
\* unique_nodes lists its nodes once each.
THEOREM NetsAreTrees == Spec => []RouteTree
  <1>1. Inv => RouteTree
    <2> SUFFICES ASSUME Inv, NEW k \in JustReturned
                 PROVE  LET n == nets[k]  S == SourcesOf(Requests[k]) IN
                        /\ \A e \in TreeEdges(n) : to[e] \notin S /\ RootCost(n, S, to[e]) # Inf
                        /\ \A e, f \in TreeEdges(n) : to[e] = to[f] => e = f
                        /\ Range(n.members) = S \cup {to[e] : e \in TreeEdges(n)}
                        /\ IsInjective(n.members)
      BY DEF RouteTree
    <2> DEFINE n == nets[k]
               S == SourcesOf(Requests[k])
    <2>1. Hangs(TreeEdges(n), n.members, S, n.admitted)
      BY ReturnedNet
    <2> HIDE DEF n, S
    <2>2. ASSUME NEW e \in TreeEdges(n)
          PROVE  to[e] \notin S /\ RootCost(n, S, to[e]) # Inf
      <3>1. to[e] \notin S /\ Distance(to[e], S, n.admitted) # Inf /\ to[e] \in Range(n.members)
        BY <2>1 DEF Hangs, Tight
      <3> QED BY <2>1, <3>1, RootCostIsDistance
    <2>3. /\ \A e, f \in TreeEdges(n) : to[e] = to[f] => e = f
          /\ Range(n.members) = S \cup {to[e] : e \in TreeEdges(n)}
          /\ IsInjective(n.members)
      BY <2>1 DEF Hangs
    <2> QED BY <2>2, <2>3 DEF n, S
  <1> QED BY <1>1, RoutingInvariant, PTL

\* Every sink that a net reaches hangs from the sources at the cheapest admissible
\* distance, although its path was cut where it met the tree.
THEOREM SinksAtTheirDistance == Spec => []RootDistance
  <1>1. Inv => RootDistance
    <2> SUFFICES ASSUME Inv, NEW k \in JustReturned, NEW i \in 1 .. Len(nets[k].sinks),
                        nets[k].sinks[i].reached,
                        nets[k].sinks[i].target \notin SourcesOf(Requests[k])
                 PROVE  \E p \in Cheapest(SourcesOf(Requests[k]), nets[k].sinks[i].target, nets[k].admitted) :
                           RootCost(nets[k], SourcesOf(Requests[k]), nets[k].sinks[i].target) = PathCost(p)
      BY DEF RootDistance
    <2> DEFINE n == nets[k]
               S == SourcesOf(Requests[k])
               t == n.sinks[i].target
    <2>1. /\ Hangs(TreeEdges(n), n.members, S, n.admitted)
          /\ Treated(n.sinks[i], S, n.certified, n.admitted, n.members)
      BY ReturnedNet
    <2>2. t \in Range(n.members) /\ t \notin S
      BY <2>1 DEF Treated
    <2> HIDE DEF n, S, t
    <2>3. PICK e \in TreeEdges(n) : to[e] = t
      BY <2>1, <2>2 DEF Hangs
    <2>4. PICK p : p \in Cheapest(S, t, n.admitted)
      BY <2>1, <2>3 DEF Hangs, Tight
    <2>5. RootCost(n, S, t) = Distance(t, S, n.admitted) /\ Distance(t, S, n.admitted) = PathCost(p)
      BY <2>1, <2>2, <2>4, CheapestFacts, RootCostIsDistance
    <2> QED BY <2>4, <2>5 DEF n, S, t
  <1> QED BY <1>1, RoutingInvariant, PTL

\* Under a certificate a sink is missed exactly if no admissible path leads to it,
\* and with the fallback on only after a search of the whole graph.
THEOREM MissedSinksUnreachable == Spec => []MissedOnlyIfUnreachable
  <1>1. Inv => MissedOnlyIfUnreachable
    <2> SUFFICES ASSUME Inv, NEW k \in JustReturned, NEW i \in 1 .. Len(nets[k].sinks)
                 PROVE  LET n == nets[k]  S == SourcesOf(Requests[k])  t == n.sinks[i].target IN
                        Valid(t) /\ t \notin S =>
                           /\ n.sinks[i].reached <=> n.certified /\ Admissible(S, t, n.admitted) # {}
                           /\ Config.fallback /\ S # {} /\ ~n.sinks[i].reached => n.admitted = Vertex
      BY DEF MissedOnlyIfUnreachable
    <2> QED BY ReturnedNet DEF Treated
  <1> QED BY <1>1, RoutingInvariant, PTL
================================================================================
