--------------------------- MODULE CsrGraphLemmas ---------------------------
(***************************************************************************)
(* What the engines' proofs need of the routing graph and of its costs.    *)
(***************************************************************************)
EXTENDS CsrGraph, FiniteSetTheorems, TLAPS

LEMMA GraphTypes ==
  /\ Rows \in Nat /\ Rows > 0 /\ Nnz \in Nat /\ MaxFinite \in Nat /\ Inf \in Nat /\ Inf > MaxFinite
  /\ rowptr \in [0 .. Rows -> 0 .. Nnz] /\ to \in [Edge -> Vertex]
  /\ edgeValue \in [Edge -> Nat] /\ baseCost \in [Vertex -> Nat]
  <1>1. MaxFinite \in Nat /\ Rows \in Nat \ {0} /\ Nnz \in Nat
    BY GraphAssumption
  <1>2. baseCost \in [Vertex -> Nat \ {0}]
    BY GraphAssumption
  <1>3. rowptr \in [0 .. Rows -> 0 .. Nnz] /\ to \in [Edge -> Vertex] /\ edgeValue \in [Edge -> Nat]
    BY GraphAssumption
  <1>4. baseCost \in [Vertex -> Nat]
    BY <1>2
  <1>5. Inf \in Nat /\ Inf > MaxFinite
    BY <1>1 DEF Inf
  <1> QED BY <1>1, <1>3, <1>4, <1>5

\* Where a row begins and ends.
LEMMA RowBounds ==
  ASSUME NEW u \in Vertex
  PROVE  /\ u \in 0 .. Rows /\ u + 1 \in 0 .. Rows
         /\ rowptr[u] \in 0 .. Nnz /\ rowptr[u + 1] \in 0 .. Nnz
  <1>1. u \in 0 .. Rows /\ u + 1 \in 0 .. Rows
    BY GraphTypes DEF Vertex
  <1> QED BY <1>1, GraphTypes

\* The edges of a row are edges.
LEMMA EdgesOfRow ==
  ASSUME NEW u \in Vertex, NEW e \in OutEdges(u)
  PROVE  e \in Edge /\ e \in Nat /\ rowptr[u] <= e /\ e < rowptr[u + 1]
  BY RowBounds, GraphTypes DEF OutEdges, Edge

\* The distances of a source and of an unreached node are costs.
LEMMA CostEnds == 0 \in Cost /\ Inf \in Cost /\ \A c \in Cost : c \in Nat /\ 0 <= c /\ c <= Inf
  <1>1. 0 \in 0 .. MaxFinite /\ Round[0] = 0
    BY GraphTypes, RoundAssumption
  <1>2. \A c \in 0 .. MaxFinite : Round[c] \in 0 .. MaxFinite
    BY RoundAssumption
  <1> QED BY <1>1, <1>2, GraphTypes DEF Cost, Inf

\* Saturation yields a cost.
LEMMA SaturateType ==
  ASSUME NEW c \in Nat
  PROVE  Saturate(c) \in Cost
  BY GraphTypes DEF Saturate, Cost

\* Rounding keeps the order of sums, fixes what is already a cost and never
\* loses the larger part of a sum; a sum that stays finite has finite parts.
LEMMA SaturateMonotone ==
  ASSUME NEW b \in Nat, NEW c \in Nat, b <= c
  PROVE  Saturate(b) <= Saturate(c)
  <1>1. CASE c > MaxFinite
    <2>1. Saturate(c) = Inf
      BY <1>1 DEF Saturate
    <2>2. Saturate(b) \in Cost
      BY SaturateType
    <2> QED BY <2>1, <2>2, CostEnds
  <1>2. CASE c <= MaxFinite
    <2>1. b \in 0 .. MaxFinite /\ c \in 0 .. MaxFinite
      BY <1>2, GraphTypes
    <2>2. Saturate(b) = Round[b] /\ Saturate(c) = Round[c]
      BY <2>1, GraphTypes DEF Saturate
    <2> QED BY <2>1, <2>2, RoundAssumption
  <1> QED BY <1>1, <1>2, GraphTypes

LEMMA SaturateCost ==
  ASSUME NEW c \in Cost
  PROVE  Saturate(c) = c
  <1>1. CASE c = Inf
    BY <1>1, GraphTypes DEF Saturate
  <1>2. CASE c # Inf
    <2>1. PICK b \in 0 .. MaxFinite : c = Round[b]
      BY <1>2 DEF Cost
    <2>2. c \in 0 .. MaxFinite /\ Round[c] = c
      BY <2>1, RoundAssumption
    <2> QED BY <2>2, GraphTypes DEF Saturate
  <1> QED BY <1>1, <1>2

LEMMA SaturateSum ==
  ASSUME NEW c \in Cost, NEW w \in Nat
  PROVE  /\ Saturate(c + w) \in Cost /\ c <= Saturate(c + w)
         /\ \A b \in Cost : b <= c => Saturate(b + w) <= Saturate(c + w)
         /\ c = Inf => Saturate(c + w) = Inf
  <1>1. c \in Nat /\ c <= c + w /\ c + w \in Nat
    BY CostEnds
  <1>2. Saturate(c) <= Saturate(c + w) /\ Saturate(c) = c
    BY <1>1, SaturateMonotone, SaturateCost
  <1>3. ASSUME NEW b \in Cost, b <= c
        PROVE  Saturate(b + w) <= Saturate(c + w)
    <2>1. b + w \in Nat /\ b + w <= c + w
      BY <1>1, <1>3, CostEnds
    <2> QED BY <1>1, <2>1, SaturateMonotone
  <1>4. c = Inf => Saturate(c + w) = Inf
    BY <1>1, GraphTypes DEF Saturate
  <1> QED BY <1>1, <1>2, <1>3, <1>4, SaturateType

\* Multipliers are naturals, so an effective weight is a cost.
LEMMA WeightType ==
  ASSUME NEW e \in Edge, NEW d \in [Vertex -> Nat]
  PROVE  EffectiveWeight(e, d) \in Cost
  <1>1. to[e] \in Vertex /\ edgeValue[e] \in Nat
    BY GraphTypes
  <1>2. baseCost[to[e]] \in Nat /\ d[to[e]] \in Nat
    BY <1>1, GraphTypes
  <1> DEFINE p == Saturate(edgeValue[e] * baseCost[to[e]])
  <1>3. edgeValue[e] * baseCost[to[e]] \in Nat
    BY <1>1, <1>2, SMT
  <1>4. p \in Nat
    BY <1>3, SaturateType, CostEnds
  <1> HIDE DEF p
  <1>5. p * d[to[e]] \in Nat
    BY <1>2, <1>4, SMT
  <1>6. Saturate(p * d[to[e]]) \in Cost
    BY <1>5, SaturateType
  <1> QED BY <1>6 DEF EffectiveWeight, p

\* Rows do not overlap: the row an edge belongs to is the only one listing it.
LEMMA SourceOfRowEdge ==
  ASSUME NEW u \in Vertex, NEW e \in OutEdges(u)
  PROVE  SourceForEdge(e) = u
  <1>1. ASSUME NEW w \in Vertex, e \in OutEdges(w)
        PROVE  w = u
    <2>0. e \in Int /\ rowptr[u] \in Int /\ rowptr[u + 1] \in Int /\ rowptr[w] \in Int /\ rowptr[w + 1] \in Int
      BY <1>1, EdgesOfRow, RowBounds
    <2>1. rowptr[u] <= e /\ e < rowptr[u + 1] /\ rowptr[w] <= e /\ e < rowptr[w + 1]
      BY <1>1, EdgesOfRow
    <2>2. CASE w < u
      <3>1. w + 1 <= u /\ w + 1 \in 0 .. Rows /\ u \in 0 .. Rows
        BY <2>2, RowBounds, GraphTypes DEF Vertex
      <3>2. rowptr[w + 1] <= rowptr[u]
        BY <3>1, GraphAssumption
      <3> QED BY <2>0, <2>1, <3>2
    <2>3. CASE u < w
      <3>1. u + 1 <= w /\ u + 1 \in 0 .. Rows /\ w \in 0 .. Rows
        BY <2>3, RowBounds, GraphTypes DEF Vertex
      <3>2. rowptr[u + 1] <= rowptr[w]
        BY <3>1, GraphAssumption
      <3> QED BY <2>0, <2>1, <3>2
    <2> QED BY <2>2, <2>3 DEF Vertex
  <1>2. \E w \in Vertex : e \in OutEdges(w)
    OBVIOUS
  <1> QED BY <1>1, <1>2 DEF SourceForEdge

\* A set of naturals that is not empty has a least element.
LEMMA LeastNat ==
  ASSUME NEW S \in SUBSET Nat, S # {}
  PROVE  \E m \in S : \A k \in S : m <= k
  <1> DEFINE R == OpToRel(<, Nat)
  <1>1. PICK m \in S : \A k \in S : ~(<<k, m>> \in R)
    <2>1. IsWellFoundedOn(R, Nat)
      BY NatLessThanWellFounded
    <2> HIDE DEF R
    <2> QED BY <2>1, WFMin
  <1>2. \A k \in S : ~(k < m)
    BY <1>1 DEF OpToRel
  <1> QED BY <1>2

\* Every edge belongs to some row: the last row that begins at or before it.
LEMMA SourceIsVertex ==
  ASSUME NEW e \in Edge
  PROVE  SourceForEdge(e) \in Vertex /\ e \in OutEdges(SourceForEdge(e))
  <1> DEFINE S == {k \in 1 .. Rows : e < rowptr[k]}
  <1>1. e \in Int /\ 0 <= e /\ e < rowptr[Rows] /\ Rows \in 1 .. Rows
    BY GraphTypes, GraphAssumption DEF Edge
  <1>2. S \in SUBSET Nat /\ S # {}
    BY <1>1
  <1>3. PICK m \in S : \A k \in S : m <= k
    BY <1>2, LeastNat
  <1>4. m \in 1 .. Rows /\ e < rowptr[m] /\ m - 1 \in 0 .. Rows /\ m - 1 \in Vertex
    BY <1>3, GraphTypes DEF Vertex
  <1>5. rowptr[m - 1] <= e
    <2>1. CASE m = 1
      BY <1>1, <2>1, GraphAssumption
    <2>2. CASE m # 1
      <3>1. m - 1 \in 1 .. Rows /\ ~(m <= m - 1)
        BY <1>4, <2>2, GraphTypes
      <3>2. m - 1 \notin S
        BY <1>3, <3>1
      <3>3. rowptr[m - 1] \in Nat
        BY <1>4, GraphTypes
      <3> QED BY <1>1, <3>1, <3>2, <3>3
    <2> QED BY <2>1, <2>2
  <1>6. e \in OutEdges(m - 1)
    <2>1. (m - 1) + 1 = m /\ rowptr[m] \in Nat /\ rowptr[m - 1] \in Nat
      BY <1>4, GraphTypes
    <2> QED BY <1>1, <1>4, <1>5, <2>1 DEF OutEdges
  <1>7. SourceForEdge(e) = m - 1
    BY <1>4, <1>6, SourceOfRowEdge
  <1> QED BY <1>4, <1>6, <1>7

\* Queues of nodes are finite and hold at most Rows nodes.
LEMMA FiniteNodes ==
  /\ IsFiniteSet(Vertex) /\ Cardinality(Vertex) = Rows
  /\ \A S \in SUBSET Vertex : IsFiniteSet(S) /\ Cardinality(S) \in Nat /\ Cardinality(S) <= Rows
  /\ \A S \in SUBSET Vertex : \A v \in Vertex \ S :
        Cardinality(S \cup {v}) = Cardinality(S) + 1 /\ Cardinality(S) < Rows
  <1>1. IsFiniteSet(Vertex) /\ Cardinality(Vertex) = Rows
    <2>1. 0 \in Int /\ Rows - 1 \in Int /\ 0 <= Rows - 1 + 1
      BY GraphTypes
    <2> QED BY <2>1, FS_Interval, GraphTypes DEF Vertex
  <1>2. ASSUME NEW S \in SUBSET Vertex
        PROVE  IsFiniteSet(S) /\ Cardinality(S) \in Nat /\ Cardinality(S) <= Rows
    BY <1>1, FS_Subset, FS_CardinalityType
  <1>3. ASSUME NEW S \in SUBSET Vertex, NEW v \in Vertex \ S
        PROVE  Cardinality(S \cup {v}) = Cardinality(S) + 1 /\ Cardinality(S) < Rows
    <2>1. Cardinality(S \cup {v}) = Cardinality(S) + 1
      BY <1>2, FS_AddElement
    <2>2. S \cup {v} \in SUBSET Vertex
      OBVIOUS
    <2>3. Cardinality(S \cup {v}) <= Rows
      BY <2>2, <1>2
    <2> QED BY <1>2, <2>1, <2>3, GraphTypes
  <1> QED BY <1>1, <1>2, <1>3
=============================================================================
