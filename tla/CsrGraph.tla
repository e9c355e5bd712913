------------------------------ MODULE CsrGraph ------------------------------
(***************************************************************************)
(* The routing graph as the SSSP engines see it: an outgoing CSR matrix    *)
(* whose rows are the routing nodes, with one factor per edge, one base    *)
(* cost per node and one mutable multiplier per node.  An edge costs       *)
(* edge_value * base_cost[dst] * dynamic_cost[dst].                        *)
(*                                                                         *)
(* Costs are naturals here.  A float32 sum or product is rounded to a      *)
(* representable cost: any monotone rounding will do, so a small weight    *)
(* may vanish beside a large distance.  One that leaves the finite range   *)
(* becomes Inf, the first natural above MaxFinite; what the code does on   *)
(* each such overflow is kept.                                             *)
(***************************************************************************)
EXTENDS Integers, FiniteSets

CONSTANTS
    Rows,       \* number of routing nodes
    Nnz,        \* number of programmable edges
    rowptr,     \* rowptr[u] .. rowptr[u+1]-1 are the edges leaving u
    to,         \* destination of an edge
    edgeValue,  \* the edge's own factor
    baseCost,   \* base_vertex_cost sidecar, strictly positive
    MaxFinite,  \* largest finite cost
    Round       \* the representable cost a finite sum or product rounds to

Vertex == 0 .. Rows - 1
Edge   == 0 .. Nnz - 1
Inf    == MaxFinite + 1
Cost   == {Round[c] : c \in 0 .. MaxFinite} \cup {Inf}
NoEdge == -1                       \* kNoPredecessor

\* What validate_csr and validate_sidecar_view accept.  The code compares
\* neighbouring offsets; monotonicity is stated here for any two of them.
ASSUME GraphAssumption ==
    /\ Rows \in Nat \ {0} /\ Nnz \in Nat /\ MaxFinite \in Nat
    /\ rowptr \in [0 .. Rows -> 0 .. Nnz]
    /\ rowptr[0] = 0 /\ rowptr[Rows] = Nnz
    /\ \A i, j \in 0 .. Rows : i <= j => rowptr[i] <= rowptr[j]
    /\ to \in [Edge -> Vertex]
    /\ edgeValue \in [Edge -> Nat]
    /\ baseCost \in [Vertex -> Nat \ {0}]

\* float32 arithmetic is monotone and leaves representable costs alone.
ASSUME RoundAssumption ==
    /\ Round \in [0 .. MaxFinite -> 0 .. MaxFinite]
    /\ Round[0] = 0
    /\ \A b, c \in 0 .. MaxFinite : b <= c => Round[b] <= Round[c]
    /\ \A c \in 0 .. MaxFinite : Round[Round[c]] = Round[c]

OutEdges(u) == rowptr[u] .. rowptr[u + 1] - 1

\* The row an edge belongs to; the code finds it by bisecting rowptr.
SourceForEdge(e) == CHOOSE u \in Vertex : e \in OutEdges(u)

Saturate(c) == IF c > MaxFinite THEN Inf ELSE Round[c]

\* The cost of an edge under the multipliers dyn.  A zero factor makes it zero
\* even where the other product overflows.
EffectiveWeight(e, dyn) == Saturate(Saturate(edgeValue[e] * baseCost[to[e]]) * dyn[to[e]])

-----------------------------------------------------------------------------
(***************************************************************************)
(* The distances an engine must compute.  A path may start at any source,  *)
(* never enters a source and only enters admitted nodes.  A potential is   *)
(* feasible when no such edge could lower it; the distance of t is the     *)
(* greatest value a feasible potential takes at t.                         *)
(***************************************************************************)
Relaxable(e, S, A) == to[e] \in A \ S

Feasible(f, S, A, dyn) ==
    /\ f \in [Vertex -> Cost]
    /\ \A s \in S : f[s] = 0
    /\ \A u \in Vertex : \A e \in OutEdges(u) :
          Relaxable(e, S, A) => f[to[e]] <= Saturate(f[u] + EffectiveWeight(e, dyn))

\* An upper bound on the distance: no feasible potential exceeds it.
BoundsDistance(d, t, S, A, dyn) ==
    \A f \in [Vertex -> Cost] : Feasible(f, S, A, dyn) => f[t] <= d

IsDistance(d, t, S, A, dyn) ==
    /\ BoundsDistance(d, t, S, A, dyn)
    /\ \E f \in [Vertex -> Cost] : Feasible(f, S, A, dyn) /\ f[t] = d
=============================================================================
