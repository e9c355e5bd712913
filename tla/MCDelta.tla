------------------------------ MODULE MCDelta ------------------------------
(* Small graphs and query sets for model-checking DeltaStepping. *)
EXTENDS DeltaStepping, SequencesExt

Q(S, T, A, m, l) == [sources |-> S, targets |-> T, admit |-> A, maxIters |-> m, limit |-> l]

\* An adjacency list as rowptr.
RowPtr(degrees) == [i \in 0 .. Len(degrees) |-> FoldLeft(LAMBDA a, b : a + b, 0, SubSeq(degrees, 1, i))]
Column(s) == [i \in 0 .. Len(s) - 1 |-> s[i + 1]]
Ones      == [v \in Vertex |-> 1]

\* Costs so small that no sum or product is rounded.
Exact == [c \in 0 .. MaxFinite |-> c]

\* 0->1 (3), 0->2 (1), 0->3 (8), 1->3 (1), 2->1 (1), 2->3 (2).  Node 1 is
\* improved while it relaxes; node 3 is queued by two threads of a round, has
\* two cheapest parents and, under other multipliers, waits in later buckets.
DiamondRows   == 4
DiamondNnz    == 6
DiamondRowptr == RowPtr(<<3, 1, 2, 0>>)
DiamondTo     == Column(<<1, 2, 3, 3, 1, 3>>)
DiamondValue  == Column(<<3, 1, 8, 1, 1, 2>>)
DiamondQueries ==
    {Q({0}, {3}, 0 .. 3, -1, Inf), Q({0, 1}, {2, 3}, 0 .. 3, -1, Inf),
     Q({2}, {0, 1}, 0 .. 3, -1, Inf), Q({0}, {3}, {0, 3}, -1, Inf), Q({1}, {1}, 0 .. 3, 0, Inf),
     Q({0}, {1, 3}, 0 .. 3, -1, 3), Q({0}, {2, 3}, 0 .. 3, 1, Inf), Q({3}, {1, 3}, 0 .. 3, -1, 0)}

\* Costs 0, 1, 2, 3, 4, 8, 16 and 32 only: 16 + 8 and 16 + 1 are 16 again.
Coarse == [c \in 0 .. MaxFinite |->
             IF c >= 32 THEN 32 ELSE IF c >= 16 THEN 16 ELSE IF c >= 8 THEN 8 ELSE IF c >= 4 THEN 4 ELSE c]

\* 0->1 (16), 0->2 (3), 1->3 (8), 2->1 (8), 2->3 (16), 3->2 (1).
CoarseRows   == 4
CoarseNnz    == 6
CoarseRowptr == RowPtr(<<2, 1, 2, 1>>)
CoarseTo     == Column(<<1, 2, 3, 1, 3, 2>>)
CoarseValue  == Column(<<16, 3, 8, 8, 16, 1>>)
CoarseQueries ==
    {Q({0}, {3}, 0 .. 3, -1, Inf), Q({0}, {1, 3}, {0, 1, 3}, -1, Inf), Q({0}, {1, 2}, 0 .. 3, 2, Inf),
     Q({0}, {1, 3}, 0 .. 3, -1, 16), Q({1}, {0, 2}, 0 .. 3, -1, 8), Q({3}, {1, 3}, 0 .. 3, -1, 0)}

\* 0->1 (0), 1->0 (0), 2->0 (1): a cycle of zero-cost edges behind source 2.
LoopRows   == 3
LoopNnz    == 3
LoopRowptr == RowPtr(<<1, 1, 1>>)
LoopTo     == Column(<<1, 0, 0>>)
LoopValue  == Column(<<0, 0, 1>>)
LoopQueries == {Q({2}, {1}, 0 .. 2, -1, Inf), Q({2}, {0, 1}, 0 .. 2, 0, Inf)}
=============================================================================
