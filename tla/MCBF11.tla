------------------------------- MODULE MCBF11 -------------------------------
(* Small graphs and query sets for model-checking BF11. *)
EXTENDS BF11, SequencesExt

Q(S, T, A, m, i) == [sources |-> S, targets |-> T, admit |-> A, maxIters |-> m, interval |-> i]

\* An adjacency list as rowptr.
RowPtr(degrees) == [i \in 0 .. Len(degrees) |-> FoldLeft(LAMBDA a, b : a + b, 0, SubSeq(degrees, 1, i))]
\* Costs so small that no sum or product is rounded.
Exact == [c \in 0 .. MaxFinite |-> c]

Column(s) == [i \in 0 .. Len(s) - 1 |-> s[i + 1]]

\* A diamond whose cheap branch is longer: 0->1 (1), 0->2 (4), 1->2 (1),
\* 1->3 (5), 2->3 (1), 3->1 (0).  Label 2 is lowered while node 2 relaxes.
DiamondRows   == 4
DiamondNnz    == 6
DiamondRowptr == RowPtr(<<2, 2, 1, 1>>)
DiamondTo     == Column(<<1, 2, 2, 3, 3, 1>>)
DiamondValue  == Column(<<1, 4, 1, 5, 1, 0>>)
DiamondBase   == [v \in 0 .. 3 |-> 1]
DiamondFallback == {Q({0}, {1, 3}, {0, 1, 3}, -1, 1)}
DiamondQueries ==
    {Q({0}, {3}, 0 .. 3, -1, 1), Q({0}, {2, 3}, 0 .. 3, 5, 2), Q({0, 2}, {1}, 0 .. 3, -1, 1)} \cup DiamondFallback

\* Three nodes 0->1 (1), 0->2 (2), 1->2 (0), 2->0 (1), 2->1 (1): multipliers change between
\* queries, boxes exclude nodes, calls abort, and with MaxFinite = 3 a weight
\* and a sum can overflow.
TriangleRows   == 3
TriangleNnz    == 5
TriangleRowptr == RowPtr(<<2, 1, 2>>)
TriangleTo     == Column(<<1, 2, 2, 0, 1>>)
TriangleValue  == Column(<<1, 2, 0, 1, 1>>)
TriangleBase   == [v \in 0 .. 2 |-> IF v = 1 THEN 2 ELSE 1]
\* Its only path leaves the box.
TriangleFallback == {Q({1}, {0}, {0, 1}, -1, 1)}
TriangleQueries ==
    {Q({0}, {2}, 0 .. 2, -1, 1), Q({0}, {1, 2}, 0 .. 2, 1, 1), Q({1}, {1}, 0 .. 2, 0, 1),
     Q({0}, {2}, {0, 2}, -1, 1), Q({2}, {0, 1}, 0 .. 2, -1, 1)} \cup TriangleFallback

\* A line 0->1->2: its last node is reached in the last round of the budget.
LineRows   == 3
LineNnz    == 2
LineRowptr == RowPtr(<<1, 1, 0>>)
LineTo     == Column(<<1, 2>>)
LineValue  == Column(<<1, 1>>)
LineBase   == [v \in 0 .. 2 |-> 1]
LineQueries == {Q({0}, {2}, 0 .. 2, -1, 1), Q({0}, {1}, 0 .. 2, -1, 3)}
=============================================================================
