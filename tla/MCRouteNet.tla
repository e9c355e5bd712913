------------------------------ MODULE MCRouteNet ------------------------------
(* Four nets, one without a valid source, on a graph with equally cheap paths, *)
(* a zero-cost cycle and sums that are rounded.                                *)
EXTENDS RouteNet

\* Beyond 4 there are few costs: 2 + 4 and 3 + 4 are 4.
Coarse == [c \in 0 .. MaxFinite |-> IF c < 4 THEN c ELSE IF c < 8 THEN 4 ELSE IF c < 16 THEN 8 ELSE 16]

Column(s) == [i \in 0 .. Len(s) - 1 |-> s[i + 1]]

\* 0->1 (1), 0->2 (1), 1->3 (1), 1->2 (0), 2->1 (0), 2->3 (2), 2->4 (3), 3->4 (4):
\* 4 lies at 4 behind 2 and behind 3, behind 3 also along the dearer way to 3.
MCRows   == 5
MCNnz    == 8
MCRowptr == Column(<<0, 2, 4, 7, 8, 8>>)
MCTo     == Column(<<1, 2, 3, 2, 1, 3, 4, 4>>)
MCValue  == Column(<<1, 1, 1, 0, 0, 2, 3, 4>>)
MCBase   == [v \in 0 .. 4 |-> 1]

\* Node 2 lies far off, node 1 has no coordinates.
MCEndX == Column(<<0, -1, 3, 1, 1>>)
MCEndY == Column(<<0, -1, 0, 0, 0>>)

Net(S, T) == [sources |-> S, sinks |-> T]
MCRequests ==
    <<Net(<<0>>, <<4, 3, 2, 3>>), Net(<<1, 0, 9, 1>>, <<4, 9, 0>>), Net(<<3>>, <<4, 0>>), Net(<<7>>, <<2>>)>>

MCMinCoord == -4

MCConfig == [enabled |-> TRUE, marginX |-> 1, marginY |-> 0, fallback |-> TRUE]
===============================================================================
