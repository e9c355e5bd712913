---------------------------- MODULE CheapestPaths ----------------------------
(* The paths an SSSP engine may report to PathFinder, as sequences of edges. *)
EXTENDS CsrGraph, SequencesExt

Unit == [v \in Vertex |-> 1]            \* PathFinder never changes the multipliers

PathSource(p) == SourceForEdge(p[1])
PathCost(p)   == FoldLeft(LAMBDA c, e : Saturate(c + EffectiveWeight(e, Unit)), 0, p)
NoPath        == <<>>

\* The edges are linked and visit no node twice.
Simple(p) ==
    \A i \in 1 .. Len(p) :
        /\ to[p[i]] # PathSource(p) /\ \A j \in 1 .. i - 1 : to[p[j]] # to[p[i]]
        /\ i > 1 => SourceForEdge(p[i]) = to[p[i - 1]]

SimplePaths == UNION {{p \in [1 .. n -> Edge] : Simple(p)} : n \in 1 .. Rows - 1}

\* The paths from S to t that enter only admitted nodes, and no source.  One
\* whose cost overflows leads nowhere.
Admissible(S, t, A) ==
    {p \in SimplePaths : /\ PathSource(p) \in S /\ to[Last(p)] = t /\ PathCost(p) # Inf
                         /\ \A i \in 1 .. Len(p) : Relaxable(p[i], S, A)}

Cheapest(S, t, A) ==
    LET all == Admissible(S, t, A)
    IN  {p \in all : \A q \in all : PathCost(p) <= PathCost(q)}

\* Cheapest paths along settled nodes: when sums are rounded, a cheapest path may
\* pass a node at more than that node's distance, but predecessors never do.
Settled(S, t, A) ==
    LET cheapest == [v \in Vertex |-> Cheapest(S, v, A)]
    IN  {p \in cheapest[t] : \A n \in 1 .. Len(p) : SubSeq(p, 1, n) \in cheapest[to[p[n]]]}

Costliest(S, t, A) ==
    LET all == Admissible(S, t, A)
    IN  IF all = {} THEN NoPath ELSE CHOOSE p \in all : \A q \in all : PathCost(q) <= PathCost(p)

OrNone(paths) == IF paths = {} THEN {NoPath} ELSE paths

\* A certified answer holds such a path for every target that has one.  Two stand
\* for the others: one that found nothing and one whose paths are the
\* worst there are.
Answers(S, T, A) ==
    LET exact == UNION {OrNone(Settled(S, t, A)) : t \in T}
        ends(p, t) == IF p = NoPath THEN Admissible(S, t, A) = {} ELSE to[Last(p)] = t
    IN  [certified : {TRUE}, path : {f \in [T -> exact] : \A t \in T : ends(f[t], t)}]
        \cup
        [certified : {FALSE}, path : {[t \in T |-> NoPath], [t \in T |-> Costliest(S, t, A)]}]
===============================================================================
