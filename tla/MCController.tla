---------------------------- MODULE MCController ----------------------------
(* Batches of the cooperative controller on a small graph. *)
EXTENDS ControllerRefinement, MCDelta

ControllerQueries ==
    {Q({0}, {3}, 0 .. 3, -1, Inf), Q({0, 1}, {2, 3}, 0 .. 3, -1, Inf), Q({0}, {2, 3}, 0 .. 3, 1, Inf),
     Q({0}, {2, 3}, 0 .. 3, -1, 4), Q({2}, {0, 1}, 0 .. 3, 2, Inf), Q({3}, {1, 3}, 0 .. 3, 0, 0)}
=============================================================================
