-------------------------- MODULE MCDeltaRefinement --------------------------
(* The coarse graph of MCDelta for checking the refinement. *)
EXTENDS MCDelta, DeltaRefinement
===============================================================================
