--------------------------- MODULE MCBF11Refinement ---------------------------
(* The small graphs of MCBF11 under the refinement mapping. *)
EXTENDS MCBF11, BF11Refinement
===============================================================================
