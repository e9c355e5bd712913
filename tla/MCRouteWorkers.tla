---------------------------- MODULE MCRouteWorkers ----------------------------
(* Three workers share four nets; progress is due every second net. *)
EXTENDS RouteWorkers
===============================================================================
