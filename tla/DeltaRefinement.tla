--------------------------- MODULE DeltaRefinement ---------------------------
(* A Delta-Stepping workspace is an SSSP oracle too: buckets, queues and the   *)
(* sparse reset are invisible to the caller, and what run returns is a sound   *)
(* answer.  The answer counts as given once the arrays have been reset.        *)
EXTENDS DeltaStepping
CONSTANTS NoCall, NoReply

\* The two markers are no query and no answer.
ASSUME MarkerAssumption ==
    /\ NoCall \notin Queries
    /\ \A r \in Queries : NoReply \notin [certified : BOOLEAN, dist : [r.targets -> Cost]]

ServedCall == IF phase = "idle" THEN NoCall ELSE query
ReadyReply == IF phase = "done" THEN result ELSE NoReply

Oracle == INSTANCE SsspOracle
          WITH call <- ServedCall, reply <- ReadyReply, Fallback <- {}

\* Every behaviour of the workspace is one PathFinder may expect of an oracle:
\* multipliers frozen during a call, exact distances under a certificate, upper
\* bounds without one, and nothing returned by a call that throws.
ImplementsOracle == Oracle!OracleSpec
===============================================================================
