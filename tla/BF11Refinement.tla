---------------------------- MODULE BF11Refinement ----------------------------
(* A BF11 workspace is an SSSP oracle: everything between Begin and Reply is   *)
(* invisible to the caller, a second run without bounds included, and what run *)
(* returns is a sound answer.                                                  *)
EXTENDS BF11
CONSTANTS NoCall, NoReply

\* The two markers are no query and no answer.
ASSUME MarkerAssumption ==
    /\ NoCall \notin Queries
    /\ \A r \in Queries : NoReply \notin [certified : BOOLEAN, dist : [r.targets -> Cost]]

ServedCall == IF phase = "idle" THEN NoCall ELSE query
ReadyReply == IF phase = "done" /\ ~MissedInBounds THEN result ELSE NoReply

Oracle == INSTANCE SsspOracle
          WITH costs <- dyn, call <- ServedCall, reply <- ReadyReply

\* Every behaviour of the workspace is one PathFinder may expect of an oracle:
\* multipliers frozen during a call, exact distances under a certificate, upper
\* bounds without one, and nothing returned by a call that throws.
ImplementsOracle == Oracle!OracleSpec
===============================================================================
