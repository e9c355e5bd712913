----------------------------- MODULE SsspOracle -----------------------------
(***************************************************************************)
(* What PathFinder relies on when it hands a query to an SSSP workspace:   *)
(* one call at a time, multipliers that change only between calls, and an  *)
(* answer whose distances are exact whenever it carries a certificate      *)
(* (converged or stopped_on_target).  An answer without a certificate only *)
(* bounds the distances from above, and a call may fail instead.           *)
(***************************************************************************)
EXTENDS CsrGraph

CONSTANTS
    Costs,      \* multipliers update_vertex_costs may install
    Queries,    \* the queries a caller may make
    Fallback,   \* those the engine repeats without bounds if a target is missed
    NoCall, NoReply

VARIABLES
    costs,      \* the multiplier of every node
    call,       \* the query being served, or NoCall
    reply       \* the answer not yet returned, or NoReply

oracleVars == <<costs, call, reply>>

\* r is right for query a when paths may enter only the nodes of box.
SoundWithin(box, r, a, dyn) ==
    \A t \in a.targets :
        IF r.certified THEN IsDistance(r.dist[t], t, a.sources, box, dyn)
                       ELSE BoundsDistance(r.dist[t], t, a.sources, box, dyn)

\* The answers to query a that a sound engine may give under multipliers dyn.
SoundReplies(a, dyn) ==
    {r \in [certified : BOOLEAN, dist : [a.targets -> Cost]] :
        \/ SoundWithin(a.admit, r, a, dyn) /\ (a \in Fallback => \A t \in a.targets : r.dist[t] # Inf)
        \/ a \in Fallback /\ SoundWithin(Vertex, r, a, dyn)}

Init == costs = [v \in Vertex |-> 1] /\ call = NoCall /\ reply = NoReply

SetCosts == /\ call = NoCall
            /\ costs' \in [Vertex -> Costs]
            /\ UNCHANGED <<call, reply>>

Ask == /\ call = NoCall
       /\ call' \in Queries
       /\ UNCHANGED <<costs, reply>>

Answer == /\ call # NoCall /\ reply = NoReply
          /\ reply' \in SoundReplies(call, costs)
          /\ UNCHANGED <<costs, call>>

\* The call throws; nothing is returned.
Fail == /\ call # NoCall /\ reply = NoReply
        /\ call' = NoCall
        /\ UNCHANGED <<costs, reply>>

Return == /\ reply # NoReply
          /\ call' = NoCall /\ reply' = NoReply
          /\ UNCHANGED costs

Next == SetCosts \/ Ask \/ Answer \/ Fail \/ Return

OracleSpec == Init /\ [][Next]_oracleVars
=============================================================================
