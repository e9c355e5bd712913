------------------------------- MODULE RouteNet -------------------------------
(***************************************************************************)
(* One routing worker: it routes net after net, each with at most two SSSP *)
(* queries (the second one unbounded), and joins the certified paths into  *)
(* a route tree.  Scratch arrays are reused from net to net, told apart by *)
(* a stamp.  A query is one step: BF11 models the engine, CheapestPaths    *)
(* what it may answer.                                                     *)
(***************************************************************************)
EXTENDS RouteBounds, CheapestPaths

CONSTANTS
    Requests,   \* route_requests: sequence of [sources, sinks : Seq(Int)]
    Config,     \* options.bounds
    MaxStamp    \* largest value of the tree stamp (2^32 - 1)

\* A worker meets fewer nets than there are stamps.
ASSUME RequestAssumption ==
    /\ Config \in [enabled : BOOLEAN, marginX : Nat, marginY : Nat, fallback : BOOLEAN]
    /\ MaxStamp \in Nat /\ Len(Requests) <= MaxStamp
    /\ Requests \in Seq([sources : Seq(Int), sinks : Seq(Int)])

VARIABLES
    idx,            \* the request being routed
    stamp,          \* route_tree_stamp
    treeSeen, parentSeen, parentOf,     \* scratch arrays, by node
    phase,
    members,        \* source_candidates: the nodes of the tree so far
    bounds,         \* query_bounds of the net
    retried,        \* used_unbounded_retry
    answer,         \* the SSSP result in hand
    sinks,          \* RoutedSink per requested sink
    pos,            \* the sink being attached
    nets,           \* finished nets
    occupancy

scratch == <<stamp, treeSeen, parentSeen, parentOf>>
net     == <<members, bounds, retried, answer, sinks, pos>>
vars    == <<idx, scratch, phase, net, nets, occupancy>>

Request == Requests[idx]
Valid(v) == v \in Vertex
SourcesOf(r) == {v \in Range(r.sources) : Valid(v)}
Sources == SourcesOf(Request)
InTree(v) == treeSeen[v] = stamp

Missed(t)      == [target |-> t, reached |-> FALSE, path |-> NoPath, distance |-> Inf]
AlreadyIn(t)   == [target |-> t, reached |-> TRUE, path |-> NoPath, distance |-> 0]
Candidate(t, p) == [target |-> t, reached |-> FALSE, path |-> p, distance |-> PathCost(p)]

NoAnswer == [certified |-> FALSE, path |-> <<>>]

Init ==
    /\ idx = 1 /\ stamp = 0 /\ phase = "next"
    /\ treeSeen = [v \in Vertex |-> 0] /\ parentSeen = [v \in Vertex |-> 0]
    /\ parentOf = [v \in Vertex |-> -1]
    /\ members = <<>> /\ bounds = Unbounded /\ retried = FALSE /\ answer = NoAnswer
    /\ sinks = <<>> /\ pos = 1 /\ nets = <<>>
    /\ occupancy = [v \in Vertex |-> 0]
-----------------------------------------------------------------------------
\* Mutant of AddUnique: the stamp is not looked at.
AddAlways(tree, v, st) ==
    IF ~Valid(v) THEN tree
    ELSE [seen |-> [tree.seen EXCEPT ![v] = st], nodes |-> Append(tree.nodes, v)]

\* add_unique_node on [seen, nodes].
AddUnique(tree, v, st) ==
    IF ~Valid(v) \/ tree.seen[v] = st THEN tree
    ELSE [seen |-> [tree.seen EXCEPT ![v] = st], nodes |-> Append(tree.nodes, v)]

AddAll(tree, nodes, st) == FoldLeft(LAMBDA a, v : AddUnique(a, v, st), tree, nodes)

\* Mutant of NextStamp: the stamp of the net before is used again.
StampKept == IF stamp = 0 THEN 1 ELSE stamp

\* next_tree_stamp, short of the wrap that RequestAssumption excludes.
NextStamp == stamp + 1

Targets == {s.target : s \in {x \in Range(sinks) : Valid(x.target) /\ ~x.reached}}

\* route_net up to the query: the tree is the set of sources, and a sink among
\* them is reached.  Without sources nothing is routed; without targets there
\* is nothing to ask.
StartNet ==
    /\ phase = "next" /\ idx <= Len(Requests)
    /\ stamp' = NextStamp
    /\ LET tree == AddAll([seen |-> treeSeen, nodes |-> <<>>], Request.sources, NextStamp)
           state(t) == IF Valid(t) /\ tree.seen[t] = NextStamp THEN AlreadyIn(t) ELSE Missed(t)
       IN  /\ treeSeen' = tree.seen /\ members' = tree.nodes
           /\ sinks' = IF tree.nodes = <<>> THEN <<>>
                       ELSE [i \in 1 .. Len(Request.sinks) |-> state(Request.sinks[i])]
           /\ phase' = IF tree.nodes = <<>> THEN "finish"
                       ELSE IF \E t \in Range(Request.sinks) : Valid(t) /\ tree.seen[t] # NextStamp
                            THEN "bounds" ELSE "attach"
    /\ bounds' = Unbounded /\ retried' = FALSE /\ pos' = 1
    /\ answer' = [NoAnswer EXCEPT !.certified = members' # <<>>]
    /\ UNCHANGED <<idx, parentSeen, parentOf, nets, occupancy>>

\* derive_query_bounds, or its exception.
SetBounds ==
    /\ phase = "bounds"
    /\ IF CannotBound(Targets, Config)
       THEN phase' = "threw" /\ UNCHANGED bounds
       ELSE phase' = "query" /\ bounds' = DeriveBounds(Sources, Targets, Config)
    /\ UNCHANGED <<idx, scratch, members, retried, answer, sinks, pos, nets, occupancy>>

AllReached(a) == \A t \in Targets : a.path[t] # NoPath

\* bounded_failure of run_with_optional_unbounded_fallback.
WorthRetry(a) == bounds.enabled /\ Config.fallback /\ (~a.certified \/ ~AllReached(a))

Query ==
    /\ phase = "query"
    /\ \E a \in Answers(Sources, Targets, AdmittedNodes(bounds)) :
          /\ answer' = a
          /\ phase' = IF WorthRetry(a) THEN "retry" ELSE "extract"
    /\ UNCHANGED <<idx, scratch, members, bounds, retried, sinks, pos, nets, occupancy>>

\* The one retry replaces the first answer, better or not.
Retry ==
    /\ phase = "retry"
    /\ answer' \in Answers(Sources, Targets, Vertex)
    /\ retried' = TRUE /\ phase' = "extract"
    /\ UNCHANGED <<idx, scratch, members, bounds, sinks, pos, nets, occupancy>>

\* The engine throws, and so does route_net.
QueryThrows ==
    /\ phase \in {"query", "retry"}
    /\ phase' = "threw"
    /\ UNCHANGED <<idx, scratch, net, nets, occupancy>>

NodeAt(p, i) == IF i = 0 THEN PathSource(p) ELSE to[p[i]]

\* Mutant of LastTreeNode: the first node of the tree.
FirstTreeNode(p) ==
    CHOOSE i \in 0 .. Len(p) :
        InTree(NodeAt(p, i)) /\ \A j \in 0 .. i - 1 : ~InTree(NodeAt(p, j))

LastTreeNode(p) ==
    CHOOSE i \in 0 .. Len(p) :
        InTree(NodeAt(p, i)) /\ \A j \in i + 1 .. Len(p) : ~InTree(NodeAt(p, j))

\* trim_routed_sink_to_tree: drop everything up to the last node of the tree.
Trim(p) == SubSeq(p, LastTreeNode(p) + 1, Len(p))

\* Mutant of Accepted: the certificate is not asked for.
AnyPath(t) == answer.path[t] # NoPath

\* extract_routed_sink_candidate takes certified paths only.
Accepted(t) == answer.certified /\ answer.path[t] # NoPath

Extract ==
    /\ phase = "extract"
    /\ sinks' = [i \in 1 .. Len(sinks) |->
                    LET t == sinks[i].target IN
                    IF t \in Targets /\ Accepted(t) THEN Candidate(t, Trim(answer.path[t]))
                    ELSE sinks[i]]
    /\ phase' = "attach"
    /\ UNCHANGED <<idx, scratch, members, bounds, retried, answer, pos, nets, occupancy>>
-----------------------------------------------------------------------------
(* Joining the candidates, sink by sink. *)

Sink == sinks[pos]
Attaching == phase = "attach" /\ pos <= Len(sinks)
HasCandidate == Valid(Sink.target) /\ ~InTree(Sink.target) /\ Sink.distance # Inf

\* An invalid sink or one without a candidate stays unreached; a sink that is
\* already in the tree needs no path.
AttachNothing ==
    /\ Attaching /\ ~HasCandidate
    /\ sinks' = [sinks EXCEPT ![pos] =
                    IF Valid(@.target) /\ InTree(@.target) THEN AlreadyIn(@.target) ELSE @]
    /\ pos' = pos + 1
    /\ UNCHANGED <<idx, scratch, phase, members, bounds, retried, answer, nets, occupancy>>

\* No node of the path has another parent in this net's tree.
SingleParent(p) ==
    \A i \in 1 .. Len(p) :
        parentSeen[to[p[i]]] = stamp => parentOf[to[p[i]]] = SourceForEdge(p[i])

\* attach_path_if_single_parent_tree and the growth of the tree.
AttachPath ==
    LET p == Trim(Sink.path)
        children == {to[p[i]] : i \in 1 .. Len(p)}
        tree == AddAll([seen |-> treeSeen, nodes |-> members],
                       <<PathSource(p)>> \o [i \in 1 .. Len(p) |-> to[p[i]]], stamp)
    IN
    /\ Attaching /\ HasCandidate
    /\ pos' = pos + 1
    /\ IF SingleParent(p)
       THEN /\ parentSeen' = [v \in Vertex |-> IF v \in children THEN stamp ELSE parentSeen[v]]
            /\ parentOf' = [v \in Vertex |->
                  IF v \in children
                  THEN SourceForEdge(CHOOSE e \in Range(p) : to[e] = v) ELSE parentOf[v]]
            /\ treeSeen' = tree.seen /\ members' = tree.nodes
            /\ sinks' = [sinks EXCEPT ![pos] = [Candidate(@.target, p) EXCEPT !.reached = TRUE]]
       ELSE /\ sinks' = [sinks EXCEPT ![pos] = Missed(@.target)]
            /\ UNCHANGED <<treeSeen, parentSeen, parentOf, members>>
    /\ UNCHANGED <<idx, stamp, phase, bounds, retried, answer, nets, occupancy>>

AttachDone ==
    /\ phase = "attach" /\ pos > Len(sinks)
    /\ phase' = "finish"
    /\ UNCHANGED <<idx, scratch, net, nets, occupancy>>

\* The RoutedNet that route_net returns.
FinishNet ==
    /\ phase = "finish"
    /\ nets' = Append(nets,
          [reachedAll |-> members # <<>> /\ \A i \in 1 .. Len(sinks) : sinks[i].reached,
           certified |-> answer.certified, members |-> members, sinks |-> sinks,
           admitted |-> IF retried THEN Vertex ELSE AdmittedNodes(bounds)])
    /\ idx' = idx + 1 /\ phase' = "next"
    /\ UNCHANGED <<scratch, net, occupancy>>

Occupy(occ, nodes) == FoldLeft(LAMBDA o, v : [o EXCEPT ![v] = @ + 1], occ, nodes)

\* commit_net_occupancy
CommitNet(occ, n) == IF n.reachedAll THEN Occupy(occ, n.members) ELSE occ

\* After the workers have finished.
Commit ==
    /\ phase = "next" /\ idx > Len(Requests)
    /\ occupancy' = FoldLeft(CommitNet, occupancy, nets)
    /\ phase' = "done"
    /\ UNCHANGED <<idx, scratch, net, nets>>

Next == \/ StartNet \/ SetBounds \/ Query \/ Retry \/ QueryThrows \/ Extract
        \/ AttachNothing \/ AttachPath \/ AttachDone \/ FinishNet \/ Commit

Spec == Init /\ [][Next]_vars
-----------------------------------------------------------------------------
\* The trimmed path of a candidate never gives a node of the tree a second
\* parent, so attach_path_if_single_parent_tree never drops a routed sink.
TrimmedPathAttaches ==
    Attaching /\ HasCandidate => SingleParent(Trim(Sink.path))

\* The net that route_net has just returned.
JustReturned == IF phase = "next" /\ nets # <<>> THEN {Len(nets)} ELSE {}

TreeEdges(n) == UNION {Range(n.sinks[i].path) : i \in {j \in 1 .. Len(n.sinks) : n.sinks[j].reached}}

\* The cost of the way down the tree from its root to v.
RootCost(n, S, v) ==
    LET up[k \in 0 .. Rows] ==
          [x \in Vertex |->
             IF x \in S THEN 0
             ELSE IF k = 0 \/ ~\E e \in TreeEdges(n) : to[e] = x THEN Inf
             ELSE LET e == CHOOSE d \in TreeEdges(n) : to[d] = x
                  IN  Saturate(up[k - 1][SourceForEdge(e)] + EffectiveWeight(e, Unit))]
    IN  up[Rows][v]

\* The edges of the reached sinks of a net form a tree: no source is entered, no
\* node twice, every node of it hangs from a source, and unique_nodes lists its
\* nodes once each, whatever net was routed on the same scratch arrays before.
RouteTree ==
    \A k \in JustReturned :
        LET n == nets[k]  S == SourcesOf(Requests[k]) IN
        /\ \A e \in TreeEdges(n) : to[e] \notin S /\ RootCost(n, S, to[e]) # Inf
        /\ \A e, f \in TreeEdges(n) : to[e] = to[f] => e = f
        /\ Range(n.members) = S \cup {to[e] : e \in TreeEdges(n)}
        /\ IsInjective(n.members)

\* Cutting a path at its last node of the tree keeps the distance from the root:
\* every reached sink hangs at the cheapest admissible distance from the sources.
RootDistance ==
    \A k \in JustReturned :
        LET n == nets[k]  S == SourcesOf(Requests[k]) IN
        \A i \in 1 .. Len(n.sinks) :
            LET t == n.sinks[i].target IN
            n.sinks[i].reached /\ t \notin S =>
                \E p \in Cheapest(S, t, n.admitted) : RootCost(n, S, t) = PathCost(p)

\* Under a certificate a sink is missed only if no admissible path leads to it,
\* and a sink outside the sources is reached only under a certificate.  With the
\* fallback on, a sink is given up only after a search of the whole graph.
MissedOnlyIfUnreachable ==
    \A k \in JustReturned :
        LET n == nets[k]  S == SourcesOf(Requests[k]) IN
        \A i \in 1 .. Len(n.sinks) :
            LET t == n.sinks[i].target IN
            Valid(t) /\ t \notin S =>
                /\ n.sinks[i].reached <=> n.certified /\ Admissible(S, t, n.admitted) # {}
                /\ Config.fallback /\ S # {} /\ ~n.sinks[i].reached => n.admitted = Vertex

\* A query box never shuts a terminal out.
TerminalsAdmitted ==
    phase \in {"query", "extract", "attach"} => Sources \cup Targets \subseteq AdmittedNodes(bounds)
=============================================================================
