----------------------------- MODULE RoutesToPhys -----------------------------
(***************************************************************************)
(* write_routes_jsonl and routes_to_phys: the routes of a design are       *)
(* written net by net, and hung back into its physical netlist.  PIPs go   *)
(* below the source pin that drives them, and each reached sink moves from *)
(* the stubs to the end of its path.                                       *)
(***************************************************************************)
EXTENDS DesignImport

VARIABLES
    routes,     \* the lines of routes.jsonl: [net, sources, sinks, edges],
                \* the edges a set
    allow,      \* --allow-unrouted-stubs
    exported    \* the nets of the output netlist so far

exportVars == <<routes, allow, exported>>

Reached(r) == {i \in 1 .. Len(r.sinks) : r.sinks[i].reached}
Routed(r) == Reached(r) = DOMAIN r.sinks

\* write_routes_jsonl: the pins as the request lists them, every edge once.
RouteLine(request, tree, reached) ==
    [net |-> request.net, sources |-> request.sources,
     sinks |-> [i \in 1 .. Len(request.sinks) |->
                   LET s == request.sinks[i]
                   IN  [node |-> s.node, pin |-> s.pin, reached |-> s.node \in reached]],
     edges |-> tree]

\* validate_routes_against_metadata, for one line
MatchesRequest(r) ==
    \E q \in Range(requests) :
        /\ r.net = q.net /\ r.sources = q.sources
        /\ [i \in DOMAIN r.sinks |-> [node |-> r.sinks[i].node, pin |-> r.sinks[i].pin]] = q.sinks

LoadRoutes ==
    /\ phase = "load"
    /\ allow' \in BOOLEAN
    /\ phase' = IF routes # <<>> /\ \A r \in Range(routes) : MatchesRequest(r)
                THEN "export" ELSE "notLoaded"
    /\ next' = 1
    /\ UNCHANGED <<input, lookup, masks, requests, csr, routes, exported>>
-----------------------------------------------------------------------------
Exporting == phase = "export" /\ next <= Len(design)

RoutesOf(net) == {r \in Range(routes) : r.net = net.name}

\* The nodes routed to or from by the pins of a net: source_node_by_pin.
SourceNode(r, p) ==
    LET nodes == {e.node : e \in {x \in Range(r.sources) : x.pin = p}} \ {NoNode}
    IN  IF nodes = {} THEN NoNode ELSE CHOOSE n \in nodes : TRUE

StubsFor(net, p) == SelectSeq([i \in 1 .. Len(net.stubs) |-> i], LAMBDA i : net.stubs[i].pin = p)

\* consume_stub_branch: the stub a sink takes; sinks on one pin take its stubs in turn.
StubOf(net, r, i) ==
    StubsFor(net, r.sinks[i].pin)
        [Cardinality({j \in Reached(r) : j <= i /\ r.sinks[j].pin = r.sinks[i].pin})]

EnoughStubs(net, r) ==
    \A i \in Reached(r) :
        Cardinality({j \in Reached(r) : r.sinks[j].pin = r.sinks[i].pin})
            <= Len(StubsFor(net, r.sinks[i].pin))

\* insert_route_tree: the edges and then the sinks at n.  The edges of a route
\* are a forest (RouteNet's RouteTree), so the exception for a cycle is left out.
Subtree(net, r, n) ==
    LET below[v \in rows] ==
            LET down == SetToSeq({e \in r.edges : e.from = v})
                ends == SelectSeq([i \in DOMAIN r.sinks |-> i],
                                  LAMBDA i : i \in Reached(r) /\ r.sinks[i].node = v)
            IN  [i \in 1 .. Len(down) |-> PipBranch(down[i].pip, below[down[i].to])]
                    \o [i \in 1 .. Len(ends) |-> net.stubs[StubOf(net, r, ends[i])]]
    IN  below[n]

\* Mutant of EmitsAt: the tree hangs below every alias of its source.
EmitsAtEveryAlias(nodes, k) == nodes[k] # NoNode

\* The tree of a source node hangs below the first pin on that node only.
EmitsAt(nodes, k) == nodes[k] # NoNode /\ \A j \in 1 .. k - 1 : nodes[j] # nodes[k]

\* What is hung below the k-th source pin.
Trees(net, r) ==
    LET pins == OfKind("pin", net.sources)
        nodes == [k \in 1 .. Len(pins) |-> SourceNode(r, pins[k].pin)]
    IN  [k \in 1 .. Len(pins) |-> IF EmitsAt(nodes, k) THEN Subtree(net, r, nodes[k]) ELSE <<>>]

\* The forest itself and what hangs below its branches.
Parts(forest) == {forest} \cup {b.below : b \in Range(Branches(forest))}

\* The forest with trees[k] below its k-th pin: `seen` pins lie before a part.
Graft(forest, trees) ==
    LET hung[part \in Parts(forest), seen \in 0 .. Len(trees)] ==
            [i \in 1 .. Len(part) |->
                LET b == part[i]
                    before == seen + Len(OfKind("pin", SubSeq(part, 1, i - 1)))
                IN  IF b.kind = "pin" /\ trees[before + 1] # <<>>
                    THEN [b EXCEPT !.below = trees[before + 1]]
                    ELSE [b EXCEPT !.below = hung[b.below, before + (IF b.kind = "pin" THEN 1 ELSE 0)]]]
    IN  hung[forest, 0]

\* Mutant of Leftover: as many stubs as sinks were missed, whichever they are.
LeftoverPrefix(net, r) == SubSeq(net.stubs, 1, Len(net.stubs) - Cardinality(Reached(r)))

\* The stubs no sink has taken.
Leftover(net, r) ==
    LET left == SelectSeq([i \in 1 .. Len(net.stubs) |-> i],
                          LAMBDA i : \A j \in Reached(r) : StubOf(net, r, j) # i)
    IN  [i \in 1 .. Len(left) |-> net.stubs[left[i]]]

SingleParents(r) ==
    \A e, f \in r.edges : e.to = f.to => e.from = f.from

\* Every PIP is emitted, every reached sink attached, and no stub left over
\* unless that is allowed.
CanRebuild(net, r) ==
    /\ SingleParents(r) /\ StubsAreSitePins(net) /\ EnoughStubs(net, r)
    /\ LET hung == FlattenSeq(Trees(net, r)) IN
       /\ Len(OfKind("pip", hung)) = Cardinality(r.edges)
       /\ Len(OfKind("pin", hung)) = Cardinality(Reached(r))
    /\ Leftover(net, r) = <<>> \/ allow
-----------------------------------------------------------------------------
\* A net without a route stays as it is, and so does one that reached nothing,
\* or cannot be hung into, when stubs may stay unrouted.
Keeps(net) ==
    \A r \in RoutesOf(net) :
        \/ allow /\ Reached(r) = {} /\ r.edges = {}
        \/ allow /\ Reached(r) # {} /\ ~Routed(r) /\ ~StubsAreSitePins(net)

Rebuilds(net) == ~Keeps(net) /\ \A r \in RoutesOf(net) : Reached(r) # {} /\ CanRebuild(net, r)

KeepNet ==
    /\ Exporting /\ Keeps(Net)
    /\ exported' = Append(exported, Net)
    /\ next' = next + 1
    /\ UNCHANGED <<input, phase, lookup, masks, requests, csr, routes, allow>>

RebuildNet ==
    /\ Exporting /\ Rebuilds(Net)
    /\ \E r \in RoutesOf(Net) :
          exported' = Append(exported, [Net EXCEPT !.sources = Graft(@, Trees(Net, r)),
                                                   !.stubs = Leftover(Net, r)])
    /\ next' = next + 1
    /\ UNCHANGED <<input, phase, lookup, masks, requests, csr, routes, allow>>

RefuseExport ==
    /\ Exporting /\ ~Keeps(Net) /\ ~Rebuilds(Net)
    /\ phase' = "notExported"
    /\ UNCHANGED <<input, next, lookup, masks, requests, csr, exportVars>>

\* The file is written once every route has found its net.
FinishExport ==
    /\ phase = "export" /\ next > Len(design)
    /\ phase' = IF \A r \in Range(routes) : \E i \in 1 .. Len(design) : design[i].name = r.net
                THEN "exported" ELSE "notExported"
    /\ UNCHANGED <<input, next, lookup, masks, requests, csr, exportVars>>

Export == LoadRoutes \/ KeepNet \/ RebuildNet \/ RefuseExport \/ FinishExport
===============================================================================
