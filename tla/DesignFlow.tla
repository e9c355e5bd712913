------------------------------ MODULE DesignFlow ------------------------------
(***************************************************************************)
(* A device and a design on their way through the four programs:           *)
(* device_to_routing_graph, interchange_to_csr, pathfinder and             *)
(* routes_to_phys.  The router is seen through what it may write: RouteNet *)
(* says how a route tree comes about, RouteLine what becomes of it.        *)
(***************************************************************************)
EXTENDS RoutesToPhys

vars == <<importVars, exportVars>>

Init == DeviceInit /\ ImportInit /\ routes = <<>> /\ allow = FALSE /\ exported = <<>>

\* Edges hanging from the sources, none in a circle, every leaf a sink: RouteNet's
\* RouteTree.
IsRouteTree(tree, sources, sinks) ==
    LET heads == {e.to : e \in tree} IN
    /\ \A e, f \in tree : e.to = f.to => e = f
    /\ heads \cap sources = {} /\ \A e \in tree : e.from \in sources \cup heads
    /\ \A circle \in (SUBSET heads) \ {{}} : \E e \in tree : e.to \in circle /\ e.from \notin circle
    /\ \A v \in heads : v \in sinks \/ \E e \in tree : e.from = v

\* route_net: without a source nothing is reached.
Outcomes(q) ==
    LET sources == NodesOf(q.sources)
        trees == {tree \in SUBSET csr : IsRouteTree(tree, sources, NodesOf(q.sinks))}
    IN  {RouteLine(q, tree, sources \cup {e.to : e \in tree}) : tree \in trees}

RouteRequest ==
    /\ phase = "route" /\ Len(routes) < Len(requests)
    /\ \E r \in Outcomes(requests[Len(routes) + 1]) : routes' = Append(routes, r)
    /\ UNCHANGED <<importVars, allow, exported>>

\* The limit on nets, if there is one, lies anywhere behind the first.
LimitReached == routes # <<>> \/ requests = <<>>

\* With --allow-unrouted, or when every net that was tried is routed.
WriteRoutes ==
    /\ phase = "route" /\ LimitReached
    /\ phase' = "load"
    /\ UNCHANGED <<input, next, lookup, masks, requests, csr, exportVars>>

RefuseRoutes ==
    /\ phase = "route" /\ LimitReached /\ \E r \in Range(routes) : ~Routed(r)
    /\ phase' = "unrouted"
    /\ UNCHANGED <<input, next, lookup, masks, requests, csr, exportVars>>

Next == \/ ImportDevice /\ UNCHANGED <<design, logical, lookup, masks, requests, csr, exportVars>>
        \/ Import /\ UNCHANGED exportVars
        \/ RouteRequest \/ WriteRoutes \/ RefuseRoutes \/ Export

Spec == Init /\ [][Next]_vars
-----------------------------------------------------------------------------
IsRouted(net) == Disposition(net) = "route"
Ends(net) == NodesOf(SourcesOf(net)) \cup NodesOf(SinksOf(net))

\* What makes two nets of a design incompatible, or one of them impossible.
Clash(a, b) ==
    \/ a.name = b.name
    \/ IsRouted(a) /\ IsRouted(b) /\ Ends(a) \cap Ends(b) # {}
    \/ IsRouted(a) /\ ~IsRouted(b) /\ Ends(a) \cap FixedNodes(b) # {}
    \/ IsRouted(b) /\ ~IsRouted(a) /\ Ends(b) \cap FixedNodes(a) # {}

OffDevice(net) ==
    fullDevice /\ IF IsRouted(net)
                  THEN \E e \in Range(SourcesOf(net)) \cup Range(SinksOf(net)) : e.node = NoNode
                  ELSE UnresolvedFixed(net)

\* Two sinks on one node, of a net without a source on the device.
SharedSinkWithoutSource(net) ==
    IsRouted(net) /\ NodesOf(SourcesOf(net)) = {}
    /\ \E i, j \in 1 .. Len(net.stubs) :
          i # j /\ SinksOf(net)[i].node = SinksOf(net)[j].node /\ SinksOf(net)[i].node # NoNode

Clashes ==
    \/ \E i, j \in 1 .. Len(design) : i < j /\ Clash(design[i], design[j])
    \/ \E i \in 1 .. Len(design) : OffDevice(design[i])

SinksClash == \E i \in 1 .. Len(design) : SharedSinkWithoutSource(design[i])

\* Requests and masks stay as they are from here on.
Imported == phase = "route" /\ routes = <<>>

\* Claims and blocks made net by net add up: a design is refused exactly if two
\* of its nets clash or a net leaves a full device, in whichever order its nets
\* are listed (parse_physical_netlist, claim_endpoint, preserve_unowned_node), or
\* if a net without a source on the device has two sinks on one node (SinksClash),
\* a refusal that SourcelessNetKept calls in question.
RefusedIffClash ==
    /\ phase = "refused" => Clashes \/ SinksClash
    /\ Imported => ~Clashes /\ ~SinksClash

\* A net whose source lies outside a bounded graph does not stop the import: its
\* request is kept and its sinks are reserved (interchange_to_csr.cpp:1232-1234).
SourcelessNetKept == phase = "refused" => Clashes

\* The nodes of a request and of a preserved net are their own: no other request
\* and no preserved net has those of a request, and the graph has no edge into a
\* source, out of a sink, or at a preserved node.
EndpointsExclusive ==
    Imported =>
        LET preserved == UNION {FixedNodes(net) : net \in {n \in Range(design) : ~IsRouted(n)}}
            sources(q) == NodesOf(q.sources)
            ends(q) == sources(q) \cup NodesOf(q.sinks)
        IN  /\ \A e \in csr : {e.from, e.to} \cap preserved = {}
            /\ \A i \in 1 .. Len(requests) :
                  LET q == requests[i] IN
                  /\ ends(q) \cap preserved = {}
                  /\ \A j \in 1 .. Len(requests) : j # i => ends(q) \cap ends(requests[j]) = {}
                  /\ \A e \in csr : e.to \notin sources(q) /\ (e.from \in ends(q) => e.from \in sources(q))

\* A route neither touches a preserved net nor the pins of another net, though it
\* is searched for on a graph all nets share.
RoutesKeepOut ==
    \A i \in 1 .. Len(routes) :
        \A e \in routes[i].edges :
            /\ \A net \in Range(design) : ~IsRouted(net) => {e.from, e.to} \cap FixedNodes(net) = {}
            /\ \A net \in Range(design) :
                  IsRouted(net) /\ net.name # routes[i].net => {e.from, e.to} \cap Ends(net) = {}

\* A request names a logical net only if no other cell has a net of that name.
LogicalUnambiguous ==
    \A q \in Range(requests) :
        LET cells == {i \in 1 .. Len(logical) : logical[i] = q.net}
        IN  q.logical = (IF Cardinality(cells) = 1 THEN CHOOSE i \in cells : TRUE ELSE 0)

\* Below a pin or PIP that ends at n every PIP is one of the device that starts at
\* n, and every site pin is on n.
Connected(forest, node) ==
    LET holds[part \in Parts(forest), n \in rows] ==
            \A i \in 1 .. Len(part) :
                \/ part[i].kind = "bel"
                \/ part[i].kind = "pin" /\ SitePinNode(part[i].pin) = n
                \/ part[i].kind = "pip" /\ \E m \in rows : Realises(part[i].pip, n, m)
                                                         /\ holds[part[i].below, m]
    IN  holds[forest, node]

\* How often a branch is listed.
Copies(b, branches) == Cardinality({i \in 1 .. Len(branches) : branches[i] = b})

\* The output netlist carries the routes and loses nothing: the stubs of every
\* net are still there, once each, those of reached sinks below a chain of PIPs
\* of the device, each driven by the wire the one above drives, that leads to
\* their node; the PIPs are those of the route, once each; a net without a route
\* is as it was.
ExportFaithful ==
    phase = "exported" =>
        /\ Len(exported) = Len(design)
        /\ \A k \in 1 .. Len(design) :
              LET net == design[k]  out == exported[k]
                  roots == OfKind("pin", net.sources)
                  pins == {b \in Range(OfKind("pin", out.sources)) : \E x \in Range(roots) : x.pin = b.pin}
                  all == OfKind("pin", out.sources) \o out.stubs
              IN
              IF RoutesOf(net) = {} THEN out = net
              ELSE \A r \in RoutesOf(net) :
                   /\ Len(all) = Len(roots) + Len(net.stubs)
                   /\ \A b \in Range(net.stubs) : Copies(b, all) >= Copies(b, net.stubs)
                   /\ \A b \in pins : b.below = <<>> \/ Connected(b.below, SitePinNode(b.pin))
                   /\ LET pips == OfKind("pip", out.sources) IN
                      /\ Len(pips) = Cardinality(r.edges)
                      /\ {b.pip : b \in Range(pips)} = {e.pip : e \in r.edges}
                   /\ Len(out.stubs) = Len(net.stubs) - Cardinality(Reached(r))

\* The exporter takes every routes file the router writes for its import, unless
\* there was nothing to route (validate_routes_against_metadata).
RoutesAccepted == phase = "notLoaded" => requests = <<>>

\* The export stops only for a sink that was not reached and may not stay unrouted.
ExportCompletes ==
    /\ RoutesAccepted
    /\ phase = "notExported" => ~allow /\ \E r \in Range(routes) : ~Routed(r)
===============================================================================
