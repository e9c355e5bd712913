--------------------------- MODULE DesignFlowProofs ---------------------------
(***************************************************************************)
(* Why no net of a design gets onto what another one owns, for every       *)
(* device, cut and design: the masks of the importer are described by the  *)
(* nets imported so far, whatever their order, and the edges left by the   *)
(* filter keep every route away from all other nets.  Then why the graph   *)
(* is the device's, and why the exporter takes the router's file.          *)
(***************************************************************************)
EXTENDS DesignFlow, FiniteSetTheorems, NaturalsInduction, WellFoundedInduction, TLAPS

-----------------------------------------------------------------------------
(* The invariant. *)

OnDevice == {"deviceNodes", "devicePips", "deviceSites", "noGraph"}
Routing  == {"route", "load", "unrouted", "notLoaded", "export", "exported", "notExported"}

\* Where the flow is, and that its input is what was opened.
FlowType ==
    /\ next \in Nat \ {0}
    /\ phase \in OnDevice \cup {"open", "logical", "nets", "refused", "unsupported"} \cup Routing
    /\ phase \notin OnDevice \cup {"open"} =>
          design \in Designs /\ logical \in LogicalDesigns /\ logicalIndex \in [Names -> Nat]
          /\ owner \in [rows -> Nat]
    /\ phase = "open" => next = 1
    /\ phase = "logical" => next <= Len(logical) + 1
    /\ phase = "nets" => next <= Len(design) + 1
    /\ phase = "refused" => next <= Len(design)
    /\ phase \notin Routing => routes = <<>> /\ csr = {}
    /\ phase \in OnDevice \cup {"open", "logical"} =>
          requests = <<>> /\ blocked = {} /\ sinkStops = {} /\ unavailable = {}
    /\ phase \in OnDevice \cup {"open"} => ambiguous = {}

\* Wires and site pins lead to rows.
LookupInv ==
    /\ \A w \in tileWires : w.node \in rows
    /\ \A s \in sitePins : s.node \in rows

\* The cells and nets gone through so far.
Cells == 1 .. (IF phase = "logical" THEN next - 1 ELSE Len(logical))
Taken == 1 .. (IF phase \in OnDevice \cup {"open", "logical"} THEN 0
               ELSE IF phase \in {"nets", "refused"} THEN next - 1 ELSE Len(design))

\* The index of logical nets says which names one cell has, and which several.
LogicalInv ==
    phase \notin OnDevice \cup {"open"} =>
        \A x \in Names :
            /\ x \in ambiguous => \E i, j \in Cells : i # j /\ logical[i] = x /\ logical[j] = x
            /\ \A i \in Cells : logical[i] = x => x \in ambiguous \/ logicalIndex[x] = i
            /\ logicalIndex[x] # 0 => x \notin ambiguous /\ logicalIndex[x] \in Cells
                                      /\ logical[logicalIndex[x]] = x

\* Nodes of the nets taken that are to be routed, and of those to be preserved.
Owns(i, n)     == IsRouted(design[i]) /\ n \in Ends(design[i])
Reserves(i, n) == IF IsRouted(design[i]) THEN NodesOf(SourcesOf(design[i])) = {} /\ n \in Ends(design[i])
                  ELSE n \in FixedNodes(design[i])
Stops(i, n)    == IsRouted(design[i]) /\ NodesOf(SourcesOf(design[i])) # {}
                  /\ n \in NodesOf(SinksOf(design[i])) \ NodesOf(SourcesOf(design[i]))

\* The masks are what the nets taken add up to.
MasksInv ==
    /\ phase \notin OnDevice \cup {"open"} =>
          \A n \in rows : /\ owner[n] \in Taken \cup {0}
                          /\ \A i \in Taken : owner[n] = i <=> Owns(i, n)
    /\ \A n \in blocked : \E i \in Taken : Reserves(i, n)
    /\ \A i \in Taken : \A n : /\ Reserves(i, n) => n \in blocked
                               /\ Stops(i, n) => n \in sinkStops
    /\ \A i \in Taken : IsRouted(design[i]) => NodesOf(SourcesOf(design[i])) \subseteq unavailable
    /\ phase \in Routing => blocked \subseteq unavailable /\ csr = Filtered(unavailable)

\* The nets taken are compatible.
CompatibleInv ==
    /\ \A i, j \in Taken : i < j => ~Clash(design[i], design[j])
    /\ \A i \in Taken : ~OffDevice(design[i]) /\ ~SharedSinkWithoutSource(design[i])

\* A request is made of a net taken, and of each only one.
RequestOf(i) == [net |-> design[i].name, logical |-> logicalIndex[design[i].name],
                 sources |-> SourcesOf(design[i]), sinks |-> SinksOf(design[i])]
RequestsInv ==
    /\ requests \in Seq({RequestOf(i) : i \in {k \in Taken : IsRouted(design[k])}})
    /\ \A i, j \in 1 .. Len(requests) : requests[i].net = requests[j].net => i = j

\* A line holds a route tree of its request.
RoutesInv ==
    /\ routes \in Seq(UNION {Outcomes(q) : q \in Range(requests)})
    /\ Len(routes) <= Len(requests)

FlowInv == FlowType /\ LookupInv /\ LogicalInv /\ MasksInv /\ CompatibleInv /\ RequestsInv /\ RoutesInv

-----------------------------------------------------------------------------
(* Lookups. *)

\* A design and its logical nets are sequences.
LEMMA Sequences ==
  /\ \A d \in Designs \cup LogicalDesigns : Len(d) \in Nat /\ DOMAIN d = 1 .. Len(d)
  <1> SUFFICES ASSUME NEW d \in Designs \cup LogicalDesigns
               PROVE  Len(d) \in Nat /\ DOMAIN d = 1 .. Len(d)
    OBVIOUS
  <1>1. d \in Seq(Range(d))
    BY DesignAssumption
  <1> QED BY <1>1

\* A site pin leads to a row or nowhere, and so does a wire.
LEMMA PinsAreOnRows ==
  ASSUME LookupInv, NEW p
  PROVE  SitePinNode(p) \in rows \cup {NoNode} /\ Candidates(p) \subseteq rows
  <1>1. Candidates(p) \subseteq rows
    BY DEF Candidates, LookupInv
  <1>2. ASSUME NEW S, S \subseteq rows, Cardinality(S) = 1
        PROVE  (CHOOSE n \in S : TRUE) \in rows
    <2>1. S # {}
      BY <1>2, FS_EmptySet
    <2> QED BY <1>2, <2>1
  <1>3. {r.node : r \in {s \in sitePins : <<s.site, s.pin>> = p /\ s.type = ActiveType[p[1]]}} \subseteq rows
    BY DEF LookupInv
  <1> QED BY <1>1, <1>2, <1>3 DEF SitePinNode

LEMMA WiresAreRows ==
  ASSUME LookupInv, NEW t, NEW w
  PROVE  WireNode(t, w) \in rows \cup {NoNode}
  BY DEF WireNode, LookupInv

LEMMA NodesAreRows ==
  ASSUME LookupInv, NEW net
  PROVE  /\ NodesOf(SourcesOf(net)) \subseteq rows /\ NodesOf(SinksOf(net)) \subseteq rows
         /\ Ends(net) \subseteq rows /\ FixedNodes(net) \subseteq rows
  <1>1. NodesOf(SourcesOf(net)) \subseteq rows
    BY PinsAreOnRows DEF NodesOf, Range, SourcesOf, Endpoint
  <1>2. NodesOf(SinksOf(net)) \subseteq rows
    <2>1. \A i \in 1 .. Len(net.stubs) : SinksOf(net)[i].node \in rows \cup {NoNode}
      BY PinsAreOnRows DEF SinksOf, Endpoint
    <2>2. DOMAIN SinksOf(net) = 1 .. Len(net.stubs)
      BY DEF SinksOf
    <2> QED BY <2>1, <2>2 DEF NodesOf, Range
  <1>3. FixedNodes(net) \subseteq rows
    <2>1. \A p : FixedPinNodes(p) \subseteq rows
      BY PinsAreOnRows DEF FixedPinNodes
    <2>2. FixedWireNodes(net) \ {NoNode} \subseteq rows
      BY WiresAreRows DEF FixedWireNodes
    <2> QED BY <2>1, <2>2 DEF FixedNodes
  <1> QED BY <1>1, <1>2, <1>3 DEF Ends

\* On the same graph a net has the same nodes.
LEMMA SameNets ==
  ASSUME UNCHANGED <<graph, design>>
  PROVE  \A i : /\ IsRouted(design[i])' = IsRouted(design[i])
                /\ SourcesOf(design[i])' = SourcesOf(design[i])
                /\ SinksOf(design[i])' = SinksOf(design[i])
                /\ Ends(design[i])' = Ends(design[i])
                /\ FixedNodes(design[i])' = FixedNodes(design[i])
                /\ UnresolvedFixed(design[i])' = UnresolvedFixed(design[i])
  <1>1. \A p : SitePinNode(p)' = SitePinNode(p) /\ Candidates(p)' = Candidates(p)
    BY DEF SitePinNode, Candidates, graph
  <1>2. \A t, w : WireNode(t, w)' = WireNode(t, w)
    BY DEF WireNode, graph
  <1>3. \A net : SourcesOf(net)' = SourcesOf(net) /\ SinksOf(net)' = SinksOf(net)
    BY <1>1 DEF SourcesOf, SinksOf, Endpoint
  <1>4. \A net : FixedWireNodes(net)' = FixedWireNodes(net)
    BY <1>2 DEF FixedWireNodes
  <1>5. \A p : FixedPinNodes(p)' = FixedPinNodes(p)
    BY <1>1 DEF FixedPinNodes
  <1> QED BY <1>3, <1>4, <1>5 DEF FixedNodes, UnresolvedFixed, Ends, IsRouted

-----------------------------------------------------------------------------
(* Steps that take no net. *)

\* The parts that follow the nets taken.
Account == LogicalInv /\ MasksInv /\ CompatibleInv /\ RequestsInv

\* On the same graph, two nets clash or not as before.
LEMMA SameClashes ==
  ASSUME UNCHANGED <<graph, design>>
  PROVE  /\ \A i, j : Clash(design[i], design[j])' <=> Clash(design[i], design[j])
         /\ \A i : /\ OffDevice(design[i])' <=> OffDevice(design[i])
                   /\ SharedSinkWithoutSource(design[i])' <=> SharedSinkWithoutSource(design[i])
                   /\ \A n : /\ Owns(i, n)' <=> Owns(i, n)
                             /\ Reserves(i, n)' <=> Reserves(i, n)
                             /\ Stops(i, n)' <=> Stops(i, n)
  <1> USE SameNets
  <1>1. \A i, j : Clash(design[i], design[j])' <=> Clash(design[i], design[j])
    BY DEF Clash
  <1>2. fullDevice' <=> fullDevice
    BY DEF fullDevice, graph
  <1>3. \A i : OffDevice(design[i])' <=> OffDevice(design[i])
    BY <1>2 DEF OffDevice
  <1>4. \A i : SharedSinkWithoutSource(design[i])' <=> SharedSinkWithoutSource(design[i])
    BY DEF SharedSinkWithoutSource
  <1>5. \A i, n : /\ Owns(i, n)' <=> Owns(i, n)
                  /\ Reserves(i, n)' <=> Reserves(i, n)
                  /\ Stops(i, n)' <=> Stops(i, n)
    BY DEF Owns, Reserves, Stops
  <1> QED BY <1>1, <1>3, <1>4, <1>5

\* A step that takes no cell and no net and leaves the accounts alone.
LEMMA AccountKept ==
  ASSUME Account, UNCHANGED <<input, lookup, masks, requests, csr>>,
         Taken' = Taken, Cells' = Cells,
         phase' \in OnDevice \cup {"open"} <=> phase \in OnDevice \cup {"open"},
         phase' \in Routing <=> phase \in Routing
  PROVE  Account'
  <1> USE SameClashes, SameNets DEF input, lookup, masks
  <1>1. LogicalInv'
    BY DEF Account, LogicalInv, Names
  <1>2. MasksInv'
    <2>1. Filtered(unavailable)' = Filtered(unavailable)
      BY DEF Filtered, graph
    <2> QED BY <2>1 DEF Account, MasksInv, graph
  <1>3. CompatibleInv'
    BY DEF Account, CompatibleInv
  <1>4. RequestsInv'
    <2>1. \A i : RequestOf(i)' = RequestOf(i)
      BY DEF RequestOf
    <2> QED BY <2>1 DEF Account, RequestsInv
  <1> QED BY <1>1, <1>2, <1>3, <1>4 DEF Account

\* With no net taken there is nothing to account for.
LEMMA NothingTaken ==
  phase \in OnDevice \cup {"open", "logical"} /\ FlowType
  /\ (phase = "logical" => owner = [n \in rows |-> 0])
  => MasksInv /\ CompatibleInv /\ RequestsInv
  <1> SUFFICES ASSUME phase \in OnDevice \cup {"open", "logical"}, FlowType,
                      phase = "logical" => owner = [n \in rows |-> 0]
               PROVE  MasksInv /\ CompatibleInv /\ RequestsInv
    OBVIOUS
  <1>1. Taken = {}
    <2>1. Taken = 1 .. 0
      BY DEF Taken
    <2> QED BY <2>1
  <1>2. phase \notin Routing
    BY DEF Routing, OnDevice
  <1>3. MasksInv
    BY <1>1, <1>2 DEF MasksInv, FlowType, OnDevice
  <1>4. CompatibleInv
    BY <1>1 DEF CompatibleInv
  <1>5. RequestsInv
    <2>1. requests = <<>>
      BY DEF FlowType
    <2>2. Len(requests) = 0 /\ requests \in Seq({RequestOf(i) : i \in {k \in Taken : IsRouted(design[k])}})
      BY <2>1
    <2> QED BY <2>2 DEF RequestsInv
  <1> QED BY <1>3, <1>4, <1>5

LEMMA NoRoutes == routes = <<>> /\ Len(requests) \in Nat => RoutesInv
  BY DEF RoutesInv

-----------------------------------------------------------------------------
(* The device is imported, a design opened, its logical nets are indexed. *)

\* What device_to_routing_graph leaves alone.
design_untouched == <<design, logical, lookup, masks, requests, csr, exportVars>>

\* The phases of the device import.
LEMMA DevicePhases ==
  ASSUME FlowInv, ImportDevice
  PROVE  /\ phase \in OnDevice /\ phase' \in OnDevice \cup {"open"} /\ next' \in Nat \ {0}
         /\ phase' = "open" => next' = 1
  <1> USE DEF FlowInv, FlowType, OnDevice
  <1>1. CASE ImportNode
    BY <1>1 DEF ImportNode
  <1>5. CASE ExpandPips
    <2>1. phase = "devicePips" /\ next' = next + 1 /\ UNCHANGED phase
      BY <1>5, Zenon DEF ExpandPips
    <2> QED BY <2>1
  <1>6. CASE ResolveSites
    BY <1>6 DEF ResolveSites
  <1>2. CASE NodesDone
    BY <1>2 DEF NodesDone
  <1>3. CASE Compact
    BY <1>3 DEF Compact
  <1>4. CASE DeviceDone
    <2>1. phase' \in {"open", "noGraph"} /\ next' = 1 /\ phase = "deviceSites"
      BY <1>4 DEF DeviceDone
    <2> QED BY <2>1
  <1> QED BY <1>1, <1>2, <1>3, <1>4, <1>5, <1>6 DEF ImportDevice

LEMMA DeviceStep ==
  ASSUME FlowInv, ImportDevice, UNCHANGED design_untouched
  PROVE  FlowInv'
  <1> USE DEF design_untouched, lookup, masks, exportVars
  <1>1. phase \in OnDevice /\ phase' \in OnDevice \cup {"open"} /\ next' \in Nat \ {0}
        /\ (phase' = "open" => next' = 1)
    BY DevicePhases
  <1>2. FlowType'
    <2>1. /\ phase \notin Routing /\ phase' \notin Routing
          /\ phase' \notin {"logical", "nets", "refused"}
      BY <1>1 DEF OnDevice, Routing
    <2> QED BY <1>1, <2>1 DEF FlowInv, FlowType
  <1>3. LookupInv'
    <2> USE DEF FlowInv, LookupInv, graph
    <2>1. CASE ImportNode
      <3>1. rows \subseteq rows'
        BY <2>1 DEF ImportNode
      <3>2. ASSUME NEW w \in tileWires'  PROVE w \in tileWires \/ (w.node = next /\ next \in rows')
        <4>1. CASE Included(device.nodes[next])
          BY <2>1, <4>1 DEF ImportNode
        <4>2. CASE ~Included(device.nodes[next])
          BY <2>1, <4>2 DEF ImportNode
        <4> QED BY <4>1, <4>2
      <3> QED BY <2>1, <3>1, <3>2 DEF ImportNode
    <2>2. CASE ResolveSites
      <3>1. rows' = rows /\ tileWires' = tileWires
        BY <2>2 DEF ResolveSites
      <3>2. ASSUME NEW s \in sitePins'  PROVE s \in sitePins \/ s.node \in rows
        <4>1. s \in sitePins \/ \E site : s \in PinsOf(next, site)
          <5>1. CASE InBounds(next)
            BY <2>2, <5>1 DEF ResolveSites
          <5>2. CASE ~InBounds(next)
            BY <2>2, <5>2 DEF ResolveSites
          <5> QED BY <5>1, <5>2
        <4>2. ASSUME NEW site, NEW r \in PinsOf(next, site)
              PROVE  r.node # NoNode /\ \E w : r.node = WireNode(next, w)
          BY DEF PinsOf
        <4> QED BY <4>1, <4>2, WiresAreRows
      <3> QED BY <3>1, <3>2
    <2>3. CASE NodesDone \/ ExpandPips \/ Compact \/ DeviceDone
      BY <2>3 DEF NodesDone, ExpandPips, Compact, DeviceDone
    <2> QED BY <2>1, <2>2, <2>3 DEF ImportDevice
  <1>4. LogicalInv'
    BY <1>1 DEF LogicalInv
  <1>5. MasksInv' /\ CompatibleInv' /\ RequestsInv'
    <2>1. (phase \in OnDevice \cup {"open", "logical"})'
      BY <1>1
    <2>2. (phase = "logical" => owner = [n \in rows |-> 0])'
      BY <1>1 DEF OnDevice
    <2> QED BY <1>2, <2>1, <2>2, NothingTaken, PTL
  <1>6. RoutesInv'
    <2>1. routes' = <<>> /\ requests' = <<>>
      BY <1>1 DEF FlowInv, FlowType, OnDevice, Routing
    <2>2. (Len(requests) \in Nat)'
      BY <2>1
    <2>3. (routes = <<>>)'
      BY <2>1
    <2> QED BY <2>2, <2>3, NoRoutes, PTL
  <1> QED BY <1>2, <1>3, <1>4, <1>5, <1>6 DEF FlowInv

\* A step of the importer that only moves on.
LEMMA ImportMovesOn ==
  ASSUME FlowInv, LogicalDone \/ RefuseNet \/ RefuseUnsupported, UNCHANGED exportVars
  PROVE  FlowInv'
  <1> USE DEF exportVars
  <1>1. /\ UNCHANGED <<input, lookup, masks, requests, csr, routes>>
        /\ phase \in {"logical", "nets"} /\ phase' \in {"nets", "refused", "unsupported"}
        /\ phase = "logical" <=> phase' = "nets"
    BY DEF LogicalDone, RefuseNet, RefuseUnsupported, Importing
  <1>2. /\ phase \notin OnDevice \cup {"open"} /\ phase' \notin OnDevice \cup {"open"}
        /\ phase \notin Routing /\ phase' \notin Routing
    BY <1>1 DEF OnDevice, Routing
  <1>3. Len(design) \in Nat /\ Len(logical) \in Nat
    BY <1>2, Sequences DEF FlowInv, FlowType
  <1>4. FlowType' /\ Taken' = Taken /\ Cells' = Cells
    <2> USE DEF FlowInv, FlowType, Taken, Cells, input, lookup, masks, graph
    <2>1. CASE LogicalDone
      <3>1. phase = "logical" /\ phase' = "nets" /\ next' = 1 /\ next = Len(logical) + 1
        BY <2>1, <1>3 DEF LogicalDone
      <3>2. Taken' = 1 .. 0 /\ Taken = 1 .. 0 /\ Cells' = 1 .. Len(logical) /\ Cells = 1 .. Len(logical)
        BY <3>1, <1>1, <1>3 DEF OnDevice
      <3>3. FlowType'
        BY <3>1, <1>1, <1>2, <1>3 DEF Names
      <3> QED BY <3>2, <3>3
    <2>2. CASE RefuseNet
      <3>1. phase = "nets" /\ phase' = "refused" /\ next' = next /\ next <= Len(design)
        BY <2>2 DEF RefuseNet, Importing
      <3>2. Taken' = 1 .. next - 1 /\ Taken = 1 .. next - 1 /\ Cells' = 1 .. Len(logical) /\ Cells = 1 .. Len(logical)
        BY <3>1, <1>1, <1>3 DEF OnDevice
      <3>3. FlowType'
        BY <3>1, <1>1, <1>2, <1>3 DEF Names
      <3> QED BY <3>2, <3>3
    <2>3. CASE RefuseUnsupported
      <3>1. phase = "nets" /\ phase' = "unsupported" /\ next' = next /\ next = Len(design) + 1
        BY <2>3, <1>3 DEF RefuseUnsupported
      <3>2. Taken' = 1 .. Len(design) /\ Taken = 1 .. Len(design) /\ Cells' = 1 .. Len(logical) /\ Cells = 1 .. Len(logical)
        BY <3>1, <1>1, <1>3 DEF OnDevice
      <3>3. FlowType'
        BY <3>1, <1>1, <1>2, <1>3 DEF Names
      <3> QED BY <3>2, <3>3
    <2> QED BY <2>1, <2>2, <2>3
  <1>5. Account'
    BY <1>1, <1>2, <1>4, AccountKept DEF FlowInv, Account
  <1>6. LookupInv'
    BY <1>1 DEF FlowInv, LookupInv, input, graph
  <1>7. RoutesInv'
    <2>1. (routes = <<>>)' /\ (Len(requests) \in Nat)'
      BY <1>1, <1>2 DEF FlowInv, FlowType, RequestsInv
    <2> QED BY <2>1, NoRoutes, PTL
  <1> QED BY <1>4, <1>5, <1>6, <1>7 DEF FlowInv, Account

LEMMA OpenStep ==
  ASSUME FlowInv, OpenDesign, UNCHANGED exportVars
  PROVE  FlowInv'
  <1> USE DEF exportVars, OpenDesign
  <1>1. /\ phase = "open" /\ phase' = "logical" /\ next' = 1 /\ next = 1
        /\ UNCHANGED <<graph, ambiguous, blocked, sinkStops, unavailable, requests, csr, routes>>
    BY DEF FlowInv, FlowType
  <1>2. phase' \notin OnDevice \cup {"open"} /\ phase' \notin Routing /\ phase \notin Routing
    BY <1>1 DEF OnDevice, Routing
  <1>3. FlowType'
    <2>1. logicalIndex' \in [Names -> Nat] /\ owner' \in [rows' -> Nat] /\ design' \in Designs /\ logical' \in LogicalDesigns
      BY <1>1 DEF graph
    <2>2. Len(logical') \in Nat
      BY <2>1, Sequences
    <2> QED BY <1>1, <1>2, <2>1, <2>2 DEF FlowInv, FlowType, Names
  <1>4. LookupInv'
    BY <1>1 DEF FlowInv, LookupInv, graph
  <1>5. LogicalInv'
    <2>1. Cells' = 1 .. 0
      BY <1>1 DEF Cells
    <2>2. ambiguous' = {}
      BY <1>1 DEF FlowInv, FlowType
    <2> QED BY <2>1, <2>2, <1>1 DEF LogicalInv, Names
  <1>6. MasksInv' /\ CompatibleInv' /\ RequestsInv'
    <2>1. (phase \in OnDevice \cup {"open", "logical"})'
      BY <1>1
    <2>2. (phase = "logical" => owner = [n \in rows |-> 0])'
      BY <1>1 DEF graph
    <2> QED BY <1>3, <2>1, <2>2, NothingTaken, PTL
  <1>7. RoutesInv'
    <2>1. (routes = <<>>)' /\ (Len(requests) \in Nat)'
      BY <1>1, <1>2 DEF FlowInv, FlowType, RequestsInv
    <2> QED BY <2>1, NoRoutes, PTL
  <1> QED BY <1>3, <1>4, <1>5, <1>6, <1>7 DEF FlowInv

\* One more cell is indexed.
LEMMA IndexStep ==
  ASSUME FlowInv, IndexLogicalNet, UNCHANGED exportVars
  PROVE  FlowInv'
  <1> USE DEF exportVars
  <1> DEFINE x == logical[next]
  <1>1. /\ UNCHANGED <<input, masks, requests, csr, routes, phase>>
        /\ phase = "logical" /\ next' = next + 1 /\ next \in 1 .. Len(logical)
    BY DEF IndexLogicalNet, FlowInv, FlowType
  <1>2. /\ phase \notin OnDevice \cup {"open"} /\ phase \notin Routing
        /\ logicalIndex \in [Names -> Nat] /\ logical \in LogicalDesigns
    BY <1>1 DEF OnDevice, Routing, FlowInv, FlowType
  <1>3. Len(logical) \in Nat /\ DOMAIN logical = 1 .. Len(logical)
    BY <1>2, Sequences
  <1>4. x \in Names
    <2>1. x \in Range(logical)
      BY <1>1, <1>3 DEF Range
    <2> QED BY <2>1, <1>2 DEF Names
  <1>5. /\ Cells = 1 .. next - 1 /\ Cells' = 1 .. next
        /\ next \in Nat \ {0}
    BY <1>1 DEF Cells, FlowInv, FlowType
  <1>6. \/ /\ x \in ambiguous /\ UNCHANGED lookup
        \/ /\ x \notin ambiguous /\ logicalIndex[x] = 0 /\ ambiguous' = ambiguous
           /\ logicalIndex' = [logicalIndex EXCEPT ![x] = next]
        \/ /\ x \notin ambiguous /\ logicalIndex[x] # 0 /\ ambiguous' = ambiguous \cup {x}
           /\ logicalIndex' = [logicalIndex EXCEPT ![x] = 0]
    BY DEF IndexLogicalNet, Indexable
  <1>7. LogicalInv'
    <2> SUFFICES ASSUME NEW y \in Names
                 PROVE  /\ y \in ambiguous' =>
                               \E i, j \in Cells' : i # j /\ logical[i] = y /\ logical[j] = y
                        /\ \A i \in Cells' : logical[i] = y => y \in ambiguous' \/ logicalIndex'[y] = i
                        /\ logicalIndex'[y] # 0 => y \notin ambiguous' /\ logicalIndex'[y] \in Cells'
                                                   /\ logical[logicalIndex'[y]] = y
      BY <1>1 DEF LogicalInv, Names, input
    <2> DEFINE L == logical  I == logicalIndex
    <2>1. /\ y \in ambiguous => \E i, j \in Cells : i # j /\ L[i] = y /\ L[j] = y
          /\ \A i \in Cells : L[i] = y => y \in ambiguous \/ I[y] = i
          /\ I[y] # 0 => y \notin ambiguous /\ I[y] \in Cells /\ L[I[y]] = y
      BY <1>2 DEF FlowInv, LogicalInv
    <2>2. Cells \subseteq Cells' /\ next \in Cells' /\ \A i \in Cells' : i \in Cells \/ i = next
      BY <1>5
    <2>3. \A i \in Cells : i # next /\ i # 0
      BY <1>5
    <2>4. CASE y # x
      <3>1. logicalIndex'[y] = I[y] /\ (y \in ambiguous' <=> y \in ambiguous)
        BY <1>6, <1>2, <2>4 DEF lookup
      <3> QED BY <2>1, <2>2, <2>4, <3>1
    <2>5. CASE y = x
      <3>1. CASE x \in ambiguous /\ UNCHANGED lookup
        BY <2>1, <2>2, <2>5, <3>1 DEF lookup
      <3>2. CASE x \notin ambiguous /\ logicalIndex[x] = 0 /\ ambiguous' = ambiguous
                 /\ logicalIndex' = [logicalIndex EXCEPT ![x] = next]
        <4>1. logicalIndex'[y] = next
          BY <1>2, <2>5, <3>2
        <4>2. \A i \in Cells : L[i] # y
          BY <2>1, <2>3, <2>5, <3>2
        <4> QED BY <2>2, <2>5, <3>2, <4>1, <4>2
      <3>3. CASE x \notin ambiguous /\ logicalIndex[x] # 0 /\ ambiguous' = ambiguous \cup {x}
                 /\ logicalIndex' = [logicalIndex EXCEPT ![x] = 0]
        <4>1. logicalIndex'[y] = 0 /\ y \in ambiguous'
          BY <1>2, <2>5, <3>3
        <4>2. I[y] \in Cells /\ L[I[y]] = y /\ L[next] = y /\ I[y] # next
          BY <2>1, <2>3, <2>5, <3>3
        <4> QED BY <2>2, <4>1, <4>2
      <3> QED BY <1>6, <3>1, <3>2, <3>3
    <2> QED BY <2>4, <2>5
  <1>8. FlowType'
    <2>1. logicalIndex' \in [Names -> Nat]
      BY <1>2, <1>4, <1>5, <1>6 DEF lookup
    <2>2. next' \in Nat \ {0} /\ next' <= Len(logical) + 1
      BY <1>1, <1>3, <1>5
    <2> QED BY <1>1, <1>2, <2>1, <2>2 DEF FlowInv, FlowType, Names, input, masks, graph, OnDevice, Routing
  <1>9. MasksInv' /\ CompatibleInv' /\ RequestsInv'
    <2>1. (phase \in OnDevice \cup {"open", "logical"})'
      BY <1>1
    <2>2. owner = [n \in rows |-> 0]
      <3>1. Taken = {}
        <4>1. Taken = 1 .. 0
          BY <1>1 DEF Taken
        <4> QED BY <4>1
      <3>2. \A n \in rows : owner[n] = 0
        BY <1>2, <3>1 DEF FlowInv, MasksInv
      <3> QED BY <1>2, <3>2 DEF FlowInv, FlowType
    <2>3. (phase = "logical" => owner = [n \in rows |-> 0])'
      BY <1>1, <2>2 DEF masks, input, graph
    <2> QED BY <1>8, <2>1, <2>3, NothingTaken, PTL
  <1>10. RoutesInv'
    <2>1. (routes = <<>>)' /\ (Len(requests) \in Nat)'
      BY <1>1, <1>2 DEF FlowInv, FlowType, RequestsInv
    <2> QED BY <2>1, NoRoutes, PTL
  <1>11. LookupInv'
    BY <1>1 DEF FlowInv, LookupInv, input, graph
  <1> QED BY <1>7, <1>8, <1>9, <1>10, <1>11 DEF FlowInv

-----------------------------------------------------------------------------
(* One more net is taken. *)

\* What a step that takes a net leaves alone.
TakesNet ==
    /\ Importing /\ ~DuplicateName
    /\ next' = next + 1
    /\ UNCHANGED <<input, phase, lookup, csr, routes>>

LEMMA TakenGrows ==
  ASSUME FlowInv, TakesNet
  PROVE  /\ phase = "nets" /\ phase' = "nets" /\ phase \notin Routing
         /\ phase \notin OnDevice \cup {"open"} /\ phase' \notin OnDevice \cup {"open"}
         /\ Cells' = Cells
         /\ Taken' = Taken \cup {next} /\ next \notin Taken
         /\ \A i \in Taken : i < next /\ i # 0 /\ ~ (next < i)
         /\ next # 0 /\ next \in Nat /\ ~ (next < next)
         /\ next' \in Nat \ {0} /\ next' <= Len(design) + 1
         /\ \A i \in Taken : design[i].name # Net.name
  <1> USE DEF TakesNet
  <1>1. /\ phase = "nets" /\ phase' = "nets" /\ next \in Nat \ {0} /\ next <= Len(design)
        /\ design' = design /\ logical' = logical
    BY DEF Importing, FlowInv, FlowType, input
  <1>2. Len(design) \in Nat
    BY <1>1, Sequences DEF FlowInv, FlowType, OnDevice
  <1>3. Taken = 1 .. next - 1 /\ Taken' = 1 .. next' - 1 /\ next' = next + 1
    BY <1>1 DEF Taken, OnDevice
  <1>4. Cells' = Cells
    BY <1>1 DEF Cells
  <1>5. phase \notin Routing /\ phase \notin OnDevice \cup {"open"} /\ phase' \notin OnDevice \cup {"open"}
    BY <1>1 DEF OnDevice, Routing
  <1>6. \A i \in Taken : design[i].name # Net.name
    BY <1>3 DEF DuplicateName
  <1> QED BY <1>1, <1>2, <1>3, <1>4, <1>5, <1>6

\* The parts the masks have nothing to do with.
LEMMA TakesNetRest ==
  ASSUME FlowInv, TakesNet, owner' \in [rows -> Nat],
         requests' \in Seq(Range(requests'))
  PROVE  FlowType' /\ LookupInv' /\ LogicalInv' /\ RoutesInv'
  <1> USE TakenGrows DEF TakesNet
  <1>1. FlowType'
    <2>1. phase' \notin {"unsupported", "logical", "refused"} \cup OnDevice \cup Routing
      BY DEF OnDevice, Routing
    <2> QED BY <2>1 DEF FlowInv, FlowType, input, graph, lookup, Names
  <1>2. LookupInv'
    BY DEF FlowInv, LookupInv, input, graph
  <1>3. LogicalInv'
    BY DEF FlowInv, LogicalInv, input, lookup, Names
  <1>4. RoutesInv'
    <2>1. (routes = <<>>)' /\ (Len(requests) \in Nat)'
      BY DEF FlowInv, FlowType
    <2> QED BY <2>1, NoRoutes, PTL
  <1> QED BY <1>1, <1>2, <1>3, <1>4

LEMMA PreserveStep ==
  ASSUME FlowInv, PreserveNet, UNCHANGED exportVars
  PROVE  FlowInv'
  <1> USE DEF exportVars
  <1>1. /\ TakesNet /\ UNCHANGED <<owner, sinkStops, unavailable, requests>>
        /\ ~IsRouted(Net) /\ CanPreserve /\ blocked' = blocked \cup FixedNodes(Net)
    BY DEF PreserveNet, TakesNet, IsRouted
  <1> USE TakenGrows DEF Net
  <1>2. UNCHANGED <<graph, design>>
    BY <1>1 DEF TakesNet, input
  <1>3. \A n \in FixedNodes(Net) : n \in rows /\ owner[n] = 0
    BY <1>1, NodesAreRows DEF CanPreserve, Unowned, FlowInv
  <1>4. MasksInv'
    <2> USE <1>1, <1>2, SameClashes
    <2>1. ~Owns(next, 0) /\ \A n : ~Owns(next, n) /\ ~Stops(next, n)
                                   /\ (Reserves(next, n) <=> n \in FixedNodes(Net))
      BY DEF Owns, Stops, Reserves
    <2>2. \A n \in rows : /\ owner[n] \in Taken' \cup {0}
                          /\ \A i \in Taken' : owner[n] = i <=> Owns(i, n)
      BY <2>1 DEF FlowInv, MasksInv
    <2>3. \A n \in blocked' : \E i \in Taken' : Reserves(i, n)
      BY <2>1 DEF FlowInv, MasksInv
    <2>4. \A i \in Taken' : \A n : /\ Reserves(i, n) => n \in blocked'
                                   /\ Stops(i, n) => n \in sinkStops
      BY <2>1 DEF FlowInv, MasksInv
    <2>5. \A i \in Taken' : IsRouted(design[i]) => NodesOf(SourcesOf(design[i])) \subseteq unavailable
      BY DEF FlowInv, MasksInv
    <2>6. phase' \notin Routing /\ rows' = rows
      BY DEF graph
    <2>7. \A i : NodesOf(SourcesOf(design[i]))' = NodesOf(SourcesOf(design[i]))
                /\ (IsRouted(design[i])' <=> IsRouted(design[i]))
      BY SameNets
    <2>8. \A n \in rows' : /\ owner'[n] \in Taken' \cup {0}
                           /\ \A i \in Taken' : owner'[n] = i <=> Owns(i, n)'
      BY <2>2, <2>6
    <2> QED BY <2>3, <2>4, <2>5, <2>6, <2>7, <2>8 DEF MasksInv
  <1>5. CompatibleInv'
    <2>1. ASSUME NEW i \in Taken  PROVE ~Clash(design[i], design[next])
      <3>1. ASSUME IsRouted(design[i]), NEW n \in Ends(design[i]), n \in FixedNodes(Net)  PROVE FALSE
        <4>1. Owns(i, n)
          BY <3>1 DEF Owns
        <4>2. n \in rows /\ owner[n] = 0 /\ i # 0
          BY <1>1, <1>3, <3>1
        <4> QED BY <1>1, <4>1, <4>2 DEF FlowInv, MasksInv
      <3> QED BY <1>1, <3>1 DEF Clash
    <2>2. ~OffDevice(design[next]) /\ ~SharedSinkWithoutSource(design[next])
      BY <1>1 DEF CanPreserve, OffDevice, SharedSinkWithoutSource
    <2>3. \A i, j \in Taken' : i < j => ~Clash(design[i], design[j])
      BY <1>1, <2>1 DEF FlowInv, CompatibleInv
    <2>4. \A i \in Taken' : ~OffDevice(design[i]) /\ ~SharedSinkWithoutSource(design[i])
      BY <1>1, <2>2 DEF FlowInv, CompatibleInv
    <2> QED BY <1>2, <2>3, <2>4, SameClashes DEF CompatibleInv
  <1>6. RequestsInv'
    <2>1. \A i : RequestOf(i)' = RequestOf(i)
      BY <1>1, <1>2, SameNets DEF RequestOf, TakesNet, lookup
    <2>2. {RequestOf(i) : i \in {k \in Taken : IsRouted(design[k])}}
            \subseteq {RequestOf(i) : i \in {k \in Taken' : IsRouted(design[k])}}
      BY <1>1
    <2>3. requests \in Seq({RequestOf(i) : i \in {k \in Taken' : IsRouted(design[k])}})
      BY <2>2 DEF FlowInv, RequestsInv
    <2>4. {RequestOf(i) : i \in {k \in Taken' : IsRouted(design[k])}}
            = {RequestOf(i) : i \in {k \in Taken : IsRouted(design[k])}}'
      BY <2>1, <1>2, SameNets
    <2> QED BY <1>1, <2>3, <2>4 DEF FlowInv, RequestsInv
  <1>7. FlowType' /\ LookupInv' /\ LogicalInv' /\ RoutesInv'
    <2>1. owner' \in [rows -> Nat] /\ requests' \in Seq(Range(requests'))
      BY <1>1 DEF FlowInv, FlowType, RequestsInv, Range
    <2> QED BY <1>1, <2>1, TakesNetRest
  <1> QED BY <1>4, <1>5, <1>6, <1>7 DEF FlowInv

LEMMA AddStep ==
  ASSUME FlowInv, AddRequest, UNCHANGED exportVars
  PROVE  FlowInv'
  <1> USE DEF exportVars
  <1> DEFINE S == SourceNodes  T == SinkNodes
  <1>1. /\ TakesNet /\ IsRouted(Net) /\ CanRequest
        /\ owner' = [n \in rows |-> IF n \in S \cup T THEN next ELSE owner[n]]
        /\ unavailable' = unavailable \cup S
        /\ S # {} => sinkStops' = sinkStops \cup (T \ S) /\ blocked' = blocked
        /\ S = {} => blocked' = blocked \cup T /\ sinkStops' = sinkStops
        /\ requests' = Append(requests, RequestOf(next))
    BY DEF AddRequest, TakesNet, IsRouted, NewStops, RequestOf, Net
  <1> USE TakenGrows DEF Net
  <1>2. UNCHANGED <<graph, design>>
    BY <1>1 DEF TakesNet, input
  <1>3. /\ S = NodesOf(SourcesOf(design[next])) /\ T = NodesOf(SinksOf(design[next]))
        /\ Ends(design[next]) = S \cup T /\ S \subseteq rows /\ T \subseteq rows
    BY NodesAreRows DEF SourceNodes, SinkNodes, Ends, FlowInv
  <1> HIDE DEF S, T
  <1>4. \A n \in S \cup T : n \in rows /\ n \notin blocked /\ owner[n] = 0
    <2>1. \A n \in S \cup T : n \notin blocked /\ owner[n] \in {0, next}
      BY <1>1 DEF CanRequest, Claimable, S, T
    <2>2. \A n \in rows : owner[n] \in Taken \cup {0}
      BY <1>1 DEF FlowInv, MasksInv
    <2> QED BY <1>1, <1>3, <2>1, <2>2
  <1>5. ASSUME NEW i \in Taken, NEW n \in S \cup T  PROVE ~Owns(i, n) /\ ~Reserves(i, n)
    BY <1>1, <1>4 DEF FlowInv, MasksInv
  <1>6. MasksInv'
    <2>1. \A n : /\ Owns(next, n) <=> n \in S \cup T
                 /\ Reserves(next, n) <=> S = {} /\ n \in T
                 /\ Stops(next, n) <=> S # {} /\ n \in T \ S
      BY <1>1, <1>3 DEF Owns, Reserves, Stops
    <2>2. \A n \in rows : /\ owner'[n] \in Taken' \cup {0}
                          /\ \A i \in Taken' : owner'[n] = i <=> Owns(i, n)
      <3> TAKE n \in rows
      <3>1. CASE n \in S \cup T
        BY <1>1, <1>5, <2>1, <3>1
      <3>2. CASE n \notin S \cup T
        <4>1. owner'[n] = owner[n] /\ ~Owns(next, n)
          BY <1>1, <2>1, <3>2
        <4>2. owner[n] \in Taken \cup {0} /\ \A i \in Taken : owner[n] = i <=> Owns(i, n)
          BY <1>1 DEF FlowInv, MasksInv
        <4> QED BY <1>1, <4>1, <4>2
      <3> QED BY <3>1, <3>2
    <2>3. \A n \in blocked' : \E i \in Taken' : Reserves(i, n)
      BY <1>1, <2>1 DEF FlowInv, MasksInv
    <2>4. \A i \in Taken' : \A n : /\ Reserves(i, n) => n \in blocked'
                                   /\ Stops(i, n) => n \in sinkStops'
      BY <1>1, <2>1 DEF FlowInv, MasksInv
    <2>5. \A i \in Taken' : IsRouted(design[i]) => NodesOf(SourcesOf(design[i])) \subseteq unavailable'
      BY <1>1, <1>3 DEF FlowInv, MasksInv
    <2>6. phase' \notin Routing /\ rows' = rows
      BY <1>1, <1>2 DEF graph
    <2>7. \A i : NodesOf(SourcesOf(design[i]))' = NodesOf(SourcesOf(design[i]))
                /\ (IsRouted(design[i])' <=> IsRouted(design[i]))
      BY <1>2, SameNets
    <2>8. \A n \in rows' : /\ owner'[n] \in Taken' \cup {0}
                           /\ \A i \in Taken' : owner'[n] = i <=> Owns(i, n)'
      BY <1>2, <2>2, <2>6, SameClashes
    <2> QED BY <1>2, <2>3, <2>4, <2>5, <2>6, <2>7, <2>8, SameClashes DEF MasksInv
  <1>7. CompatibleInv'
    <2>1. ASSUME NEW i \in Taken  PROVE ~Clash(design[i], design[next])
      <3>1. IsRouted(design[i]) => Ends(design[i]) \cap Ends(design[next]) = {}
        BY <1>3, <1>5 DEF Owns
      <3>2. ~IsRouted(design[i]) => Ends(design[next]) \cap FixedNodes(design[i]) = {}
        BY <1>3, <1>5 DEF Reserves
      <3> QED BY <1>1, <3>1, <3>2 DEF Clash
    <2>2. ~OffDevice(design[next])
      BY <1>1 DEF CanRequest, OffDevice
    <2>3. ~SharedSinkWithoutSource(design[next])
      <3>1. ASSUME S = {}, NEW i \in 1 .. Len(design[next].stubs), NEW j \in 1 .. Len(design[next].stubs), i # j
            PROVE  SinksOf(design[next])[i].node # SinksOf(design[next])[j].node
                   \/ SinksOf(design[next])[i].node = NoNode
        <4>1. ~ClaimedTwice /\ SourceNodes = {}
          BY <1>1, <3>1 DEF CanRequest, S
        <4>2. i < j \/ j < i
          BY <3>1
        <4> QED BY <4>1, <4>2 DEF ClaimedTwice
      <3> QED BY <1>3, <3>1 DEF SharedSinkWithoutSource
    <2>4. \A i, j \in Taken' : i < j => ~Clash(design[i], design[j])
      BY <1>1, <2>1 DEF FlowInv, CompatibleInv
    <2>5. \A i \in Taken' : ~OffDevice(design[i]) /\ ~SharedSinkWithoutSource(design[i])
      BY <1>1, <2>2, <2>3 DEF FlowInv, CompatibleInv
    <2> QED BY <1>2, <2>4, <2>5, SameClashes DEF CompatibleInv
  <1>8. RequestsInv'
    <2> DEFINE Old == {RequestOf(i) : i \in {k \in Taken : IsRouted(design[k])}}
               New == {RequestOf(i) : i \in {k \in Taken' : IsRouted(design[k])}}
    <2>1. \A i : RequestOf(i)' = RequestOf(i)
      BY <1>1, <1>2, SameNets DEF RequestOf, TakesNet, lookup
    <2>2. Old \subseteq New /\ RequestOf(next) \in New
      BY <1>1
    <2>3. New = {RequestOf(i) : i \in {k \in Taken : IsRouted(design[k])}}'
      BY <2>1, <1>2, SameNets
    <2>4. requests \in Seq(Old)
      BY DEF FlowInv, RequestsInv
    <2>5. \A r \in Old : r.net # RequestOf(next).net
      BY <1>1 DEF RequestOf
    <2> HIDE DEF Old, New
    <2>6. requests' \in Seq(New)
      <3>1. requests \in Seq(New)
        BY <2>2, <2>4
      <3> QED BY <1>1, <2>2, <3>1
    <2>7. ASSUME NEW i \in 1 .. Len(requests'), NEW j \in 1 .. Len(requests'), requests'[i].net = requests'[j].net
          PROVE  i = j
      <3>1. /\ Len(requests') = Len(requests) + 1 /\ Len(requests) \in Nat
            /\ requests'[Len(requests) + 1] = RequestOf(next)
            /\ \A k \in 1 .. Len(requests) : requests'[k] = requests[k] /\ requests[k] \in Old
        BY <1>1, <2>4
      <3>2. \A k, l \in 1 .. Len(requests) : requests[k].net = requests[l].net => k = l
        BY DEF FlowInv, RequestsInv
      <3>3. i \in 1 .. Len(requests) \/ i = Len(requests) + 1
        BY <3>1
      <3>4. j \in 1 .. Len(requests) \/ j = Len(requests) + 1
        BY <3>1
      <3> QED BY <2>5, <2>7, <3>1, <3>2, <3>3, <3>4
    <2> QED BY <2>3, <2>6, <2>7 DEF RequestsInv
  <1>9. FlowType' /\ LookupInv' /\ LogicalInv' /\ RoutesInv'
    <2>1. owner' \in [rows -> Nat]
      BY <1>1 DEF FlowInv, FlowType
    <2>2. requests' \in Seq(Range(requests'))
      BY <1>8 DEF RequestsInv, Range
    <2> QED BY <1>1, <2>1, <2>2, TakesNetRest
  <1> QED BY <1>6, <1>7, <1>8, <1>9 DEF FlowInv

-----------------------------------------------------------------------------
(* The graph is filtered, routes are written and exported. *)

LEMMA FilterStep ==
  ASSUME FlowInv, MakeCsr, UNCHANGED exportVars
  PROVE  FlowInv'
  <1> USE DEF exportVars
  <1>1. /\ phase = "nets" /\ phase' = "route" /\ next' = next /\ next = Len(design) + 1
        /\ UNCHANGED <<input, lookup, owner, blocked, sinkStops, requests, routes>>
        /\ unavailable' = unavailable \cup blocked /\ csr' = Filtered(unavailable')
    <2>1. Len(design) \in Nat
      BY Sequences DEF FlowInv, FlowType, OnDevice, MakeCsr
    <2> QED BY <2>1 DEF MakeCsr, FlowInv, FlowType
  <1>2. /\ phase \notin OnDevice \cup {"open", "logical"} /\ phase' \in Routing
        /\ phase' \notin OnDevice \cup {"open", "logical", "nets", "refused", "unsupported"}
        /\ phase \notin Routing
    BY <1>1 DEF OnDevice, Routing
  <1>3. UNCHANGED <<graph, design>> /\ rows' = rows
    BY <1>1 DEF input, graph
  <1>4. Taken' = Taken /\ Cells' = Cells
    <2>1. Taken = 1 .. Len(design) /\ Taken' = 1 .. Len(design)
      <3>1. Len(design) \in Nat
        BY <1>2, Sequences DEF FlowInv, FlowType
      <3> QED BY <1>1, <1>2, <1>3, <3>1 DEF Taken
    <2>2. Cells' = Cells
      BY <1>1, <1>2 DEF Cells, input
    <2> QED BY <2>1, <2>2
  <1>5. FlowType'
    BY <1>1, <1>2, <1>3 DEF FlowInv, FlowType, Names, input, lookup
  <1>6. LookupInv'
    BY <1>3 DEF FlowInv, LookupInv, graph
  <1>7. LogicalInv'
    BY <1>1, <1>2, <1>4 DEF FlowInv, LogicalInv, Names, input, lookup
  <1>8. MasksInv'
    <2>1. csr' = Filtered(unavailable)'
      BY <1>1, <1>3 DEF Filtered, graph
    <2>2. /\ \A n \in rows : /\ owner[n] \in Taken \cup {0}
                             /\ \A i \in Taken : owner[n] = i <=> Owns(i, n)
          /\ \A n \in blocked : \E i \in Taken : Reserves(i, n)
          /\ \A i \in Taken : \A n : /\ Reserves(i, n) => n \in blocked
                                     /\ Stops(i, n) => n \in sinkStops
          /\ \A i \in Taken : IsRouted(design[i]) => NodesOf(SourcesOf(design[i])) \subseteq unavailable
      BY <1>2 DEF FlowInv, MasksInv
    <2>3. \A i : NodesOf(SourcesOf(design[i]))' = NodesOf(SourcesOf(design[i]))
                /\ (IsRouted(design[i])' <=> IsRouted(design[i]))
      BY <1>3, SameNets
    <2> QED BY <1>1, <1>2, <1>3, <1>4, <2>1, <2>2, <2>3, SameClashes DEF MasksInv
  <1>9. CompatibleInv'
    BY <1>3, <1>4, SameClashes DEF FlowInv, CompatibleInv
  <1>10. RequestsInv'
    <2>1. \A i : RequestOf(i)' = RequestOf(i)
      BY <1>1, <1>3, SameNets DEF RequestOf, lookup
    <2> QED BY <1>1, <1>3, <1>4, <2>1, SameNets DEF FlowInv, RequestsInv
  <1>11. RoutesInv'
    <2>1. (routes = <<>>)' /\ (Len(requests) \in Nat)'
      BY <1>1, <1>2 DEF FlowInv, FlowType, RequestsInv
    <2> QED BY <2>1, NoRoutes, PTL
  <1> QED BY <1>5, <1>6, <1>7, <1>8, <1>9, <1>10, <1>11 DEF FlowInv

\* From here on only routes are added.
LEMMA LaterTypes ==
  ASSUME FlowInv, phase \in Routing, phase' \in Routing, next' \in Nat \ {0},
         UNCHANGED <<input, lookup, masks, requests, csr>>
  PROVE  FlowType' /\ LookupInv' /\ Account'
  <1>1. /\ phase' \notin OnDevice \cup {"open", "logical", "nets", "refused", "unsupported"}
        /\ phase \notin OnDevice \cup {"open", "logical", "nets", "refused", "unsupported"}
    BY DEF OnDevice, Routing
  <1>2. Taken' = Taken /\ Cells' = Cells
    BY <1>1 DEF Taken, Cells, input
  <1>3. FlowType'
    BY <1>1 DEF FlowInv, FlowType, Names, input, lookup, masks, graph
  <1>4. LookupInv'
    BY DEF FlowInv, LookupInv, input, graph
  <1>5. Account'
    BY <1>1, <1>2, AccountKept DEF FlowInv, Account
  <1> QED BY <1>3, <1>4, <1>5

LEMMA SameOutcomes == ASSUME csr' = csr, NEW q PROVE Outcomes(q)' = Outcomes(q)
  BY DEF Outcomes

LEMMA RouteStep ==
  ASSUME FlowInv, RouteRequest
  PROVE  FlowInv'
  <1>1. /\ phase = "route" /\ phase' = "route" /\ next' = next
        /\ UNCHANGED <<input, lookup, masks, requests, csr>>
        /\ Len(routes) < Len(requests)
    BY DEF RouteRequest, importVars
  <1>2. FlowType' /\ LookupInv' /\ Account'
    BY <1>1, LaterTypes DEF Routing, FlowInv, FlowType
  <1>3. RoutesInv'
    <2> DEFINE Lines == UNION {Outcomes(q) : q \in Range(requests)}
    <2>1. routes \in Seq(Lines) /\ Len(requests) \in Nat /\ DOMAIN requests = 1 .. Len(requests)
      BY DEF FlowInv, RoutesInv, RequestsInv
    <2>2. PICK r \in Outcomes(requests[Len(routes) + 1]) : routes' = Append(routes, r)
      BY DEF RouteRequest
    <2>3. requests[Len(routes) + 1] \in Range(requests)
      BY <1>1, <2>1 DEF Range
    <2>4. r \in Lines
      BY <2>2, <2>3
    <2>5. Lines' = Lines
      BY <1>1, SameOutcomes
    <2> HIDE DEF Lines
    <2>6. routes' \in Seq(Lines) /\ Len(routes') = Len(routes) + 1 /\ Len(routes) \in Nat
      BY <2>1, <2>2, <2>4
    <2>7. routes' \in Seq(Lines') /\ Len(routes') <= Len(requests')
      BY <1>1, <2>1, <2>5, <2>6
    <2> QED BY <2>7 DEF RoutesInv, Lines
  <1> QED BY <1>2, <1>3 DEF FlowInv, Account

LEMMA LaterStep ==
  ASSUME FlowInv, WriteRoutes \/ RefuseRoutes \/ Export
  PROVE  FlowInv'
  <1>1. /\ phase \in Routing /\ phase' \in Routing
        /\ UNCHANGED <<input, lookup, masks, requests, csr, routes>>
        /\ next' \in {1, next, next + 1}
    BY DEF WriteRoutes, RefuseRoutes, Export, LoadRoutes, KeepNet, RebuildNet, RefuseExport, FinishExport,
           Exporting, Routing, exportVars
  <1>2. FlowType' /\ LookupInv' /\ Account'
    BY <1>1, LaterTypes DEF FlowInv, FlowType
  <1>3. RoutesInv'
    BY <1>1, SameOutcomes DEF FlowInv, RoutesInv
  <1> QED BY <1>2, <1>3 DEF FlowInv, Account

LEMMA FlowStep == FlowInv /\ [Next]_vars => FlowInv'
  <1> SUFFICES ASSUME FlowInv, [Next]_vars  PROVE FlowInv'
    OBVIOUS
  <1>1. CASE ImportDevice /\ UNCHANGED <<design, logical, lookup, masks, requests, csr, exportVars>>
    BY <1>1, DeviceStep DEF design_untouched
  <1>2. CASE Import /\ UNCHANGED exportVars
    BY <1>2, OpenStep, IndexStep, ImportMovesOn, PreserveStep, AddStep, FilterStep DEF Import
  <1>3. CASE RouteRequest
    BY <1>3, RouteStep
  <1>4. CASE WriteRoutes \/ RefuseRoutes \/ Export
    BY <1>4, LaterStep
  <1>5. CASE UNCHANGED vars
    <2>1. UNCHANGED <<input, lookup, masks, requests, csr, routes, next, phase>>
      BY <1>5 DEF vars, importVars, exportVars
    <2>2. Taken' = Taken /\ Cells' = Cells
      BY <2>1 DEF Taken, Cells, input
    <2>3. Account'
      BY <2>1, <2>2, AccountKept DEF FlowInv, Account
    <2>4. FlowType'
      BY <2>1 DEF FlowInv, FlowType, Names, input, lookup, masks, graph
    <2>5. LookupInv'
      BY <2>1 DEF FlowInv, LookupInv, input, graph
    <2>6. RoutesInv'
      BY <2>1, SameOutcomes DEF FlowInv, RoutesInv
    <2> QED BY <2>3, <2>4, <2>5, <2>6 DEF FlowInv, Account
  <1> QED BY <1>1, <1>2, <1>3, <1>4, <1>5 DEF Next

LEMMA FlowInit == Init => FlowInv
  <1> SUFFICES ASSUME Init  PROVE FlowInv
    OBVIOUS
  <1>1. /\ phase = "deviceNodes" /\ next = 1 /\ rows = {} /\ tileWires = {} /\ sitePins = {}
        /\ requests = <<>> /\ routes = <<>> /\ csr = {} /\ ambiguous = {}
        /\ blocked = {} /\ sinkStops = {} /\ unavailable = {}
    BY DEF Init, DeviceInit, ImportInit
  <1>2. phase \in OnDevice \cup {"open", "logical"} /\ phase \notin Routing
    BY <1>1 DEF OnDevice, Routing
  <1>3. FlowType
    BY <1>1, <1>2 DEF FlowType, OnDevice
  <1>4. MasksInv /\ CompatibleInv /\ RequestsInv
    BY <1>1, <1>2, <1>3, NothingTaken
  <1>5. RoutesInv
    BY <1>1, NoRoutes
  <1> QED BY <1>1, <1>3, <1>4, <1>5 DEF FlowInv, LookupInv, LogicalInv, OnDevice

\* The masks, the requests and the routes are always what the nets taken so far
\* make of them, from the first net on to the last file.
THEOREM FlowInvariant == Spec => []FlowInv
  BY FlowInit, FlowStep, PTL DEF Spec

-----------------------------------------------------------------------------
(* What follows. *)

\* The routed net a request is made of.
LEMMA RequestsOfNets ==
  ASSUME FlowInv, NEW i \in 1 .. Len(requests)
  PROVE  \E k \in Taken : IsRouted(design[k]) /\ requests[i] = RequestOf(k)
  <1>1. requests[i] \in {RequestOf(k) : k \in {l \in Taken : IsRouted(design[l])}}
    BY DEF FlowInv, RequestsInv
  <1> QED BY <1>1

\* A request names the one cell that has a net of its name, if there is one.
THEOREM LogicalNetsAreUnambiguous == Spec => []LogicalUnambiguous
  <1>1. FlowInv => LogicalUnambiguous
    <2> SUFFICES ASSUME FlowInv, NEW q \in Range(requests)
                 PROVE  LET cells == {i \in 1 .. Len(logical) : logical[i] = q.net}
                        IN  q.logical = (IF Cardinality(cells) = 1 THEN CHOOSE i \in cells : TRUE ELSE 0)
      BY DEF LogicalUnambiguous
    <2> DEFINE cells == {i \in 1 .. Len(logical) : logical[i] = q.net}
    <2>1. PICK k \in Taken : IsRouted(design[k]) /\ q = RequestOf(k)
      <3>1. PICK i \in 1 .. Len(requests) : q = requests[i]
        BY DEF FlowInv, RequestsInv, Range
      <3> QED BY <3>1, RequestsOfNets
    <2>2. /\ phase \notin OnDevice \cup {"open", "logical"}
          /\ design \in Designs /\ logical \in LogicalDesigns /\ k \in DOMAIN design
      <3>1. phase \notin OnDevice \cup {"open", "logical"}
        BY <2>1 DEF Taken
      <3>2. design \in Designs /\ logical \in LogicalDesigns
        BY <3>1 DEF FlowInv, FlowType
      <3>3. Taken \subseteq 1 .. Len(design)
        BY <3>1, <3>2, Sequences DEF Taken, FlowInv, FlowType
      <3> QED BY <2>1, <3>1, <3>2, <3>3, Sequences
    <2>3. q.net \in Names /\ q.net = design[k].name /\ q.logical = logicalIndex[q.net]
      <3>1. design[k] \in Range(design)
        BY <2>2 DEF Range
      <3> QED BY <2>1, <2>2, <3>1 DEF RequestOf, Names
    <2>4. Cells = 1 .. Len(logical) /\ Len(logical) \in Nat
      BY <2>2, Sequences DEF Cells
    <2>5. /\ q.net \in ambiguous => \E i, j \in cells : i # j
          /\ \A i \in cells : q.net \in ambiguous \/ q.logical = i
          /\ q.logical # 0 => q.net \notin ambiguous /\ q.logical \in cells
      BY <2>2, <2>3, <2>4 DEF FlowInv, LogicalInv
    <2>6. IsFiniteSet(cells)
      <3>1. IsFiniteSet(1 .. Len(logical))
        BY <2>4, FS_Interval
      <3> QED BY <3>1, FS_Subset
    <2>7. Cardinality(cells) = 1 <=> \E i : cells = {i}
      BY <2>6, FS_Singleton
    <2> HIDE DEF cells
    <2>8. CASE q.logical = 0
      <3>1. ~ \E i : cells = {i}
        <4> SUFFICES ASSUME NEW i, cells = {i}  PROVE FALSE
          OBVIOUS
        <4>1. q.net \in ambiguous \/ i = 0
          BY <2>5, <2>8
        <4>2. i # 0
          BY DEF cells
        <4> QED BY <2>5, <4>1, <4>2
      <3> QED BY <2>7, <2>8, <3>1 DEF cells
    <2>9. CASE q.logical # 0
      <3>1. cells = {q.logical}
        BY <2>5, <2>9
      <3> QED BY <2>7, <3>1 DEF cells
    <2> QED BY <2>8, <2>9
  <1> QED BY <1>1, FlowInvariant, PTL

\* Once all nets are taken, none that is to be routed meets another net.
LEMMA RoutedApart ==
  ASSUME FlowInv, NEW k \in Taken, NEW l \in Taken, k # l, IsRouted(design[k]), IsRouted(design[l])
  PROVE  Ends(design[k]) \cap Ends(design[l]) = {}
  <1>1. k < l \/ l < k
    BY DEF Taken
  <1>2. ~Clash(design[k], design[l]) \/ ~Clash(design[l], design[k])
    BY <1>1 DEF FlowInv, CompatibleInv
  <1> QED BY <1>2 DEF Clash

LEMMA AllTaken ==
  ASSUME FlowInv, phase \in Routing
  PROVE  Taken = 1 .. Len(design) /\ Taken = DOMAIN design
  <1>1. phase \notin OnDevice \cup {"open", "logical", "nets", "refused"}
    BY DEF OnDevice, Routing
  <1>2. Taken = 1 .. Len(design)
    BY <1>1 DEF Taken
  <1>3. design \in Designs
    BY <1>1 DEF FlowInv, FlowType
  <1> QED BY <1>2, <1>3, Sequences

LEMMA PreservedApart ==
  ASSUME FlowInv, phase \in Routing, NEW k \in Taken, IsRouted(design[k]),
         NEW net \in Range(design), ~IsRouted(net)
  PROVE  Ends(design[k]) \cap FixedNodes(net) = {}
  <1>1. PICK l \in Taken : net = design[l]
    BY AllTaken DEF Range
  <1>2. k < l \/ l < k
    BY <1>1 DEF Taken
  <1>3. ~Clash(design[k], design[l]) \/ ~Clash(design[l], design[k])
    BY <1>1, <1>2 DEF FlowInv, CompatibleInv
  <1> QED BY <1>1, <1>3 DEF Clash

\* The edges left do not enter a source, do not leave a sink, and do not touch what
\* a preserved net uses.
LEMMA CsrAvoids ==
  ASSUME FlowInv, phase \in Routing, NEW e \in csr, NEW k \in Taken
  PROVE  /\ IsRouted(design[k]) =>
                /\ e.to \notin NodesOf(SourcesOf(design[k]))
                /\ e.from \in Ends(design[k]) => e.from \in NodesOf(SourcesOf(design[k]))
         /\ ~IsRouted(design[k]) => e.from \notin FixedNodes(design[k]) /\ e.to \notin FixedNodes(design[k])
  <1>1. e.from \notin blocked \cup sinkStops /\ e.to \notin unavailable /\ blocked \subseteq unavailable
    BY DEF FlowInv, MasksInv, Filtered
  <1>2. \A n : /\ Reserves(k, n) => n \in blocked
               /\ Stops(k, n) => n \in sinkStops
    BY DEF FlowInv, MasksInv
  <1>3. IsRouted(design[k]) => NodesOf(SourcesOf(design[k])) \subseteq unavailable
    BY DEF FlowInv, MasksInv
  <1>4. CASE IsRouted(design[k])
    <2>1. ASSUME e.from \in NodesOf(SinksOf(design[k])), e.from \notin NodesOf(SourcesOf(design[k]))  PROVE FALSE
      <3>1. Reserves(k, e.from) \/ Stops(k, e.from)
        BY <1>4, <2>1 DEF Reserves, Stops, Ends
      <3> QED BY <1>1, <1>2, <3>1
    <2> QED BY <1>1, <1>3, <1>4, <2>1 DEF Ends
  <1>5. CASE ~IsRouted(design[k])
    BY <1>1, <1>2, <1>5 DEF Reserves
  <1> QED BY <1>4, <1>5

\* A node a preserved net uses is not on any edge of the graph.
LEMMA CsrKeepsPreserved ==
  ASSUME FlowInv, phase \in Routing, NEW e \in csr, NEW net \in Range(design), ~IsRouted(net)
  PROVE  {e.from, e.to} \cap FixedNodes(net) = {}
  <1>1. PICK k \in Taken : net = design[k]
    BY AllTaken DEF Range
  <1> QED BY <1>1, CsrAvoids

\* No request shares a node with another net, and the graph leaves every request
\* to enter its sinks only and to leave its sources only, and has no edge at a
\* node of a preserved net.
THEOREM EndpointsAreExclusive == Spec => []EndpointsExclusive
  <1> DEFINE preserved == UNION {FixedNodes(net) : net \in {n \in Range(design) : ~IsRouted(n)}}
             sources(q) == NodesOf(q.sources)
             ends(q) == sources(q) \cup NodesOf(q.sinks)
  <1>1. ASSUME FlowInv, phase \in Routing, NEW e \in csr
        PROVE  {e.from, e.to} \cap preserved = {}
    BY <1>1, CsrKeepsPreserved
  <1>2. ASSUME FlowInv, phase \in Routing, NEW i \in 1 .. Len(requests)
        PROVE  /\ ends(requests[i]) \cap preserved = {}
               /\ \A j \in 1 .. Len(requests) : j # i => ends(requests[i]) \cap ends(requests[j]) = {}
               /\ \A e \in csr : /\ e.to \notin sources(requests[i])
                                 /\ e.from \in ends(requests[i]) => e.from \in sources(requests[i])
    <2>1. PICK k \in Taken : IsRouted(design[k]) /\ requests[i] = RequestOf(k)
      BY <1>2, RequestsOfNets
    <2>2. /\ sources(requests[i]) = NodesOf(SourcesOf(design[k]))
          /\ ends(requests[i]) = Ends(design[k])
      BY <2>1 DEF RequestOf, Ends
    <2>3. ASSUME NEW j \in 1 .. Len(requests), j # i
          PROVE  Ends(design[k]) \cap ends(requests[j]) = {}
      <3>1. PICK l \in Taken : IsRouted(design[l]) /\ requests[j] = RequestOf(l)
        BY <1>2, RequestsOfNets
      <3>2. k # l
        BY <1>2, <2>1, <2>3, <3>1 DEF FlowInv, RequestsInv
      <3>3. ends(requests[j]) = Ends(design[l])
        BY <3>1 DEF RequestOf, Ends
      <3> QED BY <1>2, <2>1, <3>1, <3>2, <3>3, RoutedApart
    <2>4. \A e \in csr : /\ e.to \notin NodesOf(SourcesOf(design[k]))
                         /\ e.from \in Ends(design[k]) => e.from \in NodesOf(SourcesOf(design[k]))
      BY <1>2, <2>1, CsrAvoids
    <2>5. Ends(design[k]) \cap preserved = {}
      BY <1>2, <2>1, PreservedApart
    <2> HIDE DEF preserved, sources, ends
    <2> QED BY <2>2, <2>3, <2>4, <2>5
  <1>3. FlowInv => EndpointsExclusive
    <2> HIDE DEF preserved
    <2> SUFFICES ASSUME FlowInv, phase \in Routing
                 PROVE  /\ \A e \in csr : {e.from, e.to} \cap preserved = {}
                        /\ \A i \in 1 .. Len(requests) :
                              LET q == requests[i] IN
                              /\ ends(q) \cap preserved = {}
                              /\ \A j \in 1 .. Len(requests) : j # i => ends(q) \cap ends(requests[j]) = {}
                              /\ \A e \in csr : e.to \notin sources(q) /\ (e.from \in ends(q) => e.from \in sources(q))
      BY DEF EndpointsExclusive, Imported, Routing, preserved
    <2> QED BY <1>1, <1>2
  <1> QED BY <1>3, FlowInvariant, PTL

\* A line of the routes file is a tree on the edges left, for a routed net taken.
LEMMA LinesAreTrees ==
  ASSUME FlowInv, NEW i \in 1 .. Len(routes)
  PROVE  \E k \in Taken :
            /\ IsRouted(design[k]) /\ routes[i].net = design[k].name
            /\ routes[i].edges \subseteq csr
            /\ IsRouteTree(routes[i].edges, NodesOf(SourcesOf(design[k])), NodesOf(SinksOf(design[k])))
  <1>1. PICK q \in Range(requests) : routes[i] \in Outcomes(q)
    <2>1. routes[i] \in UNION {Outcomes(q) : q \in Range(requests)}
      BY DEF FlowInv, RoutesInv
    <2> QED BY <2>1
  <1>2. PICK j \in 1 .. Len(requests) : q = requests[j]
    BY <1>1 DEF FlowInv, RequestsInv, Range
  <1>3. PICK k \in Taken : IsRouted(design[k]) /\ q = RequestOf(k)
    BY <1>2, RequestsOfNets
  <1>4. /\ q.net = design[k].name /\ q.sources = SourcesOf(design[k]) /\ q.sinks = SinksOf(design[k])
    BY <1>3 DEF RequestOf
  <1>5. PICK tree \in SUBSET csr :
           /\ IsRouteTree(tree, NodesOf(q.sources), NodesOf(q.sinks))
           /\ routes[i] = RouteLine(q, tree, NodesOf(q.sources) \cup {e.to : e \in tree})
    BY <1>1 DEF Outcomes
  <1>6. routes[i].net = q.net /\ routes[i].edges = tree
    BY <1>5 DEF RouteLine
  <1> QED BY <1>3, <1>4, <1>5, <1>6

\* No route touches a preserved net, or a pin of another net, in any graph, for
\* any trees the router may find.
THEOREM RoutesStayOut == Spec => []RoutesKeepOut
  <1>1. FlowInv => RoutesKeepOut
    <2> SUFFICES ASSUME FlowInv, NEW i \in 1 .. Len(routes), NEW e \in routes[i].edges, NEW net \in Range(design)
                 PROVE  /\ ~IsRouted(net) => {e.from, e.to} \cap FixedNodes(net) = {}
                        /\ IsRouted(net) /\ net.name # routes[i].net => {e.from, e.to} \cap Ends(net) = {}
      BY DEF RoutesKeepOut
    <2>1. phase \in Routing
      <3>1. CASE phase \notin Routing
        <4>1. Len(routes) = 0
          BY <3>1 DEF FlowInv, FlowType
        <4> QED BY <4>1
      <3> QED BY <3>1
    <2>2. PICK k \in Taken :
             /\ IsRouted(design[k]) /\ routes[i].net = design[k].name
             /\ routes[i].edges \subseteq csr
             /\ IsRouteTree(routes[i].edges, NodesOf(SourcesOf(design[k])), NodesOf(SinksOf(design[k])))
      BY LinesAreTrees
    <2>3. PICK l \in Taken : net = design[l]
      BY <2>1, AllTaken DEF Range
    <2> DEFINE tree == routes[i].edges
               S == NodesOf(SourcesOf(design[k]))  T == NodesOf(SinksOf(design[k]))
    <2>4. CASE ~IsRouted(net)
      BY <2>1, <2>2, <2>3, <2>4, CsrAvoids
    <2>5. CASE IsRouted(net) /\ net.name # routes[i].net
      <3>1. Ends(design[k]) \cap Ends(design[l]) = {}
        BY <2>2, <2>3, <2>5, RoutedApart
      <3>2. S \cup T = Ends(design[k])
        BY DEF Ends
      <3>3. \A f \in tree : /\ f.to \notin NodesOf(SourcesOf(design[l]))
                            /\ f.from \in Ends(design[l]) => f.from \in NodesOf(SourcesOf(design[l]))
        BY <2>1, <2>2, <2>3, <2>5, CsrAvoids
      <3>4. ASSUME NEW f \in tree  PROVE f.from \notin Ends(design[l])
        <4>1. f.from \in S \/ \E g \in tree : f.from = g.to
          BY <2>2 DEF IsRouteTree
        <4> QED BY <3>1, <3>2, <3>3, <4>1
      <3>5. e.to \notin Ends(design[l])
        <4>1. e.to \in T \/ \E g \in tree : g.from = e.to
          BY <2>2 DEF IsRouteTree
        <4> QED BY <3>1, <3>2, <3>4, <4>1
      <3> QED BY <2>3, <2>5, <3>4, <3>5
    <2> QED BY <2>4, <2>5
  <1> QED BY <1>1, FlowInvariant, PTL

-----------------------------------------------------------------------------
(* Refusals. *)

RefusedInv == phase = "refused" => Clashes \/ SinksClash

\* Clashes are a matter of the graph and the design.
LEMMA ClashesStay ==
  ASSUME UNCHANGED <<graph, design>>
  PROVE  (Clashes \/ SinksClash)' <=> (Clashes \/ SinksClash)
  <1>1. Clashes' <=> Clashes
    BY SameClashes DEF Clashes
  <1>2. SinksClash' <=> SinksClash
    BY SameClashes DEF SinksClash
  <1> QED BY <1>1, <1>2

\* What stops a net from being taken is a net taken before, or the net itself.
LEMMA RefusalHasReason ==
  ASSUME FlowInv, RefuseNet
  PROVE  Clashes \/ SinksClash
  <1> DEFINE S == SourceNodes  T == SinkNodes
  <1>1. phase = "nets" /\ next \in 1 .. Len(design) /\ Taken = 1 .. next - 1 /\ Net = design[next]
    BY DEF RefuseNet, Importing, FlowInv, FlowType, Taken, OnDevice, Net
  <1>2. /\ \A i \in Taken : i \in 1 .. Len(design) /\ i < next
        /\ phase \notin OnDevice \cup {"open"}
    <2>1. Len(design) \in Nat
      BY <1>1, Sequences DEF FlowInv, FlowType, OnDevice
    <2> QED BY <1>1, <2>1 DEF OnDevice
  <1>3. ASSUME NEW i \in Taken, Clash(design[i], design[next])  PROVE Clashes
    BY <1>1, <1>2, <1>3 DEF Clashes
  <1>4. ASSUME OffDevice(design[next])  PROVE Clashes
    BY <1>1, <1>4 DEF Clashes
  <1>5. /\ S = NodesOf(SourcesOf(design[next])) /\ T = NodesOf(SinksOf(design[next]))
        /\ Ends(design[next]) = S \cup T /\ S \subseteq rows /\ T \subseteq rows
        /\ FixedNodes(design[next]) \subseteq rows
    BY <1>1, NodesAreRows DEF SourceNodes, SinkNodes, Ends, FlowInv
  <1>6. \A n \in rows : owner[n] # 0 => \E i \in Taken : Owns(i, n)
    BY <1>2 DEF FlowInv, MasksInv
  <1>7. CASE DuplicateName
    BY <1>1, <1>3, <1>7 DEF DuplicateName, Clash
  <1>8. CASE IsRouted(Net) /\ ~CanRequest
    <2>1. CASE \E n \in S \cup T : ~Claimable(n)
      <3>1. PICK n \in S \cup T : n \in blocked \/ owner[n] # 0
        BY <2>1 DEF Claimable
      <3>2. PICK i \in Taken : Reserves(i, n) \/ Owns(i, n)
        BY <1>5, <1>6, <3>1 DEF FlowInv, MasksInv
      <3>3. Clash(design[i], design[next])
        BY <1>1, <1>5, <1>8, <3>2 DEF Reserves, Owns, Clash
      <3> QED BY <1>3, <3>3
    <2>2. CASE ClaimedTwice
      <3>1. PICK i, j \in 1 .. Len(Net.stubs) :
               i < j /\ SinksOf(Net)[i].node = SinksOf(Net)[j].node /\ SinksOf(Net)[i].node # NoNode
        BY <2>2 DEF ClaimedTwice
      <3>2. NodesOf(SourcesOf(Net)) = {} /\ i # j
        BY <1>1, <1>5, <2>2, <3>1 DEF ClaimedTwice
      <3>3. SharedSinkWithoutSource(Net)
        BY <1>8, <3>1, <3>2 DEF SharedSinkWithoutSource
      <3> QED BY <1>1, <3>3 DEF SinksClash
    <2>3. CASE ~ClaimedTwice /\ \A n \in S \cup T : Claimable(n)
      BY <1>1, <1>4, <1>8, <2>3 DEF CanRequest, OffDevice
    <2> QED BY <2>1, <2>2, <2>3
  <1>9. CASE ~IsRouted(Net) /\ ~CanPreserve
    <2>1. CASE \E n \in FixedNodes(Net) : owner[n] # 0
      <3>1. PICK n \in FixedNodes(Net) : owner[n] # 0
        BY <2>1
      <3>2. PICK i \in Taken : Owns(i, n)
        BY <1>1, <1>5, <1>6, <3>1
      <3>3. Clash(design[i], design[next])
        BY <1>1, <1>9, <3>1, <3>2 DEF Owns, Clash
      <3> QED BY <1>3, <3>3
    <2>2. CASE \A n \in FixedNodes(Net) : owner[n] = 0
      BY <1>1, <1>4, <1>9, <2>2 DEF CanPreserve, Unowned, OffDevice
    <2> QED BY <2>1, <2>2
  <1> QED BY <1>7, <1>8, <1>9 DEF RefuseNet, IsRouted

LEMMA RefusedStep == FlowInv /\ RefusedInv /\ [Next]_vars => RefusedInv'
  <1> SUFFICES ASSUME FlowInv, RefusedInv, [Next]_vars, phase' = "refused"
               PROVE  (Clashes \/ SinksClash)'
    BY DEF RefusedInv
  <1>1. CASE RefuseNet
    <2>1. UNCHANGED <<graph, design>>
      BY <1>1 DEF RefuseNet, input
    <2> QED BY <1>1, <2>1, RefusalHasReason, ClashesStay
  <1>2. CASE ~RefuseNet
    <2>1. phase = "refused" /\ UNCHANGED <<graph, design>>
      <3>1. CASE UNCHANGED vars
        BY <3>1 DEF vars, importVars, input
      <3>2. CASE ImportDevice
        <4>1. phase' # "refused"
          BY <3>2, DevicePhases DEF OnDevice
        <4> QED BY <4>1
      <3>3. CASE OpenDesign \/ LogicalDone \/ MakeCsr \/ RefuseUnsupported
        BY <3>3 DEF OpenDesign, LogicalDone, MakeCsr, RefuseUnsupported
      <3>4. CASE IndexLogicalNet \/ PreserveNet \/ AddRequest
        BY <3>4 DEF IndexLogicalNet, PreserveNet, AddRequest, Importing
      <3>5. CASE RouteRequest \/ WriteRoutes \/ RefuseRoutes \/ Export
        BY <3>5 DEF RouteRequest, WriteRoutes, RefuseRoutes, importVars, Export, LoadRoutes, KeepNet, RebuildNet,
                    RefuseExport, FinishExport, Exporting
      <3> QED BY <1>2, <3>1, <3>2, <3>3, <3>4, <3>5 DEF Next, Import
    <2> QED BY <2>1, ClashesStay DEF RefusedInv
  <1> QED BY <1>1, <1>2

\* Whether a design is refused is a matter of its nets and the graph, and never of
\* the order the nets are listed in.
THEOREM RefusalsAreJustified == Spec => []RefusedIffClash
  <1>1. Init => RefusedInv
    BY DEF Init, DeviceInit, RefusedInv
  <1>2. FlowInv /\ RefusedInv => RefusedIffClash
    <2> SUFFICES ASSUME FlowInv, phase = "route"  PROVE ~Clashes /\ ~SinksClash
      BY DEF RefusedIffClash, RefusedInv, Imported
    <2>1. Taken = 1 .. Len(design)
      BY AllTaken DEF Routing
    <2> QED BY <2>1 DEF FlowInv, CompatibleInv, Clashes, SinksClash
  <1> QED BY <1>1, <1>2, FlowInvariant, RefusedStep, PTL DEF Spec

-----------------------------------------------------------------------------
(* Numbers and lists. *)

\* A nonempty set of naturals has a least element.
LEMMA LeastOf ==
  ASSUME NEW S \in SUBSET Nat, S # {}
  PROVE  \E m \in S : \A k \in S : m <= k
  <1> DEFINE R == OpToRel(<, Nat)
  <1>1. PICK m \in S : \A k \in S : ~(<<k, m>> \in R)
    <2>1. IsWellFoundedOn(R, Nat)
      BY NatLessThanWellFounded
    <2> HIDE DEF R
    <2> QED BY <2>1, WFMin
  <1>2. \A k \in S : ~(k < m)
    BY <1>1 DEF OpToRel
  <1> QED BY <1>2

\* Induction, stated about a set.
LEMMA Induction ==
  ASSUME NEW K, 0 \in K, \A k \in Nat : k \in K => k + 1 \in K
  PROVE  Nat \subseteq K
  <1> SUFFICES ASSUME Nat \ K # {}  PROVE FALSE
    OBVIOUS
  <1>1. PICK m \in Nat \ K : \A k \in Nat \ K : m <= k
    BY LeastOf
  <1>2. m # 0 /\ m - 1 \in Nat /\ m - 1 \in K
    BY <1>1
  <1>3. m \in K
    BY <1>2
  <1> QED BY <1>1, <1>3

\* Two lists one behind the other.
LEMMA ConcatRange ==
  ASSUME NEW E, NEW s \in Seq(E), NEW t \in Seq(E)
  PROVE  s \o t \in Seq(E) /\ Range(s \o t) = Range(s) \cup Range(t)
  <1>1. s \o t \in Seq(E) /\ Len(s \o t) = Len(s) + Len(t)
    OBVIOUS
  <1>2. Range(s \o t) \subseteq Range(s) \cup Range(t)
    BY DEF Range
  <1>3. ASSUME NEW i \in 1 .. Len(s)  PROVE s[i] \in Range(s \o t)
    <2>1. (s \o t)[i] = s[i] /\ i \in DOMAIN (s \o t)
      OBVIOUS
    <2> QED BY <2>1 DEF Range
  <1>4. ASSUME NEW i \in 1 .. Len(t)  PROVE t[i] \in Range(s \o t)
    <2>1. (s \o t)[Len(s) + i] = t[i] /\ Len(s) + i \in DOMAIN (s \o t)
      OBVIOUS
    <2> QED BY <2>1 DEF Range
  <1>5. Range(s) \subseteq Range(s \o t)
    BY <1>3 DEF Range
  <1>6. Range(t) \subseteq Range(s \o t)
    BY <1>4 DEF Range
  <1> QED BY <1>1, <1>2, <1>5, <1>6

Flattening(f, ss) == [i \in 1 .. Len(ss) |-> IF i = 1 THEN ss[i] ELSE f[i - 1] \o ss[i]]

\* FlattenSeq has every element of its lists.
LEMMA FlattenRange ==
  ASSUME NEW E, NEW ss \in Seq(Seq(E))
  PROVE  /\ FlattenSeq(ss) \in Seq(E)
         /\ Range(FlattenSeq(ss)) = UNION {Range(ss[i]) : i \in 1 .. Len(ss)}
  <1> DEFINE n == Len(ss)
             f == CHOOSE x : x = Flattening(x, ss)
  <1>0. n \in Nat /\ \A i \in 1 .. n : ss[i] \in Seq(E)
    OBVIOUS
  <1>1. CASE n = 0
    <2>1. ss = <<>> /\ 1 .. n = {}
      BY <1>1
    <2>2. FlattenSeq(ss) = <<>>
      BY <2>1, <1>1 DEF FlattenSeq
    <2>3. Range(FlattenSeq(ss)) = {}
      BY <2>2 DEF Range
    <2>4. FlattenSeq(ss) \in Seq(E)
      BY <2>2
    <2> HIDE DEF n
    <2> QED BY <2>1, <2>3, <2>4
  <1>2. CASE n # 0
    <2>1. FlattenSeq(ss) = f[n]
      BY <1>2 DEF FlattenSeq, Flattening
    <2> DEFINE Partial(g, k) == /\ g \in [1 .. k -> Seq(E)]
                                /\ \A i \in 1 .. k : g[i] = IF i = 1 THEN ss[i] ELSE g[i - 1] \o ss[i]
               K == {k \in Nat : k <= n => \E g : Partial(g, k)}
    <2>2. 0 \in K
      <3>1. Partial([i \in 1 .. 0 |-> <<>>], 0)
        OBVIOUS
      <3> HIDE DEF Partial
      <3> QED BY <3>1
    <2>3. ASSUME NEW k \in Nat, k \in K  PROVE k + 1 \in K
      <3>0. k + 1 <= n => k <= n
        BY <1>0
      <3> SUFFICES ASSUME k + 1 <= n  PROVE \E g : Partial(g, k + 1)
        <4> HIDE DEF Partial, n
        <4> QED OBVIOUS
      <3>1. PICK g : Partial(g, k)
        <4> HIDE DEF Partial, n
        <4> QED BY <2>3, <3>0
      <3> DEFINE h == [i \in 1 .. k + 1 |-> IF i \in 1 .. k THEN g[i] ELSE IF i = 1 THEN ss[i] ELSE g[i - 1] \o ss[i]]
      <3>2. ASSUME NEW i \in 1 .. k + 1
            PROVE  h[i] \in Seq(E) /\ h[i] = IF i = 1 THEN ss[i] ELSE h[i - 1] \o ss[i]
        <4>1. ss[i] \in Seq(E) /\ (i # 1 => i - 1 \in 1 .. k /\ g[i - 1] \in Seq(E) /\ h[i - 1] = g[i - 1])
          BY <1>0, <3>1
        <4>2. CASE i \in 1 .. k
          BY <3>1, <4>1, <4>2
        <4>3. CASE i \notin 1 .. k
          BY <4>1, <4>3
        <4> QED BY <4>2, <4>3
      <3>3. Partial(h, k + 1)
        <4> HIDE DEF h
        <4>1. h \in [1 .. k + 1 -> Seq(E)]
          BY <3>2 DEF h
        <4> QED BY <3>2, <4>1
      <3> HIDE DEF Partial, h
      <3> QED BY <3>3
    <2>4. n \in K
      <3> HIDE DEF K
      <3>1. Nat \subseteq K
        BY <2>2, <2>3, Induction
      <3> QED BY <3>1, <1>0
    <2>5. \E x : x = Flattening(x, ss)
      <3>1. PICK g : Partial(g, n)
        BY <2>4, <1>0
      <3>2. g = Flattening(g, ss)
        BY <3>1 DEF Flattening
      <3> QED BY <3>2
    <2>6. f = Flattening(f, ss)
      <3> HIDE DEF n
      <3> QED BY <2>5
    <2>7. \A i \in 1 .. n : f[i] = IF i = 1 THEN ss[i] ELSE f[i - 1] \o ss[i]
      <3> HIDE DEF f
      <3> QED BY <2>6 DEF Flattening
    <2> HIDE DEF f, K
    <2> DEFINE Good(k) == f[k] \in Seq(E) /\ Range(f[k]) = UNION {Range(ss[i]) : i \in 1 .. k}
               L == {k \in Nat : k + 1 <= n => Good(k + 1)}
    <2>8. 0 \in L
      <3>1. f[1] = ss[1] /\ 1 .. 1 = {1} /\ 1 \in 1 .. n
        BY <2>7, <1>0, <1>2
      <3>2. UNION {Range(ss[i]) : i \in 1 .. 1} = Range(ss[1])
        BY <3>1
      <3>3. Good(1)
        BY <3>1, <3>2, <1>0
      <3>4. 0 + 1 = 1
        OBVIOUS
      <3> HIDE DEF Good
      <3> QED BY <3>3, <3>4
    <2>9. ASSUME NEW k \in Nat, k \in L  PROVE k + 1 \in L
      <3> SUFFICES ASSUME k + 2 <= n  PROVE Good(k + 2)
        BY (k + 1) + 1 = k + 2
      <3>1. Good(k + 1) /\ k + 2 \in 1 .. n /\ k + 2 # 1 /\ (k + 2) - 1 = k + 1
        BY <2>9, <1>0
      <3>2. f[k + 2] = f[k + 1] \o ss[k + 2] /\ ss[k + 2] \in Seq(E)
        BY <2>7, <1>0, <3>1
      <3>3. f[k + 2] \in Seq(E) /\ Range(f[k + 2]) = Range(f[k + 1]) \cup Range(ss[k + 2])
        BY <3>1, <3>2, ConcatRange
      <3>4. 1 .. k + 2 = (1 .. k + 1) \cup {k + 2}
        OBVIOUS
      <3>5. UNION {Range(ss[i]) : i \in 1 .. k + 2} = (UNION {Range(ss[i]) : i \in 1 .. k + 1}) \cup Range(ss[k + 2])
        BY <3>4
      <3> QED BY <3>1, <3>3, <3>5
    <2>10. Good(n)
      <3>1. n - 1 \in Nat /\ (n - 1) + 1 = n
        BY <1>0, <1>2
      <3>2. n - 1 \in L
        <4> HIDE DEF L
        <4>1. Nat \subseteq L
          BY <2>8, <2>9, Induction
        <4> QED BY <4>1, <3>1
      <3> QED BY <3>1, <3>2
    <2> QED BY <2>1, <2>10
  <1> QED BY <1>1, <1>2

\* The edges of a set that lead from u to v.
Between(S, u, v) == {e \in S : e.from = u /\ e.to = v}

\* The last of the entries of a pair is kept, and no other.
LEMMA LastIsKept ==
  ASSUME NEW E, NEW raw \in Seq(E), NEW u, NEW v, u # v
  PROVE  Cardinality(Between(Unique(raw), u, v)) = IF \E e \in Range(raw) : e.from = u /\ e.to = v THEN 1 ELSE 0
  <1> DEFINE kept == {e \in Unique(raw) : e.from = u /\ e.to = v}
             At == {k \in 1 .. Len(raw) : raw[k].from = u /\ raw[k].to = v}
  <1> SUFFICES Cardinality(kept) = IF \E e \in Range(raw) : e.from = u /\ e.to = v THEN 1 ELSE 0
    BY DEF Between
  <1>0. Len(raw) \in Nat /\ DOMAIN raw = 1 .. Len(raw)
    OBVIOUS
  <1>1. (\E e \in Range(raw) : e.from = u /\ e.to = v) <=> At # {}
    BY <1>0 DEF Range
  <1>2. CASE At = {}
    <2>1. kept = {}
      BY <1>2 DEF Unique
    <2> HIDE DEF kept, At
    <2> QED BY <1>1, <1>2, <2>1, FS_EmptySet
  <1>3. CASE At # {}
    <2>1. PICK m \in At : \A k \in At : k <= m
      <3> DEFINE D == {Len(raw) - k : k \in At}
      <3>1. D \in SUBSET Nat /\ D # {}
        BY <1>0, <1>3
      <3>2. PICK d \in D : \A x \in D : d <= x
        <4> HIDE DEF D
        <4> QED BY <3>1, LeastOf
      <3>3. PICK m \in At : d = Len(raw) - m
        BY <3>2
      <3>4. \A k \in At : Len(raw) - m <= Len(raw) - k
        BY <3>2, <3>3
      <3> QED BY <1>0, <3>3, <3>4
    <2>2. raw[m] \in kept
      <3>1. \A j \in m + 1 .. Len(raw) : j \notin At /\ j \in 1 .. Len(raw)
        BY <1>0, <2>1
      <3>2. \A j \in m + 1 .. Len(raw) : <<raw[j].from, raw[j].to>> # <<raw[m].from, raw[m].to>>
        BY <2>1, <3>1
      <3> QED BY <2>1, <3>2 DEF Unique
    <2>3. ASSUME NEW e \in kept  PROVE e = raw[m]
      <3>1. PICK k \in At : e = raw[k] /\ \A j \in k + 1 .. Len(raw) : <<raw[j].from, raw[j].to>> # <<raw[k].from, raw[k].to>>
        BY DEF Unique
      <3>2. ~(m \in k + 1 .. Len(raw))
        BY <2>1, <3>1
      <3>3. k = m
        BY <1>0, <2>1, <3>1, <3>2
      <3> QED BY <3>1, <3>3
    <2>4. kept = {raw[m]}
      BY <2>2, <2>3
    <2> HIDE DEF kept, At
    <2> QED BY <1>1, <1>3, <2>4, FS_Singleton
  <1> QED BY <1>2, <1>3

\* Nothing else is kept.
LEMMA KeptIsEntered ==
  ASSUME NEW E, NEW raw \in Seq(E), NEW e \in Unique(raw)
  PROVE  e \in Range(raw) /\ e.from # e.to
  BY DEF Unique, Range

-----------------------------------------------------------------------------
(* What has been picked from the device. *)

\* The wires of a row, as the importer notes them.
WiresOf(n) == {[tile |-> x.tile, wire |-> x.wire, node |-> n] : x \in Range(device.nodes[n])}

\* The entries of the PIPs of a tile.
EntriesAt(t) == UNION {Range(EntriesOf(t, p)) : p \in Range(Pips(device, t))}

\* Rows are nodes of the device with all their wires and end inside the box, and
\* once the nodes are read a wire belongs to one of them.
RowsInv ==
    /\ device \in Devices /\ cut \in Cuts
    /\ rows \subseteq 1 .. Len(device.nodes)
    /\ phase = "deviceNodes" => next \in Nat \ {0} /\ \A n \in rows : n < next
    /\ tileWires = UNION {WiresOf(n) : n \in rows}
    /\ \A n \in rows : \E x \in Range(device.nodes[n]) :
          InBounds(x.tile) /\ routeEnd[n] = device.tiles[x.tile].at
    /\ phase # "deviceNodes" => \A a, b \in tileWires : a.tile = b.tile /\ a.wire = b.wire => a = b

\* The entries are those of the tiles gone through.
EntriesInv ==
    /\ phase = "deviceNodes" => entries = <<>>
    /\ phase = "devicePips" =>
          /\ next \in 1 .. Len(device.tiles) + 1
          /\ entries \in Seq(Range(entries))
          /\ Range(entries) = UNION {EntriesAt(t) : t \in {k \in 1 .. next - 1 : InBounds(k)}}

\* The edges are the last entries of their pairs.
EdgesInv ==
    phase \in {"deviceSites", "open"} =>
        \E raw \in Seq(UNION {EntriesAt(t) : t \in 1 .. Len(device.tiles)}) :
            /\ Range(raw) = UNION {EntriesAt(t) : t \in {k \in 1 .. Len(device.tiles) : InBounds(k)}}
            /\ edges = Unique(raw)

GraphInv == phase \in {"deviceNodes", "devicePips", "deviceSites", "open"} => RowsInv /\ EntriesInv /\ EdgesInv

\* The lists of a device are sequences.
LEMMA DeviceLists ==
  ASSUME device \in Devices
  PROVE  /\ Len(device.nodes) \in Nat /\ DOMAIN device.nodes = 1 .. Len(device.nodes)
         /\ Len(device.tiles) \in Nat
         /\ \A n \in 1 .. Len(device.nodes) :
               Len(device.nodes[n]) \in Nat /\ DOMAIN device.nodes[n] = 1 .. Len(device.nodes[n])
         /\ \A t \in 1 .. Len(device.tiles) :
               /\ Len(Pips(device, t)) \in Nat /\ DOMAIN Pips(device, t) = 1 .. Len(Pips(device, t))
               /\ \A p \in Range(Pips(device, t)) : p.directional \in BOOLEAN /\ p.conventional \in BOOLEAN
  <1>1. /\ device.nodes \in Seq(Range(device.nodes)) /\ device.tiles \in Seq(Range(device.tiles))
        /\ \A n \in 1 .. Len(device.nodes) : device.nodes[n] \in Seq(Range(device.nodes[n]))
        /\ \A t \in 1 .. Len(device.tiles) :
              /\ Pips(device, t) \in Seq(Range(Pips(device, t)))
              /\ \A p \in Range(Pips(device, t)) : p.directional \in BOOLEAN /\ p.conventional \in BOOLEAN
    BY DeviceAssumption
  <1> QED BY <1>1

\* The wire that gives a row its place lies inside the box.
LEMMA MetadataInside ==
  ASSUME device \in Devices, cut \in Cuts, NEW n \in 1 .. Len(device.nodes), Included(device.nodes[n])
  PROVE  LET w == MetadataWire(device.nodes[n])
         IN  w \in Range(device.nodes[n]) /\ InBounds(w.tile)
  <1> DEFINE wires == device.nodes[n]
  <1>1. /\ Len(wires) \in Nat /\ DOMAIN wires = 1 .. Len(wires)
        /\ wires # <<>> /\ wires \in Seq(Range(wires))
        /\ cut.mode \in {"poc-base-wire", "fully-contained", "intersects"}
    BY DeviceLists, DeviceAssumption DEF Included
  <1>2. Inside(wires) \subseteq 1 .. Len(wires) /\ \A i \in Inside(wires) : InBounds(wires[i].tile)
    BY DEF Inside
  <1>3. Inside(wires) # {} /\ (cut.mode = "poc-base-wire" => 1 \in Inside(wires))
    <2>1. Len(wires) # 0
      BY <1>1
    <2>2. 1 \in 1 .. Len(wires)
      BY <1>1, <2>1
    <2> QED BY <1>1, <2>2 DEF Included
  <1>4. Min(Inside(wires)) \in Inside(wires)
    <2>1. Inside(wires) \in SUBSET Nat
      BY <1>1, <1>2
    <2>2. \E m \in Inside(wires) : \A k \in Inside(wires) : m <= k
      BY <1>3, <2>1, LeastOf
    <2> QED BY <2>2 DEF Min
  <1>5. \E i \in Inside(wires) : MetadataWire(wires) = wires[i]
    BY <1>3, <1>4 DEF MetadataWire
  <1> QED BY <1>1, <1>2, <1>5 DEF Range

-----------------------------------------------------------------------------
(* Wires, entries and what the device says. *)

\* The node of a wire is the one row that has it, if there is one.
LEMMA WireNodeIs ==
  ASSUME RowsInv, phase # "deviceNodes", NEW t, NEW w
  PROVE  /\ WireNode(t, w) = NoNode => NodesWith(t, w) = {}
         /\ WireNode(t, w) # NoNode => WireNode(t, w) \in rows /\ NodesWith(t, w) = {WireNode(t, w)}
  <1> DEFINE found == {r \in tileWires : r.tile = t /\ r.wire = w}
  <1>0. NoNode \notin rows
    <2>1. NoNode \notin Nat \ {0}
      BY DeviceAssumption
    <2>2. Len(device.nodes) \in Nat /\ rows \subseteq 1 .. Len(device.nodes)
      BY DeviceLists DEF RowsInv
    <2>3. \A n \in 1 .. Len(device.nodes) : n \in Nat \ {0}
      BY <2>2
    <2> QED BY <2>1, <2>2, <2>3
  <1>1. ASSUME NEW n \in NodesWith(t, w)
        PROVE  n \in rows /\ \E r \in found : r.node = n
    <2>1. n \in rows
      BY DEF NodesWith
    <2>2. PICK x \in Range(device.nodes[n]) : x.tile = t /\ x.wire = w
      BY DEF NodesWith
    <2> DEFINE r == [tile |-> x.tile, wire |-> x.wire, node |-> n]
    <2>3. r \in tileWires
      BY <2>1, <2>2 DEF RowsInv, WiresOf
    <2>4. r.tile = t /\ r.wire = w /\ r.node = n
      BY <2>2
    <2> QED BY <2>1, <2>3, <2>4
  <1>2. ASSUME NEW r \in found
        PROVE  r.node \in rows /\ r.node \in NodesWith(t, w)
    <2>1. PICK n \in rows : r \in WiresOf(n)
      BY DEF RowsInv
    <2>2. PICK x \in Range(device.nodes[n]) : r = [tile |-> x.tile, wire |-> x.wire, node |-> n]
      BY <2>1 DEF WiresOf
    <2>3. r.node = n /\ x.tile = t /\ x.wire = w
      BY <2>2
    <2> QED BY <2>3 DEF NodesWith
  <1>3. \A r, s \in found : r = s
    BY DEF RowsInv
  <1>4. CASE found = {}
    BY <1>1, <1>4 DEF WireNode
  <1>5. CASE found # {}
    <2>1. PICK r \in found : WireNode(t, w) = r.node
      BY <1>5 DEF WireNode
    <2>2. NodesWith(t, w) = {r.node}
      BY <1>1, <1>2, <1>3
    <2> QED BY <1>0, <1>2, <2>1, <2>2
  <1> QED BY <1>4, <1>5

\* The entries of a PIP, there and back, are a list.
LEMMA EntriesAreList ==
  ASSUME NEW t, NEW p
  PROVE  LET u == WireNode(t, p.wire0)
             v == WireNode(t, p.wire1)
             data(f) == [tile |-> t, wire0 |-> p.wire0, wire1 |-> p.wire1, forward |-> f]
             there == [from |-> u, to |-> v, pip |-> data(TRUE)]
             back == [from |-> v, to |-> u, pip |-> data(FALSE)]
         IN  /\ EntriesOf(t, p) \in Seq(Range(EntriesOf(t, p)))
             /\ \A e \in Range(EntriesOf(t, p)) :
                   p.conventional /\ u # NoNode /\ v # NoNode /\ (e = there \/ (~p.directional /\ e = back))
  <1> DEFINE u == WireNode(t, p.wire0)
             v == WireNode(t, p.wire1)
             data(f) == [tile |-> t, wire0 |-> p.wire0, wire1 |-> p.wire1, forward |-> f]
             there == [from |-> u, to |-> v, pip |-> data(TRUE)]
             back == [from |-> v, to |-> u, pip |-> data(FALSE)]
             more == IF p.directional THEN <<>> ELSE <<back>>
             s == EntriesOf(t, p)
  <1>1. s = IF ~p.conventional \/ NoNode \in {u, v} THEN <<>> ELSE <<there>> \o more
    BY DEF EntriesOf
  <1> HIDE DEF there, back, s
  <1> DEFINE E == {there, back}
  <1>2. /\ <<there>> \in Seq(E) /\ more \in Seq(E) /\ <<>> \in Seq(E)
        /\ Range(<<there>>) = {there} /\ Range(<<>>) = {}
        /\ \A e \in Range(more) : ~p.directional /\ e = back
    <2>1. <<there>> \in Seq(E) /\ <<back>> \in Seq(E) /\ <<>> \in Seq(E)
      OBVIOUS
    <2>2. \A x : Range(<<x>>) = {x}
      <3> TAKE x
      <3>1. DOMAIN <<x>> = {1} /\ <<x>>[1] = x
        OBVIOUS
      <3> QED BY <3>1 DEF Range
    <2>3. Range(<<>>) = {}
      BY DEF Range
    <2> QED BY <2>1, <2>2, <2>3
  <1> HIDE DEF more, E
  <1>3. <<there>> \o more \in Seq(E) /\ Range(<<there>> \o more) = {there} \cup Range(more)
    <2> DEFINE one == <<there>>
    <2>1. one \in Seq(E) /\ Range(one) = {there} /\ more \in Seq(E)
      BY <1>2
    <2> HIDE DEF one
    <2>2. one \o more \in Seq(E) /\ Range(one \o more) = Range(one) \cup Range(more)
      BY <2>1, ConcatRange
    <2> QED BY <2>1, <2>2 DEF one
  <1>4. s \in Seq(E)
    BY <1>1, <1>2, <1>3
  <1>5. s \in Seq(Range(s))
    <2>1. Len(s) \in Nat /\ DOMAIN s = 1 .. Len(s) /\ s = [i \in 1 .. Len(s) |-> s[i]]
      BY <1>4
    <2> QED BY <2>1 DEF Range
  <1>6. ASSUME NEW e \in Range(s)
        PROVE  p.conventional /\ u # NoNode /\ v # NoNode /\ (e = there \/ (~p.directional /\ e = back))
    <2>1. p.conventional /\ NoNode \notin {u, v}
      BY <1>1, <1>2
    <2>2. e \in {there} \cup Range(more)
      BY <1>1, <1>3, <2>1
    <2> QED BY <1>2, <2>1, <2>2
  <1> QED BY <1>5, <1>6 DEF s, there, back

\* An entry is a PIP of the device between rows.
LEMMA EntriesAreReal ==
  ASSUME RowsInv, phase # "deviceNodes", NEW t \in 1 .. Len(device.tiles), NEW p \in Range(Pips(device, t)),
         NEW e \in Range(EntriesOf(t, p))
  PROVE  /\ e.from \in rows /\ e.to \in rows /\ Realises(e.pip, e.from, e.to)
         /\ \E f \in BOOLEAN : e.pip = [tile |-> t, wire0 |-> p.wire0, wire1 |-> p.wire1, forward |-> f]
  <1> DEFINE u == WireNode(t, p.wire0)
             v == WireNode(t, p.wire1)
             data(f) == [tile |-> t, wire0 |-> p.wire0, wire1 |-> p.wire1, forward |-> f]
  <1>0. p.directional \in BOOLEAN /\ p.conventional \in BOOLEAN
    BY DeviceLists DEF RowsInv
  <1>1. /\ p.conventional /\ u # NoNode /\ v # NoNode
        /\ \/ e = [from |-> u, to |-> v, pip |-> data(TRUE)]
           \/ ~p.directional /\ e = [from |-> v, to |-> u, pip |-> data(FALSE)]
    BY EntriesAreList
  <1>2. u \in rows /\ v \in rows /\ NodesWith(t, p.wire0) = {u} /\ NodesWith(t, p.wire1) = {v}
    BY <1>1, WireNodeIs
  <1>3. CASE e = [from |-> u, to |-> v, pip |-> data(TRUE)]
    <2>1. e.from = u /\ e.to = v /\ e.pip = data(TRUE)
      BY <1>3
    <2>2. Realises(data(TRUE), u, v)
      BY <1>1, <1>2 DEF Realises
    <2> HIDE DEF u, v, data
    <2>3. e.from \in rows /\ e.to \in rows /\ Realises(e.pip, e.from, e.to)
      BY <1>2, <2>1, <2>2
    <2> QED BY <2>1, <2>3 DEF data
  <1>4. CASE ~p.directional /\ e = [from |-> v, to |-> u, pip |-> data(FALSE)]
    <2>1. e.from = v /\ e.to = u /\ e.pip = data(FALSE)
      BY <1>4
    <2>2. Realises(data(FALSE), v, u)
      BY <1>1, <1>2, <1>4 DEF Realises
    <2> HIDE DEF u, v, data
    <2>3. e.from \in rows /\ e.to \in rows /\ Realises(e.pip, e.from, e.to)
      BY <1>2, <2>1, <2>2
    <2> QED BY <2>1, <2>3 DEF data
  <1> QED BY <1>1, <1>3, <1>4

\* What a PIP of the device leads to has an entry.
LEMMA RealPipsAreEntered ==
  ASSUME RowsInv, phase # "deviceNodes", NEW t \in 1 .. Len(device.tiles), NEW p \in Range(Pips(device, t)),
         NEW f \in BOOLEAN, NEW u, NEW v,
         Realises([tile |-> t, wire0 |-> p.wire0, wire1 |-> p.wire1, forward |-> f], u, v)
  PROVE  \E e \in EntriesAt(t) : e.from = u /\ e.to = v
  <1> DEFINE a == WireNode(t, p.wire0)
             b == WireNode(t, p.wire1)
             data(g) == [tile |-> t, wire0 |-> p.wire0, wire1 |-> p.wire1, forward |-> g]
  <1>1. PICK q \in Range(Pips(device, t)) :
           q.conventional /\ q.wire0 = p.wire0 /\ q.wire1 = p.wire1 /\ (f \/ ~q.directional)
    BY DEF Realises
  <1>2. /\ NodesWith(t, p.wire0) = (IF f THEN {u} ELSE {v})
        /\ NodesWith(t, p.wire1) = (IF f THEN {v} ELSE {u})
    BY DEF Realises
  <1>3. a # NoNode /\ b # NoNode /\ a = (IF f THEN u ELSE v) /\ b = (IF f THEN v ELSE u)
    <2>1. NodesWith(t, p.wire0) # {} /\ NodesWith(t, p.wire1) # {}
      BY <1>2
    <2>2. a # NoNode /\ b # NoNode /\ NodesWith(t, p.wire0) = {a} /\ NodesWith(t, p.wire1) = {b}
      BY <2>1, WireNodeIs
    <2> HIDE DEF a, b
    <2> QED BY <1>2, <2>2
  <1>0. q.directional \in BOOLEAN /\ q.conventional \in BOOLEAN
    BY DeviceLists DEF RowsInv
  <1>4. CASE f
    <2> DEFINE e == [from |-> a, to |-> b, pip |-> data(TRUE)]
    <2>1. e \in Range(EntriesOf(t, q))
      <3>1. EntriesOf(t, q)[1] = e /\ 1 \in DOMAIN EntriesOf(t, q)
        BY <1>0, <1>1, <1>3 DEF EntriesOf
      <3> QED BY <3>1 DEF Range
    <2>2. e.from = u /\ e.to = v
      BY <1>3, <1>4
    <2> QED BY <2>1, <2>2 DEF EntriesAt
  <1>5. CASE ~f
    <2> DEFINE e == [from |-> b, to |-> a, pip |-> data(FALSE)]
    <2>1. e \in Range(EntriesOf(t, q))
      <3>1. EntriesOf(t, q)[2] = e /\ 2 \in DOMAIN EntriesOf(t, q)
        BY <1>0, <1>1, <1>3, <1>5 DEF EntriesOf
      <3> QED BY <3>1 DEF Range
    <2>2. e.from = u /\ e.to = v
      BY <1>3, <1>5
    <2> QED BY <2>1, <2>2 DEF EntriesAt
  <1> QED BY <1>4, <1>5

-----------------------------------------------------------------------------
(* Steps. *)

\* The first phase starts with nothing.
LEMMA GraphInit == Init => GraphInv
  BY DEF Init, DeviceInit, GraphInv, RowsInv, EntriesInv, EdgesInv

LEMMA ImportNodeKeeps ==
  ASSUME RowsInv, EntriesInv, ImportNode
  PROVE  RowsInv' /\ EntriesInv' /\ EdgesInv'
  <1>1. /\ phase = "deviceNodes" /\ phase' = "deviceNodes" /\ next \in 1 .. Len(device.nodes) /\ next' = next + 1
        /\ UNCHANGED <<device, cut, entries, edges>>
    BY DeviceLists DEF ImportNode, RowsInv
  <1>2. ASSUME NEW n \in rows'
        PROVE  /\ n \in rows \/ (n = next /\ Included(device.nodes[next]))
               /\ n < next + 1 /\ n \in 1 .. Len(device.nodes)
               /\ \E x \in Range(device.nodes[n]) : InBounds(x.tile) /\ routeEnd'[n] = device.tiles[x.tile].at
    <2>1. CASE ~Included(device.nodes[next])
      <3>1. rows' = rows /\ routeEnd' = routeEnd
        BY <2>1 DEF ImportNode
      <3>2. n < next /\ next \in Nat /\ n \in Nat
        BY <1>1, <3>1, DeviceLists DEF RowsInv
      <3> QED BY <3>1, <3>2 DEF RowsInv
    <2>2. CASE Included(device.nodes[next])
      <3>1. /\ rows' = rows \cup {next}
            /\ routeEnd'[n] = IF n = next THEN device.tiles[MetadataWire(device.nodes[next]).tile].at ELSE routeEnd[n]
        BY <2>2 DEF ImportNode
      <3>2. CASE n = next
        BY <1>1, <2>2, <3>1, <3>2, MetadataInside, DeviceLists DEF RowsInv
      <3>3. CASE n # next
        <4>1. n \in rows /\ n < next /\ next \in Nat /\ n \in Nat
          BY <1>1, <3>1, <3>3, DeviceLists DEF RowsInv
        <4> QED BY <3>1, <3>3, <4>1 DEF RowsInv
      <3> QED BY <3>2, <3>3
    <2> QED BY <2>1, <2>2
  <1>3. tileWires' = UNION {WiresOf(n) : n \in rows'}
    <2>1. CASE ~Included(device.nodes[next])
      BY <2>1 DEF ImportNode, RowsInv
    <2>2. CASE Included(device.nodes[next])
      <3>1. rows' = rows \cup {next} /\ tileWires' = tileWires \cup WiresOf(next)
        BY <2>2 DEF ImportNode, WiresOf
      <3> QED BY <3>1 DEF RowsInv
    <2> QED BY <2>1, <2>2
  <1>4. \A t : InBounds(t)' = InBounds(t)
    BY <1>1 DEF InBounds
  <1>5. \A n : WiresOf(n)' = WiresOf(n)
    BY <1>1 DEF WiresOf
  <1>6. RowsInv'
    BY <1>1, <1>2, <1>3, <1>4, <1>5 DEF RowsInv
  <1>7. EntriesInv' /\ EdgesInv'
    BY <1>1 DEF EntriesInv, EdgesInv
  <1> QED BY <1>6, <1>7

\* Once the nodes are read nothing of this moves any more.
LEMMA RowsStay ==
  ASSUME RowsInv, UNCHANGED <<device, cut, rows, tileWires, routeEnd>>, phase # "deviceNodes", phase' # "deviceNodes"
  PROVE  /\ RowsInv'
         /\ \A t : InBounds(t)' = InBounds(t) /\ EntriesAt(t)' = EntriesAt(t)
  <1>1. \A t : InBounds(t)' = InBounds(t)
    BY DEF InBounds
  <1>2. \A n : WiresOf(n)' = WiresOf(n)
    BY DEF WiresOf
  <1>3. \A t, p : EntriesOf(t, p)' = EntriesOf(t, p)
    BY DEF EntriesOf, WireNode
  <1>4. \A t : EntriesAt(t)' = EntriesAt(t)
    BY <1>3 DEF EntriesAt
  <1> QED BY <1>1, <1>2, <1>4 DEF RowsInv

LEMMA NodesDoneKeeps ==
  ASSUME RowsInv, EntriesInv, NodesDone, phase' # "noGraph"
  PROVE  RowsInv' /\ EntriesInv' /\ EdgesInv'
  <1>1. phase = "deviceNodes" /\ phase' = "devicePips" /\ next' = 1 /\ UNCHANGED graph /\ NodesUsable
    BY DEF NodesDone
  <1>2. \A t : InBounds(t)' = InBounds(t)
    BY <1>1 DEF InBounds, graph
  <1>3. \A n : WiresOf(n)' = WiresOf(n)
    BY <1>1 DEF WiresOf, graph
  <1>4. RowsInv'
    BY <1>1, <1>2, <1>3 DEF RowsInv, graph, NodesUsable
  <1>5. EntriesInv'
    <2>1. entries' = <<>> /\ Range(<<>>) = {} /\ 1 .. 1 - 1 = {}
      BY <1>1 DEF EntriesInv, graph, Range
    <2>2. next' \in 1 .. Len(device'.tiles) + 1
      BY <1>1, DeviceLists DEF RowsInv, graph
    <2>3. entries' \in Seq(Range(entries')) /\ Range(entries') = {}
      BY <2>1
    <2>4. {k \in 1 .. next' - 1 : InBounds(k)'} = {}
      BY <1>1, <2>1
    <2> QED BY <1>1, <2>2, <2>3, <2>4 DEF EntriesInv
  <1>6. EdgesInv'
    BY <1>1 DEF EdgesInv
  <1> QED BY <1>4, <1>5, <1>6

LEMMA ExpandPipsKeeps ==
  ASSUME RowsInv, EntriesInv, ExpandPips
  PROVE  RowsInv' /\ EntriesInv' /\ EdgesInv'
  <1>1. /\ phase = "devicePips" /\ phase' = "devicePips" /\ next' = next + 1
        /\ next <= Len(device.tiles)
        /\ UNCHANGED <<device, cut, rows, tileWires, routeEnd, edges>>
    BY DEF ExpandPips
  <1>2. RowsInv' /\ \A t : InBounds(t)' = InBounds(t) /\ EntriesAt(t)' = EntriesAt(t)
    BY <1>1, RowsStay
  <1>3. /\ next \in 1 .. Len(device.tiles) + 1 /\ Len(device.tiles) \in Nat
        /\ entries \in Seq(Range(entries))
        /\ Range(entries) = UNION {EntriesAt(t) : t \in {k \in 1 .. next - 1 : InBounds(k)}}
    BY <1>1, DeviceLists DEF EntriesInv, RowsInv
  <1>4. next \in 1 .. Len(device.tiles) /\ next' \in 1 .. Len(device'.tiles) + 1
    BY <1>1, <1>3
  <1> DEFINE pips == Pips(device, next)
             ss == [i \in 1 .. Len(pips) |-> EntriesOf(next, pips[i])]
             E == Range(entries) \cup EntriesAt(next)
  <1>5. entries' = IF InBounds(next) THEN entries \o FlattenSeq(ss) ELSE entries
    BY DEF ExpandPips
  <1>6. Len(pips) \in Nat /\ DOMAIN pips = 1 .. Len(pips)
    BY <1>4, DeviceLists DEF RowsInv
  <1>7. ss \in Seq(Seq(E)) /\ Len(ss) = Len(pips) /\ \A i \in 1 .. Len(pips) : ss[i] = EntriesOf(next, pips[i])
    <2>1. ASSUME NEW i \in 1 .. Len(pips)  PROVE EntriesOf(next, pips[i]) \in Seq(E)
      <3>1. pips[i] \in Range(pips)
        BY <1>6 DEF Range
      <3>2. EntriesOf(next, pips[i]) \in Seq(Range(EntriesOf(next, pips[i])))
        BY EntriesAreList
      <3>3. Range(EntriesOf(next, pips[i])) \subseteq E
        BY <3>1 DEF EntriesAt
      <3> QED BY <3>2, <3>3
    <2> QED BY <1>6, <2>1
  <1>8. FlattenSeq(ss) \in Seq(E) /\ Range(FlattenSeq(ss)) = EntriesAt(next)
    <2>1. FlattenSeq(ss) \in Seq(E) /\ Range(FlattenSeq(ss)) = UNION {Range(ss[i]) : i \in 1 .. Len(ss)}
      BY <1>7, FlattenRange
    <2>2. UNION {Range(ss[i]) : i \in 1 .. Len(ss)} = EntriesAt(next)
      <3> HIDE DEF ss, pips
      <3>1. Range(pips) = {pips[i] : i \in 1 .. Len(pips)}
        BY <1>6 DEF Range
      <3>2. EntriesAt(next) = UNION {Range(EntriesOf(next, p)) : p \in Range(pips)}
        BY DEF EntriesAt, pips
      <3> QED BY <1>7, <3>1, <3>2
    <2> QED BY <2>1, <2>2
  <1> HIDE DEF ss, pips
  <1>9. entries \in Seq(E)
    BY <1>3
  <1>10. /\ entries' \in Seq(Range(entries'))
         /\ Range(entries') = IF InBounds(next) THEN Range(entries) \cup EntriesAt(next) ELSE Range(entries)
    <2>1. CASE InBounds(next)
      <3>1. entries' \in Seq(E) /\ Range(entries') = Range(entries) \cup EntriesAt(next)
        BY <1>5, <1>8, <1>9, <2>1, ConcatRange
      <3> QED BY <2>1, <3>1
    <2>2. CASE ~InBounds(next)
      BY <1>3, <1>5, <2>2
    <2> QED BY <2>1, <2>2
  <1> HIDE DEF E
  <1>11. UNION {EntriesAt(t) : t \in {k \in 1 .. next' - 1 : InBounds(k)}} = Range(entries')
    <2>1. {k \in 1 .. next' - 1 : InBounds(k)}
          = {k \in 1 .. next - 1 : InBounds(k)} \cup (IF InBounds(next) THEN {next} ELSE {})
      <3>1. 1 .. next' - 1 = (1 .. next - 1) \cup {next}
        BY <1>1, <1>4
      <3> QED BY <3>1
    <2> QED BY <1>3, <1>10, <2>1
  <1>12. EntriesInv'
    BY <1>1, <1>2, <1>4, <1>10, <1>11 DEF EntriesInv
  <1>13. EdgesInv'
    BY <1>1 DEF EdgesInv
  <1> QED BY <1>2, <1>12, <1>13

LEMMA CompactKeeps ==
  ASSUME RowsInv, EntriesInv, Compact
  PROVE  RowsInv' /\ EntriesInv' /\ EdgesInv'
  <1>1. /\ phase = "devicePips" /\ phase' = "deviceSites" /\ next > Len(device.tiles)
        /\ edges' = Unique(entries)
        /\ UNCHANGED <<device, cut, rows, tileWires, routeEnd>>
    BY DEF Compact
  <1>2. RowsInv' /\ \A t : InBounds(t)' = InBounds(t) /\ EntriesAt(t)' = EntriesAt(t)
    BY <1>1, RowsStay
  <1>3. /\ next \in 1 .. Len(device.tiles) + 1 /\ Len(device.tiles) \in Nat
        /\ entries \in Seq(Range(entries))
        /\ Range(entries) = UNION {EntriesAt(t) : t \in {k \in 1 .. next - 1 : InBounds(k)}}
    BY <1>1, DeviceLists DEF EntriesInv, RowsInv
  <1>4. next - 1 = Len(device.tiles)
    BY <1>1, <1>3
  <1> DEFINE all == UNION {EntriesAt(t) : t \in 1 .. Len(device.tiles)}
             inside == UNION {EntriesAt(t) : t \in {k \in 1 .. Len(device.tiles) : InBounds(k)}}
  <1>5. entries \in Seq(all) /\ Range(entries) = inside
    <2>1. inside \subseteq all
      OBVIOUS
    <2>2. Range(entries) = inside
      BY <1>3, <1>4
    <2> HIDE DEF all, inside
    <2> QED BY <1>3, <2>1, <2>2
  <1>6. all' = all /\ inside' = inside
    BY <1>1, <1>2
  <1>7. EdgesInv'
    <2> HIDE DEF all, inside
    <2>1. \E raw \in Seq(all') : Range(raw) = inside' /\ edges' = Unique(raw)
      BY <1>1, <1>5, <1>6
    <2> QED BY <2>1 DEF EdgesInv, all, inside
  <1>8. EntriesInv'
    BY <1>1 DEF EntriesInv
  <1> QED BY <1>2, <1>7, <1>8

\* Resolving site pins leaves the graph as it is.
LEMMA SitesKeep ==
  ASSUME RowsInv, EntriesInv, EdgesInv, ResolveSites \/ DeviceDone, phase' # "noGraph"
  PROVE  RowsInv' /\ EntriesInv' /\ EdgesInv'
  <1>1. /\ phase = "deviceSites" /\ phase' \in {"deviceSites", "open"}
        /\ UNCHANGED <<device, cut, rows, tileWires, routeEnd, edges>>
    BY DEF ResolveSites, DeviceDone, graph
  <1>2. RowsInv' /\ \A t : InBounds(t)' = InBounds(t) /\ EntriesAt(t)' = EntriesAt(t)
    BY <1>1, RowsStay
  <1> DEFINE all == UNION {EntriesAt(t) : t \in 1 .. Len(device.tiles)}
             inside == UNION {EntriesAt(t) : t \in {k \in 1 .. Len(device.tiles) : InBounds(k)}}
  <1>3. all' = all /\ inside' = inside
    BY <1>1, <1>2
  <1>4. EdgesInv'
    <2>1. \E raw \in Seq(all) : Range(raw) = inside /\ edges = Unique(raw)
      BY <1>1 DEF EdgesInv
    <2> HIDE DEF all, inside
    <2>2. \E raw \in Seq(all') : Range(raw) = inside' /\ edges' = Unique(raw)
      BY <1>1, <1>3, <2>1
    <2> QED BY <2>2 DEF EdgesInv, all, inside
  <1>5. EntriesInv'
    BY <1>1 DEF EntriesInv
  <1> QED BY <1>2, <1>4, <1>5

\* Other actions leave the phases of the device for good.
LEMMA DeviceLeft ==
  ASSUME Next, ~ImportDevice
  PROVE  phase' \notin {"deviceNodes", "devicePips", "deviceSites", "open"}
  <1>1. CASE Import
    BY <1>1 DEF Import, OpenDesign, IndexLogicalNet, LogicalDone, PreserveNet, AddRequest, RefuseNet, MakeCsr,
                RefuseUnsupported, Importing
  <1>2. CASE RouteRequest \/ WriteRoutes \/ RefuseRoutes
    BY <1>2 DEF RouteRequest, WriteRoutes, RefuseRoutes, importVars
  <1>3. CASE Export
    BY <1>3 DEF Export, LoadRoutes, KeepNet, RebuildNet, RefuseExport, FinishExport, Exporting
  <1> QED BY <1>1, <1>2, <1>3 DEF Next

LEMMA GraphStep == GraphInv /\ [Next]_vars => GraphInv'
  <1> SUFFICES ASSUME GraphInv, [Next]_vars, phase' \in {"deviceNodes", "devicePips", "deviceSites", "open"}
               PROVE  RowsInv' /\ EntriesInv' /\ EdgesInv'
    BY DEF GraphInv
  <1>1. CASE ImportDevice
    <2>1. RowsInv /\ EntriesInv /\ EdgesInv
      <3>1. phase \in {"deviceNodes", "devicePips", "deviceSites"}
        BY <1>1 DEF ImportDevice, ImportNode, NodesDone, ExpandPips, Compact, ResolveSites, DeviceDone
      <3> QED BY <3>1 DEF GraphInv
    <2> QED BY <1>1, <2>1, ImportNodeKeeps, NodesDoneKeeps, ExpandPipsKeeps, CompactKeeps, SitesKeep DEF ImportDevice
  <1>2. CASE Next /\ ~ImportDevice
    BY <1>2, DeviceLeft
  <1>3. CASE UNCHANGED vars
    <2>1. UNCHANGED <<device, cut, phase, next, rows, tileWires, routeEnd, entries, edges>>
      BY <1>3 DEF vars, importVars, input, graph
    <2>2. RowsInv /\ EntriesInv /\ EdgesInv
      BY <2>1 DEF GraphInv
    <2>3. /\ \A t : InBounds(t)' = InBounds(t) 
          /\ \A n : WiresOf(n)' = WiresOf(n)
      BY <2>1 DEF InBounds, WiresOf
    <2>4. \A t : EntriesAt(t)' = EntriesAt(t)
      <3>1. \A t, p : EntriesOf(t, p)' = EntriesOf(t, p)
        BY <2>1 DEF EntriesOf, WireNode
      <3> QED BY <2>1, <3>1 DEF EntriesAt
    <2>5. RowsInv'
      BY <2>1, <2>2, <2>3 DEF RowsInv
    <2>6. EntriesInv'
      BY <2>1, <2>2, <2>3, <2>4 DEF EntriesInv
    <2>7. EdgesInv'
      BY <2>1, <2>2, <2>3, <2>4 DEF EdgesInv
    <2> QED BY <2>5, <2>6, <2>7
  <1> QED BY <1>1, <1>2, <1>3

\* For every device and box the importer's graph has an edge between two rows
\* exactly if a PIP inside the box leads from one to the other, a single one, and
\* every row ends inside the box.
THEOREM GraphIsCut == Spec => []GraphOfCut
  <1>1. GraphInv => GraphOfCut
    <2> SUFFICES ASSUME GraphInv, phase = "open"  PROVE GraphOfCut
      BY DEF GraphOfCut, Built
    <2>1. RowsInv /\ EdgesInv /\ phase # "deviceNodes"
      BY DEF GraphInv
    <2> DEFINE tiles == 1 .. Len(device.tiles)
               all == UNION {EntriesAt(t) : t \in tiles}
               inside == UNION {EntriesAt(t) : t \in {k \in tiles : InBounds(k)}}
               Real(t, p, f, u, v) == Realises([tile |-> t, wire0 |-> p.wire0, wire1 |-> p.wire1, forward |-> f], u, v)
    <2>2. PICK raw \in Seq(all) : Range(raw) = inside /\ edges = Unique(raw)
      BY <2>1 DEF EdgesInv
    <2>3. ASSUME NEW e \in inside
          PROVE  /\ e.from \in rows /\ e.to \in rows /\ Realises(e.pip, e.from, e.to)
                 /\ \E t \in tiles : InBounds(t) /\ \E p \in Range(Pips(device, t)), f \in BOOLEAN : Real(t, p, f, e.from, e.to)
      <3>0. PICK t \in tiles : InBounds(t) /\ e \in EntriesAt(t)
        OBVIOUS
      <3>1. PICK p \in Range(Pips(device, t)) : e \in Range(EntriesOf(t, p))
        BY <3>0 DEF EntriesAt
      <3>2. /\ e.from \in rows /\ e.to \in rows /\ Realises(e.pip, e.from, e.to)
            /\ \E f \in BOOLEAN : e.pip = [tile |-> t, wire0 |-> p.wire0, wire1 |-> p.wire1, forward |-> f]
        BY <2>1, <3>1, EntriesAreReal
      <3>3. \E f \in BOOLEAN : Real(t, p, f, e.from, e.to)
        BY <3>2
      <3> QED BY <3>0, <3>2, <3>3
    <2>4. ASSUME NEW t \in tiles, InBounds(t), NEW p \in Range(Pips(device, t)), NEW f \in BOOLEAN, NEW u, NEW v,
                 Real(t, p, f, u, v)
          PROVE  \E e \in inside : e.from = u /\ e.to = v
      <3>1. \E e \in EntriesAt(t) : e.from = u /\ e.to = v
        BY <2>1, <2>4, RealPipsAreEntered
      <3> QED BY <2>4, <3>1
    <2> HIDE DEF all, inside, Real
    <2>5. ASSUME NEW e \in edges  PROVE e.from \in rows /\ e.to \in rows /\ e.from # e.to /\ Realises(e.pip, e.from, e.to)
      BY <2>2, <2>3, KeptIsEntered
    <2>6. ASSUME NEW u \in rows, NEW v \in rows
          PROVE  Cardinality({e \in edges : e.from = u /\ e.to = v}) =
                     IF u # v /\ \E t \in tiles : InBounds(t) /\ \E p \in Range(Pips(device, t)), f \in BOOLEAN : Real(t, p, f, u, v)
                     THEN 1 ELSE 0
      <3> DEFINE between == {e \in edges : e.from = u /\ e.to = v}
                 linked == \E t \in tiles : InBounds(t) /\ \E p \in Range(Pips(device, t)), f \in BOOLEAN : Real(t, p, f, u, v)
      <3> SUFFICES Cardinality(between) = IF u # v /\ linked THEN 1 ELSE 0
        OBVIOUS
      <3>1. linked <=> \E e \in Range(raw) : e.from = u /\ e.to = v
        BY <2>2, <2>3, <2>4
      <3> HIDE DEF linked
      <3>2. CASE u = v
        <4>1. between = {}
          BY <2>5, <3>2
        <4> QED BY <3>2, <4>1, FS_EmptySet
      <3>3. CASE u # v
        <4>1. Cardinality(Between(Unique(raw), u, v)) = IF linked THEN 1 ELSE 0
          BY <3>1, <3>3, LastIsKept
        <4>2. between = Between(Unique(raw), u, v)
          BY <2>2 DEF Between
        <4> QED BY <3>3, <4>1, <4>2
      <3> QED BY <3>2, <3>3
    <2>7. \A n \in rows : \E x \in Range(device.nodes[n]) : InBounds(x.tile) /\ routeEnd[n] = device.tiles[x.tile].at
      BY <2>1 DEF RowsInv
    <2> QED BY <2>5, <2>6, <2>7 DEF GraphOfCut, Real
  <1> QED BY <1>1, GraphInit, GraphStep, PTL DEF Spec

-----------------------------------------------------------------------------
(* The routes of the router are read back. *)

\* A line says of a request what the request says.
LEMMA LineMatches ==
  ASSUME FlowInv, phase \in Routing, NEW r \in Range(routes)
  PROVE  MatchesRequest(r)
  <1>1. PICK q \in Range(requests) : r \in Outcomes(q)
    <2>1. r \in UNION {Outcomes(q) : q \in Range(requests)}
      BY DEF FlowInv, RoutesInv, Range
    <2> QED BY <2>1
  <1>2. PICK tree, reached : r = RouteLine(q, tree, reached)
    BY <1>1 DEF Outcomes
  <1>3. PICK k \in Taken : q = RequestOf(k)
    <2>1. q \in {RequestOf(i) : i \in {k \in Taken : IsRouted(design[k])}}
      BY DEF FlowInv, RequestsInv, Range
    <2> QED BY <2>1
  <1>4. design[k].stubs \in Seq(Range(design[k].stubs))
    <2>1. design \in Designs /\ phase \notin OnDevice \cup {"open", "logical", "nets", "refused"}
      BY DEF FlowInv, FlowType, OnDevice, Routing
    <2>2. k \in 1 .. Len(design)
      BY <2>1 DEF Taken
    <2>3. design[k] \in Range(design)
      BY <2>1, <2>2, Sequences DEF Range
    <2> QED BY <2>1, <2>3, DesignAssumption
  <1> DEFINE stubs == design[k].stubs
             n == Len(stubs)
  <1>5. q.sinks = [i \in 1 .. n |-> Endpoint(stubs[i])] /\ Len(q.sinks) = n
    <2>1. q.sinks = [i \in 1 .. n |-> Endpoint(stubs[i])]
      BY <1>3 DEF RequestOf, SinksOf
    <2>2. n \in Nat
      BY <1>4
    <2> HIDE DEF stubs, n
    <2> QED BY <2>1, <2>2
  <1>6. r.net = q.net /\ r.sources = q.sources
        /\ DOMAIN r.sinks = 1 .. n
        /\ \A i \in 1 .. n : r.sinks[i].node = q.sinks[i].node /\ r.sinks[i].pin = q.sinks[i].pin
    BY <1>2, <1>5 DEF RouteLine
  <1> HIDE DEF n, stubs
  <1>7. ASSUME NEW i \in 1 .. n
        PROVE  [node |-> r.sinks[i].node, pin |-> r.sinks[i].pin] = q.sinks[i]
    <2> DEFINE e == q.sinks[i]
    <2>1. q.sinks[i] = [node |-> SitePinNode(stubs[i].pin), pin |-> stubs[i].pin]
      BY <1>5 DEF Endpoint
    <2>2. [node |-> q.sinks[i].node, pin |-> q.sinks[i].pin] = q.sinks[i]
      BY <2>1
    <2> QED BY <1>6, <2>2
  <1>8. [i \in DOMAIN r.sinks |-> [node |-> r.sinks[i].node, pin |-> r.sinks[i].pin]] = q.sinks
    <2>1. DOMAIN r.sinks = 1 .. n /\ DOMAIN q.sinks = 1 .. n
      BY <1>5, <1>6
    <2> QED BY <1>5, <1>7, <2>1
  <1> QED BY <1>6, <1>8 DEF MatchesRequest

\* What is known of the routes file when it is read.
LoadInv ==
    /\ phase = "load" => routes # <<>> \/ requests = <<>>
    /\ RoutesAccepted

LEMMA LoadStep == FlowInv /\ LoadInv /\ [Next]_vars => LoadInv'
  <1> SUFFICES ASSUME FlowInv, LoadInv, [Next]_vars  PROVE LoadInv'
    OBVIOUS
  <1> USE DEF LoadInv, RoutesAccepted
  <1>1. CASE WriteRoutes
    BY <1>1 DEF WriteRoutes, LimitReached, exportVars
  <1>2. CASE LoadRoutes
    <2>1. phase = "load" /\ UNCHANGED <<requests, routes>> /\ phase' # "load"
      BY <1>2 DEF LoadRoutes
    <2>2. \A r \in Range(routes) : MatchesRequest(r)
      BY <2>1, LineMatches DEF Routing
    <2>3. phase' = "notLoaded" => requests = <<>>
      BY <1>2, <2>1, <2>2 DEF LoadRoutes
    <2> QED BY <2>1, <2>3
  <1>3. CASE UNCHANGED vars
    BY <1>3 DEF vars, importVars, exportVars
  <1>4. CASE Next /\ ~WriteRoutes /\ ~LoadRoutes
    <2>1. phase' \notin {"load", "notLoaded"}
      <3>1. CASE ImportDevice
        BY <3>1, DevicePhases DEF OnDevice
      <3>2. CASE Import
        BY <3>2 DEF Import, OpenDesign, IndexLogicalNet, LogicalDone, PreserveNet, AddRequest, RefuseNet, MakeCsr,
                    RefuseUnsupported, Importing
      <3>3. CASE RouteRequest \/ RefuseRoutes
        BY <3>3 DEF RouteRequest, RefuseRoutes, importVars
      <3>4. CASE KeepNet \/ RebuildNet \/ RefuseExport \/ FinishExport
        BY <3>4 DEF KeepNet, RebuildNet, RefuseExport, FinishExport, Exporting
      <3> QED BY <1>4, <3>1, <3>2, <3>3, <3>4 DEF Next, Export
    <2> QED BY <2>1
  <1> QED BY <1>1, <1>2, <1>3, <1>4

\* Whatever the router writes for an import, routes_to_phys recognises as routes
\* of that import.
THEOREM RoutesAreAccepted == Spec => []RoutesAccepted
  <1>1. Init => LoadInv
    BY DEF Init, DeviceInit, LoadInv, RoutesAccepted
  <1>2. LoadInv => RoutesAccepted
    BY DEF LoadInv
  <1> QED BY <1>1, <1>2, FlowInvariant, LoadStep, PTL DEF Spec
===============================================================================
