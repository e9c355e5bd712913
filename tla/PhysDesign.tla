------------------------------ MODULE PhysDesign ------------------------------
(***************************************************************************)
(* A placed design on a device: physical nets as forests of branches, and  *)
(* how site pins and wires of a netlist become nodes of the routing graph. *)
(* A pin is <<site, name>>, a wire <<tile, name>>, and a PIP what the graph *)
(* of the device keeps of one.                                             *)
(***************************************************************************)
EXTENDS DeviceImport

CONSTANTS
    ActiveType,     \* site type in use at a site, or NoType
    PairedPin,      \* paired_static_slice_output_pin of a pin, or the pin itself
    NoType,
    MaxBranches     \* no forest has more branches

\* A branch: a segment and the branches below it.  BelBranch stands for every
\* segment inside a site.
PinBranch(p, below)    == [kind |-> "pin", pin |-> p, below |-> below]
PipBranch(x, below)    == [kind |-> "pip", pip |-> x, below |-> below]
BelBranch(below)       == [kind |-> "bel", below |-> below]

\* The branches of a forest as a walk with a stack meets them: parents before
\* children, and of the siblings the first or the last one first.
Walk(forest, lastFirst) ==
    LET onTop(listed) == IF lastFirst THEN Reverse(listed) ELSE listed
        after[k \in 0 .. MaxBranches] ==
            IF k = 0 THEN [met |-> <<>>, stack |-> onTop(forest)]
            ELSE LET w == after[k - 1] IN
                 IF w.stack = <<>> THEN w
                 ELSE [met |-> Append(w.met, Head(w.stack)),
                       stack |-> onTop(Head(w.stack).below) \o Tail(w.stack)]
    IN  after[MaxBranches].met

\* All branches, siblings as they are listed.
Branches(forest) == Walk(forest, FALSE)

OfKind(k, forest) == LET isKind(b) == b.kind = k IN SelectSeq(Branches(forest), isKind)

\* The pins of the importer's walk, which meets what is listed last first.
LastFirst(forest) == LET isPin(b) == b.kind = "pin" IN SelectSeq(Walk(forest, TRUE), isPin)
-----------------------------------------------------------------------------
\* find_site_pin_candidates
Candidates(p) == {r.node : r \in {s \in sitePins : <<s.site, s.pin>> = p}}

\* find_site_pin_node: without a type, only what all types agree on.
SitePinNode(p) ==
    LET nodes == IF ActiveType[p[1]] = NoType THEN Candidates(p)
                 ELSE {r.node : r \in {s \in sitePins : <<s.site, s.pin>> = p /\ s.type = ActiveType[p[1]]}}
    IN  IF Cardinality(nodes) = 1 THEN CHOOSE n \in nodes : TRUE ELSE NoNode

\* What preserve_fixed_site_pin blocks: every candidate of an untyped pin.
FixedPinNodes(p) ==
    IF SitePinNode(p) # NoNode THEN {SitePinNode(p)}
    ELSE IF ActiveType[p[1]] = NoType THEN Candidates(p) ELSE {}
-----------------------------------------------------------------------------
(* Physical nets: [name, signal, sources, stubs, stubNodes], the last a set of wires. *)

\* RapidWright's name for a net that only stands for occupied resources.
UsedNet == "GLOBAL_USEDNET"

StubsAreSitePins(net) == \A i \in 1 .. Len(net.stubs) : net.stubs[i].kind = "pin"

HasRouting(net) == OfKind("pip", net.sources \o net.stubs) # <<>> \/ net.stubNodes # {}

\* classify_physical_net, and before it the test for the reserved net.
Disposition(net) ==
    LET pins == OfKind("pin", net.sources) IN
    IF ~net.signal \/ net.name = UsedNet \/ net.stubs = <<>> THEN "preserve"
    ELSE IF net.sources = <<>> THEN "driverless"
    ELSE IF pins = <<>> \/ (\E i \in 1 .. Len(pins) : pins[i].below # <<>>) THEN "unsupportedShape"
    ELSE IF HasRouting(net) THEN "unsupportedPartial"
    ELSE IF ~StubsAreSitePins(net) THEN "unsupportedShape"
    ELSE "route"

\* The pins and wires of a net that is preserved.
FixedPins(net) ==
    LET pins == {b.pin : b \in Range(OfKind("pin", net.sources \o net.stubs))}
    IN  pins \cup (IF net.signal THEN {} ELSE {PairedPin[p] : p \in pins})

FixedWires(net) ==
    net.stubNodes \cup UNION {{<<b.pip.tile, b.pip.wire0>>, <<b.pip.tile, b.pip.wire1>>} :
                                  b \in Range(OfKind("pip", net.sources \o net.stubs))}

FixedWireNodes(net) == {WireNode(w[1], w[2]) : w \in FixedWires(net)}

FixedNodes(net) == (FixedWireNodes(net) \ {NoNode}) \cup UNION {FixedPinNodes(p) : p \in FixedPins(net)}

UnresolvedFixed(net) == NoNode \in FixedWireNodes(net) \/ \E p \in FixedPins(net) : FixedPinNodes(p) = {}

\* Endpoints of a route request, in the order of its pins: sources as the walk
\* meets them, sinks as the stubs are listed.
Endpoint(b) == [node |-> SitePinNode(b.pin), pin |-> b.pin]
SourcesOf(net) == LET pins == LastFirst(net.sources)
                  IN  [i \in 1 .. Len(pins) |-> Endpoint(pins[i])]
SinksOf(net) == [i \in 1 .. Len(net.stubs) |-> Endpoint(net.stubs[i])]

NodesOf(endpoints) == {e.node : e \in Range(endpoints)} \ {NoNode}
===============================================================================
