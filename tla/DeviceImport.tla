----------------------------- MODULE DeviceImport -----------------------------
(***************************************************************************)
(* device_to_routing_graph: the rows, edges and site pins of a routing     *)
(* graph are picked from a device and a box of tiles.  A row is named by   *)
(* its device node; a tile by its place in the device's list.              *)
(*                                                                         *)
(* A device: [tiles, types, siteTypes, nodes], with                        *)
(*   tiles      sequence of [type, at, sites], at = <<>> without XY in the *)
(*              tile's name, sites a sequence of [site, type]              *)
(*   types      tile type -> [pips, siteTypes], pips a sequence of         *)
(*              [wire0, wire1, directional, conventional], siteTypes of    *)
(*              [primary, wires, parents]: the wire of each primary pin,   *)
(*              and per alternate type the primary pin of each of its pins *)
(*   siteTypes  site type -> [pins, alternates]                            *)
(*   nodes      sequence of sequences of [tile, wire]                      *)
(***************************************************************************)
EXTENDS Integers, SequencesExt, FiniteSetsExt

CONSTANTS
    Devices,
    Cuts,       \* what is imported: [min, max, mode], corners of the box
    MaxCoord,   \* the largest coordinate a box can have
    NoNode

\* The PIPs of a tile.
Pips(d, t) == d.types[d.tiles[t].type].pips

\* The lists of a device are sequences and its flags Boolean.
ASSUME DeviceAssumption ==
    /\ NoNode \notin Nat \ {0}
    /\ \A c \in Cuts : c.mode \in {"poc-base-wire", "fully-contained", "intersects"}
    /\ \A d \in Devices :
          /\ d.nodes \in Seq(Range(d.nodes)) /\ d.tiles \in Seq(Range(d.tiles))
          /\ \A n \in 1 .. Len(d.nodes) : d.nodes[n] \in Seq(Range(d.nodes[n]))
          /\ \A t \in 1 .. Len(d.tiles) :
                /\ Pips(d, t) \in Seq(Range(Pips(d, t)))
                /\ \A p \in Range(Pips(d, t)) : p.directional \in BOOLEAN /\ p.conventional \in BOOLEAN

VARIABLES
    device, cut,    \* the input
    phase, next,    \* the loop the flow is in, and its index
    rows,           \* nodes imported
    tileWires,      \* tile_wire_nodes: set of [tile, wire, node]
    routeEnd,       \* node_route_end_x, node_route_end_y
    entries,        \* raw edges [from, to, pip]
    edges,          \* the edges left
    sitePins        \* site_pin_nodes: set of [site, type, pin, node]

graph == <<device, cut, rows, tileWires, routeEnd, entries, edges, sitePins>>

\* is_full_device_graph
fullDevice == cut.min = <<0, 0>> /\ cut.max = <<MaxCoord, MaxCoord>>

DeviceInit ==
    /\ device \in Devices /\ cut \in Cuts
    /\ phase = "deviceNodes" /\ next = 1
    /\ rows = {} /\ tileWires = {} /\ routeEnd = <<>> /\ entries = <<>>
    /\ edges = {} /\ sitePins = {}
-----------------------------------------------------------------------------
InBounds(t) ==
    LET at == device.tiles[t].at IN
    at # <<>> /\ \A i \in 1 .. 2 : cut.min[i] <= at[i] /\ at[i] <= cut.max[i]

Inside(wires) == {i \in 1 .. Len(wires) : InBounds(wires[i].tile)}

Included(wires) ==
    /\ wires # <<>>
    /\ CASE cut.mode = "poc-base-wire"   -> 1 \in Inside(wires)
         [] cut.mode = "fully-contained" -> Inside(wires) = 1 .. Len(wires)
         [] cut.mode = "intersects"      -> Inside(wires) # {}

\* Mutant of MetadataWire: the base wire, whether or not it is inside.
BaseWire(wires) == wires[1]

\* The wire that gives a node its coordinates.
MetadataWire(wires) == IF cut.mode = "poc-base-wire" THEN wires[1] ELSE wires[Min(Inside(wires))]

ImportNode ==
    /\ phase = "deviceNodes" /\ next <= Len(device.nodes)
    /\ LET wires == device.nodes[next] IN
       IF Included(wires)
       THEN /\ rows' = rows \cup {next}
            /\ tileWires' = tileWires \cup {[tile |-> w.tile, wire |-> w.wire, node |-> next] : w \in Range(wires)}
            /\ routeEnd' = [n \in rows' |-> IF n = next THEN device.tiles[MetadataWire(wires).tile].at
                                           ELSE routeEnd[n]]
       ELSE UNCHANGED <<rows, tileWires, routeEnd>>
    /\ next' = next + 1
    /\ UNCHANGED <<device, cut, phase, entries, edges, sitePins>>

\* A wire in two nodes is an error, and so is a graph without rows.
NodesUsable ==
    rows # {} /\ \A a, b \in tileWires : a.tile = b.tile /\ a.wire = b.wire => a = b

NodesDone ==
    /\ phase = "deviceNodes" /\ next > Len(device.nodes)
    /\ phase' = IF NodesUsable THEN "devicePips" ELSE "noGraph"
    /\ next' = 1
    /\ UNCHANGED graph
-----------------------------------------------------------------------------
\* find_tile_wire_node
WireNode(t, w) ==
    LET found == {r \in tileWires : r.tile = t /\ r.wire = w}
    IN  IF found = {} THEN NoNode ELSE (CHOOSE r \in found : TRUE).node

\* for_each_edge, for one PIP of a tile: pseudo PIPs are left out, and so are
\* PIPs at a wire that is not imported.
EntriesOf(t, p) ==
    LET u == WireNode(t, p.wire0)
        v == WireNode(t, p.wire1)
        data(forward) == [tile |-> t, wire0 |-> p.wire0, wire1 |-> p.wire1, forward |-> forward]
    IN  IF ~p.conventional \/ NoNode \in {u, v} THEN <<>>
        ELSE <<[from |-> u, to |-> v, pip |-> data(TRUE)]>>
             \o (IF p.directional THEN <<>> ELSE <<[from |-> v, to |-> u, pip |-> data(FALSE)]>>)

ExpandPips ==
    /\ phase = "devicePips" /\ next <= Len(device.tiles)
    /\ LET pips == Pips(device, next) IN
       entries' = IF InBounds(next)
                  THEN entries \o FlattenSeq([i \in 1 .. Len(pips) |-> EntriesOf(next, pips[i])])
                  ELSE entries
    /\ next' = next + 1
    /\ UNCHANGED <<device, cut, phase, rows, tileWires, routeEnd, edges, sitePins>>

\* sort_and_deduplicate_static_csr keeps the last of parallel edges; an edge from
\* a node to itself was never entered.
Unique(raw) ==
    {raw[i] : i \in {k \in 1 .. Len(raw) :
        /\ raw[k].from # raw[k].to
        /\ \A j \in k + 1 .. Len(raw) : <<raw[j].from, raw[j].to>> # <<raw[k].from, raw[k].to>>}}

Compact ==
    /\ phase = "devicePips" /\ next > Len(device.tiles)
    /\ edges' = Unique(entries) /\ entries' = <<>>
    /\ phase' = "deviceSites" /\ next' = 1
    /\ UNCHANGED <<device, cut, rows, tileWires, routeEnd, sitePins>>
-----------------------------------------------------------------------------
\* build_site_pin_templates: a pin of an alternate type is a primary pin first.
Templates(s) ==
    LET primary == device.siteTypes[s.primary] IN
    {[type |-> s.primary, pin |-> primary.pins[i], wire |-> s.wires[i]] : i \in DOMAIN primary.pins}
    \cup UNION {{[type |-> primary.alternates[k],
                  pin |-> device.siteTypes[primary.alternates[k]].pins[i],
                  wire |-> s.wires[s.parents[k][i]]] :
                    i \in DOMAIN device.siteTypes[primary.alternates[k]].pins} :
                k \in DOMAIN primary.alternates}

\* The pins of a site of tile t that are on rows.
PinsOf(t, site) ==
    LET templates == Templates(device.types[device.tiles[t].type].siteTypes[site.type]) IN
    {r \in {[site |-> site.site, type |-> k.type, pin |-> k.pin, node |-> WireNode(t, k.wire)] :
               k \in templates} : r.node # NoNode}

ResolveSites ==
    /\ phase = "deviceSites" /\ next <= Len(device.tiles)
    /\ sitePins' = IF InBounds(next)
                   THEN sitePins \cup UNION {PinsOf(next, s) : s \in Range(device.tiles[next].sites)}
                   ELSE sitePins
    /\ next' = next + 1
    /\ UNCHANGED <<device, cut, phase, rows, tileWires, routeEnd, entries, edges>>

\* sort_and_deduplicate_site_pin_lookups; then the file is put in place.
DeviceDone ==
    /\ phase = "deviceSites" /\ next > Len(device.tiles)
    /\ phase' = IF \A a, b \in sitePins :
                       a.site = b.site /\ a.type = b.type /\ a.pin = b.pin => a = b
                THEN "open" ELSE "noGraph"
    /\ next' = 1
    /\ UNCHANGED graph

ImportDevice == ImportNode \/ NodesDone \/ ExpandPips \/ Compact \/ ResolveSites \/ DeviceDone
-----------------------------------------------------------------------------
(* What the device says of the rows. *)

\* The rows a wire belongs to.  (It may belong to another node that is cut away.)
NodesWith(t, w) == {n \in rows : \E x \in Range(device.nodes[n]) : x.tile = t /\ x.wire = w}

\* A PIP of the device, as a route may use it, leads from u to v.
Realises(pip, u, v) ==
    /\ \E p \in Range(Pips(device, pip.tile)) :
          /\ p.conventional /\ p.wire0 = pip.wire0 /\ p.wire1 = pip.wire1
          /\ pip.forward \/ ~p.directional
    /\ NodesWith(pip.tile, pip.wire0) = (IF pip.forward THEN {u} ELSE {v})
    /\ NodesWith(pip.tile, pip.wire1) = (IF pip.forward THEN {v} ELSE {u})

\* Nothing changes the graph from here on.
Built == phase = "open"

\* The graph of a cut is what the device has between the rows, in the tiles of
\* the box: one edge where there are PIPs one may use from row to row, carrying
\* one of them, and no other edge.  The point where a row's route ends, which
\* the router bounds its queries by, lies inside the box even where a node
\* reaches out of it.
GraphOfCut ==
    Built =>
        /\ \A e \in edges : e.from \in rows /\ e.to \in rows /\ Realises(e.pip, e.from, e.to)
        /\ \A u, v \in rows :
              Cardinality({e \in edges : e.from = u /\ e.to = v}) =
                  IF u # v /\ \E t \in 1 .. Len(device.tiles) :
                        /\ InBounds(t)
                        /\ \E p \in Range(Pips(device, t)), f \in BOOLEAN :
                              Realises([tile |-> t, wire0 |-> p.wire0, wire1 |-> p.wire1,
                                        forward |-> f], u, v)
                  THEN 1 ELSE 0
        /\ \A n \in rows :
              \E w \in Range(device.nodes[n]) :
                  InBounds(w.tile) /\ routeEnd[n] = device.tiles[w.tile].at
===============================================================================
