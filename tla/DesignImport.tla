----------------------------- MODULE DesignImport -----------------------------
(***************************************************************************)
(* interchange_to_csr: the nets of a design are imported one after the     *)
(* other.  A net that can be routed becomes a route request and claims the *)
(* nodes of its pins; every other net is preserved and blocks the nodes it *)
(* uses.  The device graph is then filtered by what was claimed and        *)
(* blocked.  An exception ends the conversion, and nothing is written.     *)
(***************************************************************************)
EXTENDS PhysDesign

CONSTANTS
    Designs,        \* designs to import: sequences of physical nets
    LogicalDesigns  \* sequences of logical net names, cell by cell

\* The lists of a design are sequences.
ASSUME DesignAssumption ==
    /\ \A d \in Designs : d \in Seq(Range(d)) /\ \A n \in Range(d) : n.stubs \in Seq(Range(n.stubs))
    /\ \A l \in LogicalDesigns : l \in Seq(Range(l))

VARIABLES
    design, logical,    \* the input, once opened
    logicalIndex,       \* logical_net_index_by_name, 0 for no entry
    ambiguous,          \* ambiguous_logical_net_names
    owner,              \* endpoint_owners, 0 for none
    blocked,            \* blocked_node
    sinkStops,          \* sink_node_stops
    unavailable,        \* unavailable_destination_nodes
    requests,           \* route_requests
    csr                 \* the filtered graph

input  == <<graph, design, logical>>
lookup == <<logicalIndex, ambiguous>>
masks  == <<owner, blocked, sinkStops, unavailable>>
importVars == <<input, phase, next, lookup, masks, requests, csr>>

Names == (UNION {Range(l) : l \in LogicalDesigns}) \cup {n.name : n \in UNION {Range(d) : d \in Designs}}

ImportInit ==
    /\ design = <<>> /\ logical = <<>>
    /\ logicalIndex = <<>> /\ ambiguous = {}
    /\ owner = <<>> /\ blocked = {} /\ sinkStops = {} /\ unavailable = {}
    /\ requests = <<>> /\ csr = {}

\* The graph is read from its file, and a design is given with it.
OpenDesign ==
    /\ phase = "open"
    /\ design' \in Designs /\ logical' \in LogicalDesigns
    /\ logicalIndex' = [x \in Names |-> 0]
    /\ owner' = [n \in rows |-> 0]
    /\ phase' = "logical"
    /\ UNCHANGED <<next, graph, ambiguous, blocked, sinkStops, unavailable, requests, csr>>
-----------------------------------------------------------------------------
\* Mutant of Indexable: an erased name may be indexed again.
AlwaysIndexable(x) == x \in Names

\* index_unambiguous_logical_net_name: once ambiguous, always ambiguous.
Indexable(x) == x \notin ambiguous

IndexLogicalNet ==
    /\ phase = "logical" /\ next <= Len(logical)
    /\ LET x == logical[next]
           first == logicalIndex[x] = 0
       IN  IF Indexable(x)
           THEN /\ logicalIndex' = [logicalIndex EXCEPT ![x] = IF first THEN next ELSE 0]
                /\ ambiguous' = IF first THEN ambiguous ELSE ambiguous \cup {x}
           ELSE UNCHANGED lookup
    /\ next' = next + 1
    /\ UNCHANGED <<input, phase, masks, requests, csr>>

LogicalDone ==
    /\ phase = "logical" /\ next > Len(logical)
    /\ phase' = "nets" /\ next' = 1
    /\ UNCHANGED <<input, lookup, masks, requests, csr>>
-----------------------------------------------------------------------------
Net == design[next]
Importing == phase = "nets" /\ next <= Len(design)

\* claim_unique_physical_net_name
DuplicateName == \E i \in 1 .. next - 1 : design[i].name = Net.name

\* Mutant of Unowned: preserve_unowned_node without its look at the owners.
UnownedAlways(nodes) == nodes \subseteq rows

\* A preserved net may not use an endpoint of a net that is to be routed.
Unowned(nodes) == \A n \in nodes : owner[n] = 0

CanPreserve == Unowned(FixedNodes(Net)) /\ ~(fullDevice /\ UnresolvedFixed(Net))

PreserveNet ==
    /\ Importing /\ ~DuplicateName /\ Disposition(Net) # "route" /\ CanPreserve
    /\ blocked' = blocked \cup FixedNodes(Net)
    /\ next' = next + 1
    /\ UNCHANGED <<input, phase, lookup, owner, sinkStops, unavailable, requests, csr>>

SourceNodes == NodesOf(SourcesOf(Net))
SinkNodes   == NodesOf(SinksOf(Net))

\* claim_endpoint: free, or claimed by another pin of the same net.
Claimable(n) == n \notin blocked /\ owner[n] \in {0, next}

\* Without a source the sinks are blocked as they are claimed, so that a second
\* sink pin on the same node finds it blocked.
ClaimedTwice ==
    /\ SourceNodes = {}
    /\ \E i, j \in 1 .. Len(Net.stubs) :
          i < j /\ SinksOf(Net)[i].node = SinksOf(Net)[j].node /\ SinksOf(Net)[i].node # NoNode

CanRequest ==
    /\ \A n \in SourceNodes \cup SinkNodes : Claimable(n)
    /\ ~ClaimedTwice
    /\ fullDevice => \A e \in Range(SourcesOf(Net)) \cup Range(SinksOf(Net)) : e.node # NoNode

\* Mutant of NewStops: a sink may be passed through.
NoStops == {}

\* sink_requires_terminal_row: a sink that is a source too still drives its net.
NewStops == SinkNodes \ SourceNodes

AddRequest ==
    /\ Importing /\ ~DuplicateName /\ Disposition(Net) = "route" /\ CanRequest
    /\ owner' = [n \in rows |-> IF n \in SourceNodes \cup SinkNodes THEN next ELSE owner[n]]
    /\ unavailable' = unavailable \cup SourceNodes
    /\ IF SourceNodes # {} THEN sinkStops' = sinkStops \cup NewStops /\ UNCHANGED blocked
       ELSE blocked' = blocked \cup SinkNodes /\ UNCHANGED sinkStops
    /\ requests' = Append(requests, [net |-> Net.name, logical |-> logicalIndex[Net.name],
                                     sources |-> SourcesOf(Net), sinks |-> SinksOf(Net)])
    /\ next' = next + 1
    /\ UNCHANGED <<input, phase, lookup, csr>>

RefuseNet ==
    /\ Importing
    /\ DuplicateName \/ ~(IF Disposition(Net) = "route" THEN CanRequest ELSE CanPreserve)
    /\ phase' = "refused"
    /\ UNCHANGED <<input, next, lookup, masks, requests, csr>>
-----------------------------------------------------------------------------
HasUnsupported ==
    \E i \in 1 .. Len(design) : Disposition(design[i]) \in {"unsupportedShape", "unsupportedPartial"}

\* Mutant of Filtered: an edge may leave a blocked node.
FilteredByStops(avoid) == {e \in edges : e.from \notin sinkStops /\ e.to \notin avoid}

\* filter_device_routing_graph
Filtered(avoid) == {e \in edges : e.from \notin blocked \cup sinkStops /\ e.to \notin avoid}

\* make_outgoing_csr, unless nets are unsupported and that is not allowed.
MakeCsr ==
    /\ phase = "nets" /\ next > Len(design)
    /\ unavailable' = unavailable \cup blocked
    /\ csr' = Filtered(unavailable')
    /\ phase' = "route"
    /\ UNCHANGED <<input, next, lookup, owner, blocked, sinkStops, requests>>

RefuseUnsupported ==
    /\ phase = "nets" /\ next > Len(design) /\ HasUnsupported
    /\ phase' = "unsupported"
    /\ UNCHANGED <<input, next, lookup, masks, requests, csr>>

Import == \/ OpenDesign \/ IndexLogicalNet \/ LogicalDone \/ PreserveNet \/ AddRequest \/ RefuseNet
          \/ MakeCsr \/ RefuseUnsupported
===============================================================================
