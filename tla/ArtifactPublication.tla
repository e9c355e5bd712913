------------------------- MODULE ArtifactPublication -------------------------
(***************************************************************************)
(* How a conversion publishes its two artifacts, the graph (CSR) and its   *)
(* metadata, to other processes through the file system.  Three staged     *)
(* files are renamed one after the other: the two artifacts, which carry   *)
(* the identity of the conversion, and the generation file, which names it *)
(* again.  Marker directories beside the artifacts are held meanwhile.     *)
(*                                                                         *)
(* Routers and exporters look for markers and sample the generation before *)
(* and after they load, and compare all identities.  Every call to the     *)
(* file system is a step of its own and may fail; a process may stop       *)
(* between any two, and somebody may then remove the markers it left.      *)
(***************************************************************************)
EXTENDS Naturals

CONSTANTS
    Path,           \* paths of artifacts, in the order std::sort puts markers in
    Converter,      \* conversions; each draws an identity of its own
    Router,         \* runs of pathfinder_router that write routes
    Exporter,       \* runs of routes_to_phys
    NoId,           \* no identity: a file without one, or no generation file
    Absent,         \* no file
    Legacy,         \* an artifact written before identities were introduced
    InitialFile,    \* the artifacts in place at first: Absent or Legacy
    Setups          \* who runs on which paths and what may go wrong:
                    \*   csr, meta    the paths each process was given
                    \*   readers      the readers that run
                    \*   faults       bound on failed operations and stopped processes
                    \*   inspections  whether markers left behind are ever removed

Reader  == Router \cup Exporter
Process == Converter \cup Reader
PairId  == Converter \cup {NoId}
Content == Converter \cup {Legacy, Absent}

ASSUME PublicationAssumption ==
    /\ Path \subseteq Nat
    /\ \A s \in Setups :
          /\ s.csr \in [Process -> Path] /\ s.meta \in [Process -> Path]
          /\ s.readers \subseteq Reader /\ s.faults \in Nat /\ s.inspections \in BOOLEAN
          /\ \A x \in Process : s.csr[x] # s.meta[x]   \* require_distinct_interchange_paths
    /\ InitialFile \in {Absent, Legacy}
    /\ Legacy # Absent /\ {NoId, Legacy, Absent} \cap Converter = {}
    /\ Converter \cap Reader = {} /\ Router \cap Exporter = {}

VARIABLES
    setup,      \* chosen once
    file,       \* content of an artifact's path: the conversion that wrote it
    gen,        \* identity in the generation file beside a metadata path
    markers,    \* paths with a .publishing directory
    routes,     \* identity the lines of the routes file carry, or Absent
    faults,
    pc,
    todo,       \* markers a process has still to look at, create or remove
    exposed,    \* a conversion's files that are in place and must be withdrawn
    stuck,      \* conversions that could not withdraw one
    \* a reader's snapshots and what it has loaded
    stage, sampled, snap, csr, meta, out

disk  == <<file, gen, markers, routes>>
local == <<exposed, stuck>>
read  == <<stage, sampled, snap, csr, meta, out>>
vars  == <<setup, disk, faults, pc, todo, local, read>>

CsrOf  == setup.csr
MetaOf == setup.meta

Pair(x) == {CsrOf[x], MetaOf[x]}

Init ==
    /\ setup \in Setups
    /\ file = [p \in Path |-> InitialFile] /\ gen = [p \in Path |-> NoId]
    /\ markers = {} /\ routes = Absent /\ faults = 0
    /\ pc = [x \in Process |-> IF x \in Converter THEN "check" ELSE "look"]
    /\ todo = [x \in Process |-> IF x \in Exporter THEN {MetaOf[x]} ELSE Pair(x)]
    /\ exposed = [w \in Converter |-> {}] /\ stuck = {}
    /\ stage = [r \in Reader |-> "open"]
    /\ sampled = [r \in Reader |-> NoId] /\ snap = [r \in Reader |-> NoId]
    /\ csr = [r \in Reader |-> Absent] /\ meta = [r \in Reader |-> Absent]
    /\ out = [r \in Reader |-> Absent]

Goto(x, l) == pc' = [pc EXCEPT ![x] = l]
MayFail    == faults < setup.faults
Fault      == MayFail /\ faults' = faults + 1

\* The order of the loops that are not sorted.  Mutant of FirstMarker: nor is
\* the loop that takes the markers.
GraphFirst(x) == IF CsrOf[x] \in todo[x] THEN CsrOf[x] ELSE MetaOf[x]

FirstMarker(x) == CHOOSE p \in todo[x] : \A q \in todo[x] : p <= q
-----------------------------------------------------------------------------
(* A conversion. *)

\* A marker found at the start ends the conversion; nothing is held yet.
Check(w) ==
    LET p == GraphFirst(w)
        rest == todo[w] \ {p}
    IN
    /\ pc[w] = "check"
    /\ IF p \in markers THEN Goto(w, "failed") /\ UNCHANGED todo
       ELSE IF rest # {} THEN todo' = [todo EXCEPT ![w] = rest] /\ UNCHANGED pc
       ELSE todo' = [todo EXCEPT ![w] = Pair(w)] /\ Goto(w, "stage")
    /\ UNCHANGED <<disk, faults, local, read>>

\* The conversion proper and its staged files, which nobody else looks at.
Stage(w) ==
    /\ pc[w] = "stage"
    /\ \/ Goto(w, "mark") /\ UNCHANGED faults
       \/ Goto(w, "failed") /\ Fault
    /\ UNCHANGED <<disk, todo, local, read>>

\* Mutant of Taken: creating a directory that exists counts as success.
NeverTaken(p) == p \notin Path

Taken(p) == p \in markers

\* create_directory fails when the directory exists.
Mark(w) ==
    LET p == FirstMarker(w)
        rest == todo[w] \ {p}
    IN
    /\ pc[w] = "mark" /\ ~Taken(p)
    /\ markers' = markers \cup {p}
    /\ todo' = [todo EXCEPT ![w] = rest]
    /\ IF rest = {} THEN Goto(w, "csr") ELSE UNCHANGED pc
    /\ UNCHANGED <<file, gen, routes, faults, local, read>>

\* The catch block after a failure to mark: the markers created so far go.
MarkFails(w) ==
    /\ pc[w] = "mark"
    /\ \/ Taken(FirstMarker(w)) /\ UNCHANGED faults
       \/ Fault
    /\ todo' = [todo EXCEPT ![w] = Pair(w) \ @]
    /\ Goto(w, "undo")
    /\ UNCHANGED <<disk, local, read>>

RenameCsr(w) ==
    /\ pc[w] = "csr"
    /\ file' = [file EXCEPT ![CsrOf[w]] = w]
    /\ exposed' = [exposed EXCEPT ![w] = {CsrOf[w]}]
    /\ Goto(w, "meta")
    /\ UNCHANGED <<gen, markers, routes, faults, todo, stuck, read>>

RenameMetadata(w) ==
    /\ pc[w] = "meta"
    /\ file' = [file EXCEPT ![MetaOf[w]] = w]
    /\ exposed' = [exposed EXCEPT ![w] = Pair(w)]
    /\ Goto(w, "gen")
    /\ UNCHANGED <<gen, markers, routes, faults, todo, stuck, read>>

\* From here on the pair is complete and is not withdrawn any more.
RenameGeneration(w) ==
    /\ pc[w] = "gen"
    /\ gen' = [gen EXCEPT ![MetaOf[w]] = w]
    /\ exposed' = [exposed EXCEPT ![w] = {}]
    /\ todo' = [todo EXCEPT ![w] = Pair(w)]
    /\ Goto(w, "clear")
    /\ UNCHANGED <<file, markers, routes, faults, stuck, read>>

RenameFails(w) ==
    /\ pc[w] \in {"csr", "meta", "gen"} /\ Fault
    /\ todo' = [todo EXCEPT ![w] = Pair(w)]
    /\ Goto(w, "undo")
    /\ UNCHANGED <<disk, local, read>>

\* A marker that cannot be removed, or is gone, ends the conversion; the pair
\* and the markers not yet removed stay.
Clear(w) ==
    LET p == FirstMarker(w)
        rest == todo[w] \ {p}
    IN
    /\ pc[w] = "clear"
    /\ \/ /\ p \in markers /\ markers' = markers \ {p}
          /\ todo' = [todo EXCEPT ![w] = rest]
          /\ IF rest = {} THEN Goto(w, "done") ELSE UNCHANGED pc
          /\ UNCHANGED faults
       \/ /\ (p \notin markers /\ UNCHANGED faults) \/ Fault
          /\ Goto(w, "kept") /\ UNCHANGED <<markers, todo>>
    /\ UNCHANGED <<file, gen, routes, local, read>>

\* Mutant of KeepsMarkers: the markers are cleared whether or not every exposed
\* file could be removed.
AlwaysUnmarks(w) == w \in {}

KeepsMarkers(w) == w \in stuck

\* remove_published, graph first.
Withdraw(w) ==
    LET p == IF CsrOf[w] \in exposed[w] THEN CsrOf[w] ELSE MetaOf[w] IN
    /\ pc[w] = "undo" /\ exposed[w] # {}
    /\ \/ file' = [file EXCEPT ![p] = Absent] /\ UNCHANGED <<faults, stuck>>
       \/ Fault /\ stuck' = stuck \cup {w} /\ UNCHANGED file
    /\ exposed' = [exposed EXCEPT ![w] = @ \ {p}]
    /\ UNCHANGED <<gen, markers, routes, pc, todo, read>>

\* What the removal of a marker returns is ignored here.
Unmark(w) ==
    LET p == FirstMarker(w) IN
    /\ pc[w] = "undo" /\ exposed[w] = {} /\ todo[w] # {} /\ ~KeepsMarkers(w)
    /\ \/ markers' = markers \ {p} /\ UNCHANGED faults
       \/ Fault /\ UNCHANGED markers
    /\ todo' = [todo EXCEPT ![w] = @ \ {p}]
    /\ UNCHANGED <<file, gen, routes, pc, local, read>>

Undone(w) ==
    /\ pc[w] = "undo" /\ exposed[w] = {} /\ (todo[w] = {} \/ KeepsMarkers(w))
    /\ Goto(w, "failed")
    /\ UNCHANGED <<disk, faults, todo, local, read>>

Over == {"done", "kept", "failed", "crashed"}

\* A process stops, or a call outside the try block fails; a complete pair stays.
Crash(w) ==
    /\ pc[w] \notin Over /\ Fault
    /\ Goto(w, IF pc[w] = "clear" THEN "kept" ELSE "crashed")
    /\ UNCHANGED <<disk, todo, local, read>>

Publishing(w) == pc[w] \in {"csr", "meta", "gen"}

\* Whether a running conversion owns the marker beside p.
Owned(p) ==
    \E w \in Converter :
        /\ p \in Pair(w)
        /\ \/ Publishing(w)
           \/ pc[w] = "mark" /\ p \notin todo[w]
           \/ pc[w] \in {"clear", "undo"} /\ p \in todo[w]

\* Somebody inspects a marker nobody owns any more and removes it.
Inspect ==
    /\ setup.inspections
    /\ \E p \in markers : ~Owned(p) /\ markers' = markers \ {p}
    /\ UNCHANGED <<file, gen, routes, faults, pc, todo, local, read>>

Convert(w) == \/ Check(w) \/ Stage(w) \/ Mark(w) \/ MarkFails(w)
              \/ RenameCsr(w) \/ RenameMetadata(w) \/ RenameGeneration(w) \/ RenameFails(w)
              \/ Clear(w) \/ Withdraw(w) \/ Unmark(w) \/ Undone(w) \/ Crash(w)
-----------------------------------------------------------------------------
(* Routers and exporters.  A reader takes snapshots at up to four stages:    *)
(* "open" before it loads, "verify" after, "confirm" once it has routed, and *)
(* "recheck" after it has loaded the metadata again for its output.          *)

IdOf(c) == IF c = Legacy THEN NoId ELSE c

\* Mutant of Match: a file without an identity matches anything.
MatchLoosely(a, b, c) == \A i, j \in {a, b, c} : NoId \in {i, j} \/ i = j

\* require_matching_interchange_pair_ids
Match(a, b, c) == a = b /\ b = c

MarkerPaths(r) == IF r \in Exporter THEN {MetaOf[r]} ELSE Pair(r)

\* require_no_interchange_publication_markers, before and after the generation
\* is read.
Look(r) ==
    LET p == GraphFirst(r)
        rest == todo[r] \ {p}
    IN
    /\ pc[r] \in {"look", "look again"}
    /\ IF p \in markers THEN Goto(r, "failed") /\ UNCHANGED todo
       ELSE IF rest # {} THEN todo' = [todo EXCEPT ![r] = rest] /\ UNCHANGED pc
       ELSE /\ todo' = [todo EXCEPT ![r] = MarkerPaths(r)]
            /\ Goto(r, IF pc[r] = "look" THEN "sample" ELSE "compare")
    /\ UNCHANGED <<disk, faults, local, read>>

Sample(r) ==
    /\ pc[r] = "sample"
    /\ sampled' = [sampled EXCEPT ![r] = gen[MetaOf[r]]]
    /\ snap' = IF stage[r] = "open" THEN [snap EXCEPT ![r] = gen[MetaOf[r]]] ELSE snap
    /\ Goto(r, "look again")
    /\ UNCHANGED <<disk, faults, todo, local, stage, csr, meta, out>>

\* The identity beside the metadata's: of the graph, or of the routes.
Partner(r) == IF r \in Router THEN IdOf(csr[r]) ELSE csr[r]

\* A router keeps the output tables of a pair without identity from the start.
EarlyOutput(r) == r \in Router /\ IdOf(meta[r]) = NoId

\* What must hold when a snapshot is complete.
Passes(r) ==
    /\ sampled[r] = snap[r]
    /\ stage[r] = "verify"  => Match(Partner(r), IdOf(meta[r]), snap[r])
    /\ stage[r] = "recheck" => Match(Partner(r), IdOf(out[r]), snap[r])

\* Where a reader goes from there.
AfterStage(r) ==
    CASE stage[r] = "open"    -> IF r \in Router THEN "load graph" ELSE "load metadata"
      [] stage[r] = "verify"  -> IF EarlyOutput(r) THEN "load output"
                                 ELSE IF r \in Router THEN "route" ELSE "done"
      [] stage[r] = "confirm" -> "load output"
      [] stage[r] = "recheck" -> IF EarlyOutput(r) THEN "route" ELSE "write"

Compare(r) ==
    /\ pc[r] = "compare"
    /\ Goto(r, IF Passes(r) THEN AfterStage(r) ELSE "failed")
    /\ UNCHANGED <<disk, faults, todo, local, read>>

\* A file that is opened is read to its end, whatever is renamed over it.
LoadGraph(r) ==
    /\ pc[r] = "load graph"
    /\ csr' = [csr EXCEPT ![r] = file[CsrOf[r]]]
    /\ Goto(r, IF csr'[r] = Absent THEN "failed" ELSE "load metadata")
    /\ UNCHANGED <<disk, faults, todo, local, stage, sampled, snap, meta, out>>

LoadMetadata(r) ==
    /\ pc[r] = "load metadata"
    /\ meta' = [meta EXCEPT ![r] = file[MetaOf[r]]]
    /\ stage' = [stage EXCEPT ![r] = "verify"]
    /\ Goto(r, IF meta'[r] = Absent THEN "failed" ELSE IF r \in Router THEN "look" ELSE "load routes")
    /\ UNCHANGED <<disk, faults, todo, local, sampled, snap, csr, out>>

\* All lines of a routes file carry one identity, so any of them stands for it.
LoadRoutes(r) ==
    /\ pc[r] = "load routes"
    /\ csr' = [csr EXCEPT ![r] = routes]
    /\ Goto(r, IF routes = Absent THEN "failed" ELSE "look")
    /\ UNCHANGED <<disk, faults, todo, local, stage, sampled, snap, meta, out>>

\* Routing takes long, and may leave sinks unreached.
Route(r) ==
    /\ pc[r] = "route"
    /\ \/ Goto(r, "failed") /\ UNCHANGED stage
       \/ EarlyOutput(r) /\ Goto(r, "write") /\ UNCHANGED stage
       \/ ~EarlyOutput(r) /\ Goto(r, "look") /\ stage' = [stage EXCEPT ![r] = "confirm"]
    /\ UNCHANGED <<disk, faults, todo, local, sampled, snap, csr, meta, out>>

LoadOutput(r) ==
    /\ pc[r] = "load output"
    /\ out' = [out EXCEPT ![r] = file[MetaOf[r]]]
    /\ stage' = [stage EXCEPT ![r] = "recheck"]
    /\ Goto(r, IF out'[r] = Absent THEN "failed" ELSE "look")
    /\ UNCHANGED <<disk, faults, todo, local, sampled, snap, csr, meta>>

WriteRoutes(r) ==
    /\ pc[r] = "write"
    /\ routes' = IdOf(out[r])
    /\ Goto(r, "done")
    /\ UNCHANGED <<file, gen, markers, faults, todo, local, read>>

\* A call to the file system fails.
ReadFails(r) ==
    /\ pc[r] \notin {"done", "failed"} /\ Fault
    /\ Goto(r, "failed")
    /\ UNCHANGED <<disk, todo, local, read>>

Use(r) == \/ ReadFails(r)
          \/ Look(r) \/ Sample(r) \/ Compare(r) \/ LoadGraph(r) \/ LoadMetadata(r)
          \/ LoadRoutes(r) \/ Route(r) \/ LoadOutput(r) \/ WriteRoutes(r)

Next == /\ \/ \E w \in Converter : Convert(w)
           \/ \E r \in setup.readers : Use(r)
           \/ Inspect
        /\ UNCHANGED setup

Spec == Init /\ [][Next]_vars
-----------------------------------------------------------------------------
\* Changing what others may read: from the first rename to the last, or
\* withdrawing.
Touching(w) == Publishing(w) \/ (pc[w] = "undo" /\ exposed[w] # {})

\* Conversions that share a path never change files at the same time, even when
\* markers of stopped conversions are removed by hand: one that withdraws a
\* failed publication can not remove a file that another has just put there.
OnePublisher ==
    \A v, w \in Converter :
        v # w /\ Pair(v) \cap Pair(w) # {} => ~(Touching(v) /\ Touching(w))

\* A file of a conversion that has not published all three stays behind both
\* markers, whatever operation failed and wherever the process stopped, until
\* somebody removes them.
HalfPublishedIsMarked ==
    ~setup.inspections =>
        \A w \in Converter :
            (\E p \in Pair(w) : file[p] = w) /\ pc[w] \notin {"clear", "done", "kept"}
            => Pair(w) \subseteq markers

\* Conversions that contend for markers do not all give up: when every one has
\* ended and no call failed, one has published, and no marker is left.
SomeonePublishes ==
    faults = 0 /\ (\A w \in Converter : pc[w] \in Over)
    => markers = {} /\ \E w \in Converter : pc[w] = "done"
=============================================================================
