# TLA+ models of the router

The program routes the nets of an FPGA design. It imports a device and a placed netlist into a CSR graph and a list of
net requests, asks a GPU shortest-path engine for a cheapest path from each net's sources to its sinks, joins the paths
of a net into a tree and writes the trees back as a physical netlist. Congestion is not negotiated: every net is routed
once, at cheapest cost.

These modules model the parts of it where order, interleaving, reuse of state and failure decide whether the answer is
right. TLC checks them on small instances; TLAPS proves the theorems below for every graph, every number of workers and
nets. Paths are relative to the repository root.

## 1. Inventory

| Part | Source | State | Operations | Modules |
|---|---|---|---|---|
| Routing graph | `bellman_ford/bf11.cpp` (views, weights), `pre-process/routing_csr_sidecars.hpp` | rowptr, to, edge values, base costs, coordinates (immutable) | effective weight of an edge, row of an edge | `CsrGraph` |
| BF11 workspace | `bellman_ford/bf11.cpp`, `bf11.hpp` | per node: packed (distance, predecessor), enqueue mark, source bit, multiplier; touched list; reset flag | `update_vertex_costs`, `run` (reset, seed, rounds, controller, path summary) | `BF11` |
| Delta-Stepping workspace | `delta_stepping/delta_stepping.cpp`, `.hpp` | per node: distance, parent key, three membership flags, multiplier; five queues with tail counters; generation counter | `update_vertex_costs`, `update_values`, `run` (targets / one target), `run_distances` | `DeltaStepping` |
| Cooperative Delta controller | `delta_stepping/delta_stepping_policy.hpp`, `delta_stepping.cpp:2303-3360`, `:4700-4870` | descriptor, sequence numbers, reserved generations | launch a batch, rounds and bucket boundaries on the device, publish, check | `ControllerModel`, `DeltaController`, `ControllerRefinement` |
| Worker pool | `routing/pathfinder.cpp:1257-1420` | next net, completed, abort flag, first exception, progress | claim, route, count, report, join, rethrow | `RouteWorkers` |
| One net | `routing/pathfinder.cpp:310-960`, `route_policy.hpp` | scratch: stamps, tree, parents; routed net; occupancy | `route_net`, `commit_net_occupancy` | `RouteNet`, `CheapestPaths` |
| Query bounds | `routing/bounds.hpp` | none | derive a box, admit a node | `RouteBounds` |
| Policies | `bf11_worker_policy.hpp`, `sssp_query_capacity.hpp`, `delta_stepping_auto_delta.hpp` | none | worker count, capacities, bucket width | not modelled |
| Artifact publication | `pre-process/interchange_to_csr.cpp:1587-1911`, `import_policy.hpp:298-456`, `routing/pathfinder.cpp:2892-3017`, `post-process/routes_to_phys.cpp:1275-1292` | graph, metadata and generation files, two markers, routes | mark, rename, withdraw, unmark; snapshot, verify, match | `ArtifactPublication`, `PublicationRefinement` |
| Device importer | `pre-process/device_to_routing_graph.cpp`, `device_routing_graph.*` | node rows, wires, edges, site pins of the imported box | pick rows, expand PIPs, compact, resolve site pins | `DeviceImport` |
| Design importer | `pre-process/interchange_to_csr.cpp`, `import_policy.hpp` | logical names, endpoint owners, blocked nodes, sink and source masks, requests | index names, claim or preserve each net, filter the graph | `PhysDesign`, `DesignImport` |
| Exporter | `post-process/routes_to_phys.cpp` | route tables, stubs and branches of a net | match routes, hang trees below source pins, move stubs | `RoutesToPhys` |
| The four programs together | all of the above | files between them | import, route, export | `DesignFlow` |
| Driver, command line, artifact reader, profiling, build | `routing/pathfinder*.cpp`, `routing/csr_artifact.cpp`, ... | - | I/O and orchestration | not modelled |

How they interact. The driver builds one workspace per worker on a shared immutable graph and calls
`route_all_nets_with_workspace`. Workers share four variables (next net, completion count, abort flag, first exception)
and write disjoint result slots; each calls `route_net`, which makes one or two synchronous queries on its own workspace
and keeps everything else in its own scratch. A query is host code that launches GPU kernels in rounds; kernels share
the workspace's arrays and synchronise only by atomics and by ending. Nothing calls back except the progress callbacks
of Delta-Stepping. Converter, router and exporter are processes of their own that meet only in files.

What is hard here, and what correct means:

* **Engines.** Threads read a label, then use it while others lower it; improvements, queue entries and the list of
  nodes to reset are separate atomics; a query stops before its fixed point; arrays are reused after a *sparse* reset,
  also after an exception. Correct: a certified answer is exact for every target, an uncertified one is never too
  small, paths end at a source, no queue overflows, and nothing of one query reaches the next.
* **Pool.** Any worker may fail at any step, and so may the construction of a thread. Correct: every net has exactly
  one writer, a normal return has routed all of them, threads are always joined, the first error is the one reported,
  progress never runs backwards.
* **One net.** A tree is assembled from independent cheapest paths, on scratch that remembers earlier nets, with a
  bounded query that may miss sinks. Correct: the result is a tree in which every routed sink lies at its distance from
  the sources, and a sink is missed only if it cannot be reached at all.
* **Controller.** The device decides about rounds the host has not seen, with tokens the host reserved before the launch,
  and reports by a descriptor. Correct: the batches behave as the loop in which the host decides every time, tokens
  never run out within a batch, what the device publishes is what the host's own loop would have decided, and the host
  never refuses a good descriptor, wherever sequence numbers wrap.
* **Import and export.** Nets claim nodes one by one; what is not routed blocks the nodes it uses; the graph is filtered
  once for all nets; pins alias nodes; sinks may be missed. Correct: refusals do not depend on the order of the nets,
  routes keep out of what other nets own, and the netlist written carries every route once and loses no stub.
* **Publication.** Two artifacts and a generation file are renamed one after the other by processes that may fail or
  die in between, while others publish at the same paths or read. Correct: whoever goes on has read one generation.

The full list of hazards, each at its line and with the properties that cover it, is in `PROJECT.json`.

## 2. Modules

`CsrGraph` - the graph and cost arithmetic common to both engines. Costs are naturals up to `MaxFinite`; a float sum or
product is `Round`ed by *any* monotone idempotent function that fixes 0, and anything above `MaxFinite` is `Inf`. What
the engines rely on (monotone addition of nonnegative weights) is kept and what they must not rely on (associativity,
`a + b > a` for positive `b`) is not. `IsDistance` defines the right answer without an algorithm: the distance of `t` is
the largest value at `t` of a potential that no admitted edge could lower.

`SsspOracle` - the abstract specification of an engine as PathFinder uses it: `SetCosts` between calls only, `Ask`,
`Answer` with any `SoundReplies`, `Fail`, `Return`. A `Fallback` query's answer is right within the box, every target
reached, or right without it.

`BF11` - one BF11 workspace. `Begin`, `DenseReset`, `Arm`, `ResetAndSeed`, `StartRound`, `NoRounds`, `Decide`, `Reply`,
`Return` are the steps of `run_once` and of the host or cooperative controller, which decide alike. `LoadLabel`,
`SkipEdge`, `RelaxEdge`, `PublishTouched`, `Enqueue`, `FinishThread` are the atomic steps of one thread of
`frontier_relax_kernel`; the compare-and-swap loop of `atomic_relax_strict` is the step of its last attempt. `Abort` is
a HIP failure at any point, a half-finished reset included. `RunUnbounded` is the second `run_once` of a call with
automatic bounds that missed a target (`Fallback` names such queries; PathFinder turns automatic bounds off,
`pathfinder.cpp:2386`, and does the same one level up, in `RouteNet`). `BF11Refinement` maps it to the oracle.

`DeltaStepping` - one Delta-Stepping workspace serving target-set queries. `Begin`, `StartBucket`, `LeaveLoop`,
`StartLight`, `StartHeavy`, `SkipHeavyPhase`, `EndKernel`, `StopAfterBucket`, `AdvanceBucket`, `Extract`, `Reset`,
`Return` are the host loop of `run_delta_stepping_impl`; `LoadLabel`, `SkipEdge`, `RelaxEdge`, `FinishThread` are the
threads of the light and of the heavy kernel. Within a kernel other threads read only distances: the parent key is
updated by minimum, membership flags are only ever set, and tails only grow, so these updates commute with each other
and are made in the step that lowers the distance. (The argument uses that no pending flag is cleared inside a kernel,
as the comment at `delta_stepping.cpp:1804` demands.) Constants choose between the two parent payloads
(`EdgeParents`) and the two membership schemes (`Generations`, with a counter that wraps after `MaxGeneration`).
`CallbackThrows` is the progress callback throwing, `Extract` may throw over a parent chain, and both reset the arrays.
A HIP failure is left out: it leaves the arrays as they are and the workspace unusable, and the pool never uses a worker
again whose query threw. Speculative empty rounds on the null stream only advance the generation counter and are left
out. `DeltaRefinement` maps the workspace to the same oracle.

`ControllerModel` - `DeltaSteppingCsrControllerSequentialModel`, the host's executable model of the descriptor protocol:
`BeginQuery`, `LightRound`, `BeginBucket`, `Resumed`, `FinishWith`, precedence of terminal statuses, `Valid`.

`DeltaController` - the cooperative controller on top of `DeltaStepping`: `EnterController` (or `BypassController` when
nothing is to be launched), then per batch `LaunchBatch` (reserving tokens, clearing when they run out), `StartRound`,
the same relaxation threads, `EndRound`, `StartHeavyRange`/`NoHeavyRange`/`EndHeavyRange`, `CloseLast`, `Compact`,
`Commit`, `Publish` on the device, and `HostCheck` on the host; `ControllerFails` is a HIP call that fails. It carries the
sequential model's state along and feeds it what the device sees: the bucket, the queue counts, the least pending bucket
and the status of every round and boundary, unaltered. `FollowsModel` compares all twelve fields of the descriptor after
each batch. One may differ: when the targets end a query after the heavy range of a bucket, the leader breaks off before
it reads the pending count again (`delta_stepping.cpp:3093-3099`), so the descriptor keeps the count of the last light
round (`:3009`), which is the smaller one if the heavy range queued nodes; nothing reads it after a terminal status. The
model calls a completed query with a next bucket invalid (`delta_stepping_policy.hpp:533-536`), and the kernel has a
branch that would publish one, when the least pending bucket lies beyond the distance limit (`:3122-3134`). It is not
taken for that reason: relaxation stores only distances below the limit (`:2531-2543`, `:2677-2682`), so that no pending
node lies beyond it, and a query that is complete has none. `ControllerRefinement` maps a workspace under the controller
to `DeltaStepping` with Boolean flags; the history variable `spent` keeps the heavy queue that the device empties before
it looks at the iteration budget and the host loop would not yet have emptied.

`DeviceImport` - `device_to_routing_graph` over a device given as tiles, tile types, site types and nodes: `ImportNode`
under one of three bounds modes, `NodesDone`, `ExpandPips`, `Compact` (parallel and self edges), `ResolveSites`,
`DeviceDone`. A row is named by its device node, so the numbering of rows is left out.

`PhysDesign` - physical nets as forests of branches, and the nodes of their pins and PIPs. `Walk` visits a forest with a
stack, as the code does: the importer meets the branch listed last first, so the sources of a request stand in that order
(`LastFirst`), the exporter recurses in list order (`Branches`). `DesignImport` -
`IndexLogicalNet`, `LogicalDone`, then per net `PreserveNet`, `AddRequest` or `RefuseNet`, `RefuseUnsupported`, and
`MakeCsr`, which filters the graph. `RoutesToPhys` - `LoadRoutes`, then per net `KeepNet`, `RebuildNet` or
`RefuseExport`, and `FinishExport`. `DesignFlow` composes them: `RouteRequest`, `WriteRoutes` and `RefuseRoutes` stand
for the router, which may write any route tree `RouteNet` promises for any subset of the sinks.

`RouteWorkers` - the pool. One action per step of a worker (`Setup`, `Test`, `Claim`, `Route`, `RouteThrows`, `Count`,
`Report`, `Raise`, `Record`) and of the calling thread (`Spawn`, `SpawnFails`, `Unwind`, `Join`).

`RouteBounds`, `CheapestPaths`, `RouteNet` - one worker routing net after net on the same scratch. Queries answer with
*any* choice of cheapest paths inside the admitted nodes, certified or not, or throw. Cheapest for the target is not
enough: when sums are rounded, a cheapest path may pass a node dearer than need be, and cut there it would leave the
target at a distance of its own. The engines' predecessors only go along nodes at their distances (`Settled`), which is
what `BF11Proofs` and `DeltaProofs` show of them. Scratch keeps what earlier nets
wrote, told apart by stamps. Left out: exceptions over malformed engine results, the wrap of the 32-bit stamp (fewer
nets than stamps are assumed). A path whose cost overflows leads nowhere.

`ArtifactPublication` - a conversion's calls to the file system (`Check`, `Stage`, `Mark`, `RenameCsr`,
`RenameMetadata`, `RenameGeneration`, `Clear` and the catch block: `MarkFails`, `RenameFails`, `Withdraw`, `Unmark`,
`Undone`), each of which may fail, and a reader's (`Look`, `Sample`, `Compare`, the loads, `WriteRoutes`). A file is what
wrote it; renames are atomic and a file once opened is read whole. `Crash` stops a conversion anywhere, and `Inspect`,
which is no code, is the person the error messages ask to look at a marker left behind; nobody removes the marker of a
conversion that runs. A router without an output file is left out, and so is the exporter that reads a routes file while
it is written: the router writes it in place, and a routes file counts as written once it is complete.
`PublishedPair` is the promise - graph and metadata are one register replaced at once, a reader that goes on used one
value of it, a router finds the value unchanged after it has opened the metadata for its output - and
`PublicationRefinement` the mapping (`ReadsOnePair`): the register is the generation file, read first at the first snapshot and last at
the final one.

`MC*` modules and `.cfg` files give the constants values. Definitions whose comment begins "Mutant of" are deliberately
wrong variants of the definition that follows; nothing uses them, and substituting one must break the property they are
listed with.

## 3. Runs

| Run | What it checks | Instance and why it is enough |
|---|---|---|
| `bf11_diamond` | `QueuesFit`, `CertifiedExact`, `DefaultBudgetCertifies` | 4 nodes, 6 edges: the cheapest path is the longest, a label drops while its node relaxes, a zero-cost edge closes a cycle; check interval 1 and 2, one and two sources, a bounded query run again |
| `bf11_reuse` | `TouchedComplete`, `CleanSeed`, `NoPredecessorCycle`, `QueryEnds`, `ImplementsOracle` | under `FairSpec`; 3 nodes: six different queries in any order, one of which misses its target in its box and is run again without it, aborts at every step, multipliers 0, 1 and 3 changing in between; `MaxFinite` 3, so weights and sums overflow |
| `bf11_interval` | `DefaultBudgetCertifies` is violated | a line of 3 nodes, check interval 3 (see findings) |
| `delta_compact` | `QueuesFit`, `CleanWhenIdle`, `NoWorkLost`, `DeterministicParents`, `AnswersExact`, `QueryEnds` | under `FairSpec`; 4 nodes, 6 edges, bucket width 5, edge payloads, tokens that wrap after 3: a node is queued by two threads of one round, has two cheapest parents, waits in later buckets; limits, budgets, boxes, multipliers |
| `delta_loop` | `PathsEnd` is violated | a zero-cost cycle of 2 nodes behind a source (see findings) |
| `delta_refinement` | `ImplementsOracle` | predecessor payloads and Boolean flags; 4 nodes with costs 0, 1, 2, 3, 4, 8, 16, 32 only: 16 + 8 is 16, so heavy edges land in the bucket they leave, and 32 lies in the terminal one |
| `controller` | `TokensReserved`, `HostAccepts`, `FollowsModel`, `ImplementsHostLoop` | the diamond in batches of 2 rounds, 7 tokens (a batch needs 4, so the range is cleared in mid-query), query sequence numbers that wrap, budgets 0, 1, 2 and none, some of them spent, a limit, HIP calls that fail |
| `route_workers` | `OneWriterPerNet`, `NoNetLost`, `ThreadsJoined`, `ProgressForward`, `CallEnds` | 3 workers, 4 nets: two workers can race for one net while the third fails; more nets than workers |
| `route_nets` | `TrimmedPathAttaches`, `RouteTree`, `RootDistance`, `MissedOnlyIfUnreachable`, `TerminalsAdmitted` | 4 requests with repeated, invalid, unreachable and already connected sinks, missing coordinates and a box that excludes the only path |
| `publication` | `OnePublisher`, `HalfPublishedIsMarked`, `SomeonePublishes`, `ReadsOnePair` | two setups. 2 conversions, a router and an exporter on one pair, legacy artifacts at first, 1 fault: enough for a conversion that stops after one rename, whose markers are removed, and another that publishes between any two steps of the readers. And 2 conversions whose graph is the other's metadata, 2 faults: a rename and then its withdrawal fail |
| `design_flow` | `GraphOfCut`, `LogicalUnambiguous`, `RefusedIffClash`, `EndpointsExclusive`, `RoutesKeepOut`, `ExportFaithful`, `ExportCompletes` | 4 tiles, 10 nodes; 3 device files, two of them contradictory, one only where a box does not cut the second node away; the whole device, an empty box, and one box under each bounds mode that cuts nodes apart; designs of up to 3 of 14 kinds of nets: aliased source pins, shared and duplicate sinks, preserved nets, nets that clash, nets that lose their source or sinks to the box; missed sinks, `--allow-unrouted-stubs` on and off, routers stopped early |
| `design_sourceless` | `SourcelessNetKept` is violated | one net whose source lies outside the box and whose two sink pins share a node (see findings) |

Bounds. Only `MaxFinite` (overflow is modelled by `Inf`), `MaxGeneration`, `MaxSequence` and `MaxCount` (counters that wrap or
saturate), `MaxCoord`, `MaxStamp` and `MaxFaults` (calls that fail and processes that stop) limit a counter;
`MaxBranches` is longer than any forest of the run, before or after export, so that `Walk` ends by itself; iterations are
limited by the code's own budget or by the number of labels. `CHECK_DEADLOCK` is on except where a configuration says so
because the modelled call or program really ends. Type invariants are proved (section 5) where a
module has proofs.

Fairness. `WF(Work)` for an engine: kernels that were launched and host code that waits for them do run; callers owe
nothing. An answer is not yet an end of a `BF11` call that missed a target in its automatic bounds and falls back:
`QueryEnds` asks for one that is returned, so that a second run without bounds that happened again and again would
break it. For the pool, weak fairness of each thread: operating-system threads are scheduled, and no step of a worker
waits for another except the progress mutex. No strong fairness is assumed anywhere.

Deadlock freedom of the engines is part of `QueryEnds`: from every state of a call the call goes on to return or throw.

## 4. Findings

* **`bf11_interval`** - `bf11.hpp:31-33` says a larger `target_check_interval` "can only delay an early stop". With
  the default budget of rows - 1 rounds the last round may fall between two checks, and the call then ends uncertified
  although its labels satisfy the certificate; PathFinder rejects such an answer. With interval 1 the default budget always
  certifies (`DefaultBudgetCertifies` in `bf11_diamond`).
* **`delta_loop`** - `delta_stepping.hpp:19` promises nonnegative weights and zero is accepted at
  `delta_stepping.cpp:625`, but equal-distance candidates compete for the least payload (`:1790`), so around a cycle of
  zero-cost edges parents can point at each other. The walk then never meets a source and the query throws for a
  reachable target. The same can happen with positive weights so small that float addition absorbs
  them. BF11 accepts strict improvements only and is free of it (`NoPredecessorCycle`, checked with zero-cost cycles).
* **`design_sourceless`** - `interchange_to_csr.cpp:1232-1234` keeps the request of a net whose source lies outside a bounded
  graph, so that strict routing reports it. Its sinks are blocked as they are claimed (`:1235`), and a claim refuses a
  blocked node before it asks who owns it (`:1060`), so a second pin of the same net on the same node - which
  `:518-519` allows - ends the import.
* Not a run, for the reader: BF11 multiplies each weight by the base cost of the node entered, Delta-Stepping has no
  base costs (`pathfinder.cpp:2240-2300` builds its graph from values and coordinates only), while
  `tests/routing_engines_bounds_hip_test.cpp:460-462` documents one formula for both. The importer writes 1.0 for every
  base cost (`device_to_routing_graph.cpp:599`), so the engines agree today; `DeltaAssumption` states it.

## 5. Proofs

All proofs are by TLAPS from the assumptions of the modules: the graph is a well-formed CSR (`GraphAssumption`), rounding
is monotone (`RoundAssumption`), queries have passed the code's validation. The refinements add what the mapping needs:
the marker of an idle engine is not a query (`MarkerAssumption`), and the readers of one setup read one pair
(`SharedAssumption`), and the value that stands for "no bucket" is not a bucket (`NoNext` in `ControllerAssumption`). Every
invariant was model-checked on the runs' instances before it was proved, except where it quantifies over all sequences
(`EdgesInv`).

### BF11, any graph, queries, multipliers, interleaving and abort

`BF11Proofs`:

* `TypeCorrect`. A cursor stays inside the row its thread relaxes, hence in `Edge`; costs stay closed under `Saturate`.
* `TouchedListComplete`. Not inductive alone: between the relaxation that discovers a node and its publication the node
  is on no list. The invariant says each such node has exactly one publishing thread, that publishing nodes are not yet
  touched, and that whenever the reset flag is lowered nobody is publishing.
* `SeedsClean` follows from it: a sparse reset of a complete list is a dense one.
* `QueuesNeverOverflow`. The marks that equal this round's token are exactly the nodes appended to the next frontier, so
  its counter is a cardinality of a subset of `Vertex`; the same for the touched list.

Why the answers are right:

* `PredecessorsAcyclic`. That labels do not increase along the predecessors (`Rooted`) is not enough when costs may be 0.
  `Acyclic` says that no nonempty set of labelled non-sources is closed under predecessors. A relaxation that closed such
  a set would do so at the node it changed, whose old label was strictly above that of its new predecessor (`ReadBack`: a
  thread reads no label better than its node's); the members with labels below the old one form a smaller closed set that
  was there before.
* `CertificatesExact`. From above: no feasible potential exceeds a label (`BoundInv`). From below: every edge that could
  lower a label belongs to a queued node, to one discovered and not yet queued, or to a thread that has not passed it
  (`Unsettled`), and the round's minimum, or a minimum on its way there, covers all these nodes (`Minimum`). So when the
  frontier is empty, or the minimum is at least every target's label, the labels capped at that minimum are a feasible
  potential. The paths: a walk as long as the forest is deep ends at a source, by induction on the rows of the table `Walk`.
* `WorkspaceIsOracle`. An answer that is not about to be retried is one of `SoundReplies`; only a `Fallback` query is
  retried; costs change only between calls. Each step is `SetCosts`, `Ask`, `Answer`, `Fail`, `Return` or a stutter.
* `DefaultBudgetSuffices`, for queries checked after every round (`EveryRoundChecked`; without it the property is false,
  see section 4). What round k improves lies above at least k + 1 labels (`RoundCounts`): a candidate lies at or above
  the label it was made from and below the label it replaces. After `Rows - 1` rounds it would lie above all of them.
  The count never falls, because labels only do.

### Delta-Stepping, any graph, width, number of buckets, token range, both payloads and membership schemes

`DeltaProofs`:

* `DeltaTypeCorrect`. The next bucket is the least pending one, so it lies between the closed one and `NoBucket`.
* `QueuesListOnce`. A queue's counter is a cardinality as long as the flag or token that guards an append is exact: during
  a round the claimed nodes are the nodes of the next queue, the pending flags are the pending queue, the heavy flags are
  the heavy queue until the heavy kernel clears them. The token handed out next is new because no node carries one above
  the counter and the wrap clears all of them; a flag handed out next is clear because set flags belong to the queue that
  the round empties (`ClaimInv`, `PendingInv`, `HeavyInv`).
* `WorkspaceClean`. A node with an infinite distance carries no key, no pending flag and no membership flag, and the
  touched queue names the nodes with finite ones (`TouchedInv`), so the sparse reset undoes all; no heavy flag is left
  once a bucket has closed.

Its distances and parents:

* `ClosedBucketsFinal`. An edge is `Done` when relaxing it once more would change neither a distance nor a key. Below the
  bucket all edges are done, beyond it nodes are pending, and within it `BucketWork` says per phase what is still queued
  or ahead of a thread: the light edges of a node until it leaves the queues, then its heavy ones (`WorkInv`). It needs
  that threads relax from distances of this bucket (`BucketInv`) - a heavy edge may land in the bucket it leaves when a
  sum rounds down, and then the node is queued for it again.
* `DistancesExact`. Distances below a closed bucket, below the limit, or all of them when nothing is pending, are final
  (`Horizon`, `TargetInv`), and no feasible potential exceeds a distance (`ReachInv`).
* `ParentsDeterministic`. A key stands for an edge that explains its distance (`KeyInv`), and no `Done` edge undercuts it.
* `DeltaIsOracle`. Every step, the exceptions and the sparse reset included, is a step of the oracle or a stutter.

### The cooperative controller, any batch size and range of sequence numbers

`ControllerProofs`:

* `ReservationSuffices`. A round takes one token and so does the compaction after it, and compactions are not more than
  rounds. `RangeInv` keeps the account: the token in use and two for each round the batch may still do lie below the
  reserved end.
* `HostAlwaysAccepts`, `DeviceFollowsModel` and `ControllerImplementsHostLoop` assume `[]RoundsFit`: a query does fewer than
  `MaxCount` light rounds. `MaxCount` is 2^32 - 1 in the program; the leader reports a query that gets there as invalid
  and the host throws, where the host's loop would go on. No state of the run `controller` reaches the bound.
* The refinement comes first, because the rest needs what the host's loop keeps true. `HostPhase`, `HostBucket` and the
  other mapped variables turn a state of the controller into one of the loop, for which the invariant of `DeltaProofs`
  already holds (instance `H`). The `...Maps` lemmas show, action by action, that a step of the controller is a step of
  that loop, a stutter, or a failed call; the proof of `DeltaProofs` then hands the invariant on. What it says - queues
  list nodes once, the pending queue is the set of pending nodes - is what the device's counts and its least pending
  bucket are computed from.
* `HostInv` is what is needed of that loop: its workspace invariant, that its queues list nodes of the bucket, and
  that distances lie below the limit. With the last, `LeastPendingAllowed` shows that the least pending bucket is never
  beyond the last allowed one, so the event of a completed query has no next bucket and the model accepts it.
* The controller's own part is `ControlInv`. `MarkInv`: a mark that equals the device's token is a flag of the loop, and
  the token of the next round is above every mark. `LoopInv`: what is known of the descriptor in each phase, above all
  that a batch which ends has a reason, or rounds left to do (`Ended`). `ModelInv`: in which fields the sequential model
  and the descriptor agree at each point of a batch - inside one the model hears of the round that closed a
  bucket only when the device has found the next bucket, and its pending count lags behind the device's. `PendingSeen`:
  while a bucket closes the published count is at most that of the queue, and it is that of the queue if no node is left
  for a later bucket; the lemma `SuccessorsStay` of `DeltaProofs` keeps it through the heavy kernel, where an append makes a
  node wait. `LastCounts`: what the two counts are once the batch has ended. The `...Keeps` lemmas show all of it kept by
  each action.

### One net, any graph, sequence of requests, query bounds and answers

`RouteNetProofs`: `NetsAreTrees`, `SinksAtTheirDistance`, `TrimmedPathsAttach`, `MissedSinksUnreachable`,
`TerminalsStayAdmitted`, all from `RoutingInvariant`.

* Paths and trees are sequences built by folds. A fold is a recursion over the indices; `FoldExists` and `FoldRun` show
  once, by a least counterexample, that it passes through the states of a run, and the lemmas about `AddAll`
  (`AddAllResult`), `PathCost` (`PathCosts`) and `RootCost` (`RootCostIsDistance`) build on that.
* An edge is `Tight` when it explains the distance of the node it enters. A settled path is tight edge by edge
  (`SettledTight`). The edges of the reached sinks `Hangs` the tree from the sources: they are tight, no node is entered
  twice, and `unique_nodes` lists the start of each before its end. That order is what rules out cycles of zero-cost
  edges, and it bounds the way up from a node by the number of rows.
* A candidate was computed from the sources alone. Cut at the last node that the tree holds now, not when it was
  extracted, it leads through nodes new to the tree (`CandidateFacts`), so none of them is marked as having a parent; and
  because the node it is cut at lies at its distance in the tree as it does on the path, the sink does as well.
* `TreeMarked` and `StampFresh`: marks of earlier nets lie below the stamp, so a mark equal to it means a node of this
  net's tree.
* `Waiting` and `Treated` say what a sink is before and after its turn; `AnswerFits` says what of the answer they rest
  on: short of a certificate or of a path for each sink, a net with fallback has searched the whole graph.

### The worker pool, any number of workers and nets

`RouteWorkersProofs`: `PoolTypeCorrect`, `SlotsHaveOneWriter`, `CounterMatches`,
`NothingLost`, `AllJoined`, `ProgressCorrect`, `FirstErrorStays`. The invariant says that claimed indices lie below the
shared counter and are held by one worker each; that a net below the counter is routed, held, or was abandoned by a
worker that has raised the abort flag or is about to; and that the completion counter is the number of routed nets less
the workers about to count one. A normal return then means that every worker left because the counter had passed the
last net.

### The design flow, any device, box, design and router

`DesignFlowProofs`, from `DeviceAssumption` and `DesignAssumption` (lists are sequences, PIP flags Boolean, `NoNode` is no
index):

* `FlowInvariant`. The masks are described without their history: a node has an owner exactly if a net taken so far has a
  pin on it, it is blocked exactly if one of those nets reserves it, a sink stops exactly if one of them says so
  (`MasksInv`); no two nets taken so far clash (`CompatibleInv`); the requests are those of the routed nets, under distinct
  names (`RequestsInv`); the routes are route trees on the graph filtered by all of it (`RoutesInv`). Because "taken so
  far" is a set, the order of the nets drops out.
* `RefusalsAreJustified`. A net that cannot be claimed or preserved meets an owner or a blocked node; the invariant names
  the earlier net it belongs to, and the two clash. Conversely no two nets clash once all are taken.
* `EndpointsAreExclusive` and `RoutesStayOut`. Every edge of the filtered graph avoids the blocked nodes on both sides,
  those of preserved nets among them, leaves no sink and enters no source (`CsrAvoids`, `CsrKeepsPreserved`). An edge of a route starts at a source of its own net or at a head of another of its
  edges, so it could touch a foreign pin only as a head; a foreign source is never entered, and a foreign sink, entered,
  could not be left and would have to be a sink of this net.
* `LogicalNetsAreUnambiguous`. `LogicalInv` says of each name how many of the cells gone through have it: the index holds
  the cell if there is one, and the name is ambiguous if there are more.
* `GraphIsCut`. `RowsInv` describes rows, wires and route ends, `EntriesInv` the entries of the tiles gone through,
  `EdgesInv` what is left of them. An entry stands for a PIP between rows (`EntriesAreReal`), every such PIP has an entry
  (`RealPipsAreEntered`), and of the entries of a pair exactly the last is kept (`LastIsKept`). The proof corrected the
  property: the node of a wire has to be looked for among the rows only. A device that lists a wire under two nodes is
  accepted when the box cuts one of them away, and read over all nodes the property is false of it; the run's contradictory
  device is now of that kind.
* `RoutesAreAccepted`, the first conjunct of `ExportCompletes`: a line of the routes file says of its request what the
  metadata says, so `validate_routes_against_metadata` refuses nothing the router writes.

To be proved about, these modules do without recursive operators: walks, grafts and route trees are recursive functions
over a counter, the parts of a forest, or the rows.

### Publication, any number of conversions, readers, faults, crashes and inspections

`PublicationProofs`:

* `MarkersExclude` and `HalfPublishedHidden`. The marker beside a path is kept by whoever has taken it and not yet given
  it up, and by a conversion that ended with one of its files exposed as long as nobody inspects (`Keeps`); a kept marker
  exists and has one keeper (`MarkerInv`). `Place` says which files a conversion must still withdraw.
* `ContentionResolved`, for at least one conversion. A refusal leaves behind a conversion that has taken a marker at or
  beyond the one in the way, or all of its own (`Reach`, `ContendInv`): markers are taken in the order of their paths, so
  the one that has come farthest is turned away by nobody.
* `PublicationIsRegister`. What a reader goes on with carries the identity it sampled first (`Reads`). The proof uses no
  invariant about markers: identities, the generation file and the order of the readers' looks are enough.

`CsrGraphLemmas` holds what both engines' proofs share: rows do not overlap, weights and saturated sums are costs, a set
of nodes has at most `Rows` elements, a set of naturals has a least element, a distance is what a bound from either side
leaves.

### Model-checked only

* `QueryEnds` of a call under the controller: the refinement is a safety property, and no fairness is stated for batches.
* `ExportFaithful`, and of `ExportCompletes` the second conjunct. They compare forests before and after a graft, by walks
  and sub-sequences (`SelectSeq`): what those recursions yield for every forest would need an induction over the forest.
* Liveness (`QueryEnds`, `CallEnds`), because of fairness and `ENABLED`.
* The two properties that findings refute (`DefaultBudgetCertifies` with a check interval above 1, `PathsEnd`) and
  `SourcelessNetKept`.

## 6. Not modelled

* That the host recognises a descriptor of another query or batch. The kernel always writes the descriptor of its own
  query before the host reads it, so the runs hold no old one; `HostAccepts` is about good ones only.
* `run_unit_weight_specialization` (`delta_stepping.cpp:3995-4355`): nothing calls it.
* Single-target and distances-only runs of Delta-Stepping and `update_values`: PathFinder uses target-set queries and
  vertex costs only.
* The sequential controller model's callback-abort and host-checked events: the reduced controller is chosen only without
  a callback. A query with a budget of 0 and a limit of 0 is stopped by the limit in the reduced controller
  (`delta_stepping.cpp:4870-4874`) and by the budget in the host loop; both leave every target unsettled, and the
  refinement compares what follows.
* File formats and their validation, gzip, JSON, command lines, worker and capacity policies, automatic delta: I/O and pure
  arithmetic. What the readers guarantee is assumed (`GraphAssumption`, `DeviceImport`'s constants).
* Row numbering of compact graphs; the exception for cycles in a routes file (`RouteNet` writes none); malformed device
  indices; the routes file written in place under a reading exporter.
* GPU memory ordering below atomics and kernel boundaries; telemetry and profiling ranges.

## 7. Plan

1. Publication: the routes file written in place under a reading exporter.
2. Single-target and distances-only runs of `DeltaStepping`; policies as operators against reference definitions.
