---------------------------- MODULE DeltaStepping ----------------------------
(***************************************************************************)
(* One Delta-Stepping workspace answering target-set queries: a host       *)
(* thread closes distance buckets in increasing order.  A bucket is closed *)
(* by rounds of a light kernel over the current queue, one heavy kernel    *)
(* over the nodes the rounds were active at, and the settlement of the     *)
(* targets; the next bucket is the least one among the pending nodes.      *)
(*                                                                         *)
(* The kernels' threads interleave: one step loads a thread's distance,    *)
(* one step relaxes one of its edges.  What a relaxation publishes beside  *)
(* the distance (the parent key, the queues and their membership flags)    *)
(* is written by commuting atomics that nobody reads before the kernel     *)
(* ends, so it belongs to the step that won the distance.                  *)
(***************************************************************************)
EXTENDS CsrGraph

CONSTANTS
    Costs,          \* multipliers update_vertex_costs may install
    Queries,        \* the queries run may be given
    Delta,          \* width of a bucket
    NoBucket,       \* kNoBucket, the bucket of an infinite distance
    EdgeParents,    \* compact edge payload, or the legacy predecessor payload
    Generations,    \* generation tokens, or Boolean flags, for membership
    MaxGeneration   \* the last token before the counter wraps

ASSUME DeltaAssumption ==
    /\ Delta \in Nat \ {0} /\ NoBucket \in Nat \ {0} /\ MaxGeneration \in Nat \ {0}
    /\ EdgeParents \in BOOLEAN /\ Generations \in BOOLEAN
    /\ Costs \subseteq Nat /\ 1 \in Costs
    /\ \A v \in Vertex : baseCost[v] = 1      \* this engine knows no base costs
    /\ \A r \in Queries :
          /\ r \in [sources : SUBSET Vertex, targets : SUBSET Vertex,
                    admit : SUBSET Vertex, maxIters : Int, limit : Cost]
          /\ r.sources # {} /\ r.targets # {}
          /\ r.sources \cup r.targets \subseteq r.admit

VARIABLES
    \* device arrays that outlive a query
    costs, hasCosts,    \* vertex_costs, and whether they were ever installed
    dist,
    key,                \* parent_key: <<distance, payload>>, ordered
    inCurrent,          \* membership tokens of the current and next queue
    generation,         \* the last token handed out
    inPending, inHeavy, \* nodes whose flag is set
    touched,            \* queue of the nodes to reset
    \* the query under way
    phase, query, iter, stop, result,
    bucket,             \* current_bucket
    settled,            \* targets marked settled
    current, next, pending, heavy,   \* queues
    \* one thread per node of the queue the kernel runs over
    kernel, pc, epos, from

arrays  == <<dist, key, inCurrent, generation, inPending, inHeavy, touched>>
queues  == <<current, next, pending, heavy>>
host    == <<phase, query, iter, stop, result, bucket, settled>>
threads == <<kernel, pc, epos, from>>
vars    == <<costs, hasCosts, arrays, host, queues, threads>>

\* A device queue and its tail counter: a node appended twice counts twice.
EmptyQueue  == [nodes |-> {}, count |-> 0]
QueueOf(S)  == [nodes |-> S, count |-> Cardinality(S)]
Push(q, v)  == [nodes |-> q.nodes \cup {v}, count |-> q.count + 1]

Min2(a, b) == IF a < b THEN a ELSE b
Bucket(d)  == IF d = Inf THEN NoBucket ELSE Min2(d \div Delta, NoBucket - 1)

NoKey         == <<Inf, 0>>
KeyLess(a, b) == a[1] < b[1] \/ (a[1] = b[1] /\ a[2] < b[2])
Payload(e)    == IF EdgeParents THEN e ELSE SourceForEdge(e)

Weight(e) == EffectiveWeight(e, costs)

\* No edge can be heavier than a bucket: the heavy phase is left out.
SkipHeavy == ~hasCosts /\ \A e \in Edge : edgeValue[e] <= Delta
Terminal  == bucket = NoBucket - 1
AllLight  == Terminal \/ SkipHeavy

Limited     == query.limit # Inf
\* The last bucket that can hold a distance strictly below the limit.
LastAllowed == IF query.limit = 0 THEN -1
               ELSE Bucket(CHOOSE c \in Cost : /\ c < query.limit
                                               /\ \A b \in Cost : b < query.limit => b <= c)

NoResult == [certified |-> FALSE, dist |-> <<>>]
IdleThreads == /\ kernel = "none"
               /\ pc   = [v \in Vertex |-> "off"]
               /\ epos = [v \in Vertex |-> 0]
               /\ from = [v \in Vertex |-> Inf]

Init ==
    /\ costs = [v \in Vertex |-> 1] /\ hasCosts = FALSE
    /\ dist = [v \in Vertex |-> Inf]
    /\ key = [v \in Vertex |-> NoKey]
    /\ inCurrent = [v \in Vertex |-> 0] /\ generation = 0
    /\ inPending = {} /\ inHeavy = {} /\ touched = EmptyQueue
    /\ phase = "idle" /\ query \in Queries /\ iter = 0 /\ stop = "none"
    /\ result = NoResult /\ bucket = 0 /\ settled = {}
    /\ current = EmptyQueue /\ next = EmptyQueue
    /\ pending = EmptyQueue /\ heavy = EmptyQueue
    /\ IdleThreads
-----------------------------------------------------------------------------
(* Membership of a queue: a token nobody has written since the last clear. *)

\* acquire_current_generation: the token that marks the nodes of a new queue.
Token == IF ~Generations \/ generation = MaxGeneration THEN 1 ELSE generation + 1

\* Mutant of Wraps: tokens are reused with the old ones still in place.
NeverWraps == FALSE

\* Reusing tokens needs every old one cleared first.
Wraps == Generations /\ generation = MaxGeneration

\* inCurrent as it stands once the token has been acquired.
CurrentMarks == IF Wraps THEN [v \in Vertex |-> 0] ELSE inCurrent

AcquireToken == generation' = IF Generations THEN Token ELSE generation

\* Mutant of Unclaimed: membership is not looked at.
AnyTime(v) == v \in Vertex

\* The token under which the running kernel appends to the next queue.
Unclaimed(v) == IF Generations THEN inCurrent[v] # generation ELSE inCurrent[v] = 0
Claim        == IF Generations THEN generation ELSE 1
-----------------------------------------------------------------------------
(* The host. *)

UpdateCosts ==
    /\ phase = "idle"
    /\ costs' \in [Vertex -> Costs] /\ hasCosts' = TRUE
    /\ UNCHANGED <<arrays, host, queues, threads>>

\* prepare_delta_scratch and initialize_delta_sources_kernel.  Targets that are
\* sources are settled before any bucket is processed.
Begin ==
    \E r \in Queries :
        /\ phase = "idle"
        /\ query' = r /\ iter' = 0 /\ bucket' = 0
        /\ AcquireToken
        /\ dist' = [v \in Vertex |-> IF v \in r.sources THEN 0 ELSE dist[v]]
        /\ inCurrent' = [v \in Vertex |-> IF v \in r.sources THEN Token ELSE CurrentMarks[v]]
        /\ current' = QueueOf(r.sources) /\ touched' = QueueOf(r.sources)
        /\ next' = EmptyQueue /\ pending' = EmptyQueue /\ heavy' = EmptyQueue
        /\ settled' = IF r.limit = 0 THEN {} ELSE r.targets \cap r.sources
        /\ stop' = IF r.targets = settled' THEN "target" ELSE "none"
        /\ phase' = "bucket"
        /\ UNCHANGED <<costs, hasCosts, key, inPending, inHeavy, result, threads>>

OutOfBudget == query.maxIters >= 0 /\ iter >= query.maxIters

StartBucket ==
    /\ phase = "bucket" /\ stop = "none" /\ ~OutOfBudget
    /\ Limited => bucket <= LastAllowed
    /\ heavy' = EmptyQueue
    /\ phase' = "closure"
    /\ UNCHANGED <<costs, hasCosts, arrays, query, iter, stop, result, bucket, settled,
                   current, next, pending, threads>>

\* The bucket loop is left before another bucket starts.
LeaveLoop ==
    /\ phase = "bucket"
    /\ \/ stop # "none" /\ stop' = stop
       \/ stop = "none" /\ OutOfBudget /\ stop' = "maxIters"
       \/ stop = "none" /\ ~OutOfBudget /\ Limited /\ bucket > LastAllowed /\ stop' = "limit"
    /\ phase' = "extract"
    /\ UNCHANGED <<costs, hasCosts, arrays, query, iter, result, bucket, settled, queues, threads>>

Launch(kind, nodes) ==
    /\ kernel' = kind
    /\ pc' = [v \in Vertex |-> IF v \in nodes THEN "load" ELSE "off"]
    /\ phase' = "kernel"
    /\ UNCHANGED <<epos, from>>

\* clear_flags_from_queue_kernel, before the threads of the round start.
ClearedFlags ==
    IF Generations THEN CurrentMarks
    ELSE [v \in Vertex |-> IF v \in current.nodes THEN 0 ELSE inCurrent[v]]

\* One round of light closure.
StartLight ==
    /\ phase = "closure" /\ current.count > 0
    /\ next' = EmptyQueue
    /\ AcquireToken /\ inCurrent' = ClearedFlags
    /\ Launch("light", current.nodes)
    /\ UNCHANGED <<costs, hasCosts, dist, key, inPending, inHeavy, touched,
                   query, iter, stop, result, bucket, settled, current, pending, heavy>>

\* Mutant of HeavyPhase: the heavy edges of a bucket are never relaxed.
NoHeavyPhase == FALSE

HeavyPhase == ~SkipHeavy /\ ~Terminal

StartHeavy ==
    /\ phase = "closure" /\ current.count = 0 /\ HeavyPhase
    /\ Launch("heavy", heavy.nodes)
    /\ UNCHANGED <<costs, hasCosts, arrays, query, iter, stop, result, bucket, settled, queues>>

SkipHeavyPhase ==
    /\ phase = "closure" /\ current.count = 0 /\ ~HeavyPhase
    /\ phase' = "settle"
    /\ UNCHANGED <<costs, hasCosts, arrays, query, iter, stop, result, bucket, settled,
                   queues, threads>>

\* Mutant of EndKernel: the queues are not swapped after a round.
EndKernelNoSwap ==
    /\ phase = "kernel" /\ \A v \in Vertex : pc[v] = "off"
    /\ phase' = IF kernel = "light" THEN "closure" ELSE "settle"
    /\ kernel' = "none"
    /\ UNCHANGED <<costs, hasCosts, arrays, query, iter, stop, result, bucket, settled,
                   queues, pc, epos, from>>

EndKernel ==
    /\ phase = "kernel" /\ \A v \in Vertex : pc[v] = "off"
    /\ current' = IF kernel = "light" THEN next ELSE current
    /\ phase' = IF kernel = "light" THEN "closure" ELSE "settle"
    /\ kernel' = "none"
    /\ UNCHANGED <<costs, hasCosts, arrays, query, iter, stop, result, bucket, settled,
                   next, pending, heavy, pc, epos, from>>
-----------------------------------------------------------------------------
(* The kernels: thread u relaxes the edges leaving node u. *)

\* A plain load: in the light kernel the distance may drop again before u is
\* done, and u is then appended to the next queue.
LoadLabel(u) ==
    LET active == IF kernel = "light" THEN Bucket(dist[u]) = bucket ELSE dist[u] # Inf
        collect == kernel = "light" /\ active /\ ~AllLight /\ u \notin inHeavy
    IN
    /\ pc[u] = "load"
    /\ from' = [from EXCEPT ![u] = IF active THEN dist[u] ELSE Inf]
    /\ epos' = [epos EXCEPT ![u] = rowptr[u]]
    /\ pc' = [pc EXCEPT ![u] = "edge"]
    /\ inHeavy' = IF collect THEN inHeavy \cup {u} ELSE inHeavy
    /\ heavy' = IF collect THEN Push(heavy, u) ELSE heavy
    /\ UNCHANGED <<costs, hasCosts, dist, key, inCurrent, generation, inPending, touched,
                   host, current, next, pending, kernel>>

Candidate(u) == Saturate(from[u] + Weight(epos[u]))

\* Mutant of IsLight: a heavy edge is left to the heavy phase even when its
\* candidate falls into the current bucket.
LightByWeight(e, c) == AllLight \/ Weight(e) <= Delta

\* Rounding, and the terminal bucket, can put the candidate of a heavy edge
\* into the current bucket: it belongs to the closure.
IsLight(e, c) == AllLight \/ Weight(e) <= Delta \/ Bucket(c) = bucket
IsHeavy(e, c) == Weight(e) > Delta /\ Bucket(c) > bucket

Eligible(u) ==
    LET e == epos[u]
        c == Candidate(u)
    IN  /\ to[e] \in query.admit
        /\ c < query.limit
        /\ IF kernel = "light" THEN IsLight(e, c) ELSE IsHeavy(e, c)

\* Mutant of PublishesParent: a candidate that ties leaves the key alone.
PublishesWinner(c, v) == c < dist[v]

\* Equal distances reach the minimum of the keys too.
PublishesParent(c, v) == c <= dist[v]

\* An edge out of the box, beyond the limit, or of the other kernel.
SkipEdge(u) ==
    /\ pc[u] = "edge" /\ from[u] # Inf /\ epos[u] < rowptr[u + 1] /\ ~Eligible(u)
    /\ epos' = [epos EXCEPT ![u] = @ + 1]
    /\ UNCHANGED <<costs, hasCosts, arrays, host, queues, kernel, pc, from>>

RelaxEdge(u) ==
    LET v == to[epos[u]]
        c == Candidate(u)
        k == <<c, Payload(epos[u])>>
        decreased == c < dist[v]
        same  == decreased /\ Bucket(c) = bucket /\ Unclaimed(v)
        later == decreased /\ Bucket(c) > bucket /\ v \notin inPending
    IN
    /\ pc[u] = "edge" /\ from[u] # Inf /\ epos[u] < rowptr[u + 1] /\ Eligible(u)
    /\ dist' = [dist EXCEPT ![v] = Min2(@, c)]
    /\ key' = [key EXCEPT ![v] = IF PublishesParent(c, v) /\ KeyLess(k, @) THEN k ELSE @]
    /\ touched' = IF decreased /\ dist[v] = Inf THEN Push(touched, v) ELSE touched
    /\ inCurrent' = IF same THEN [inCurrent EXCEPT ![v] = Claim] ELSE inCurrent
    /\ next' = IF same THEN Push(next, v) ELSE next
    /\ inPending' = IF later THEN inPending \cup {v} ELSE inPending
    /\ pending' = IF later THEN Push(pending, v) ELSE pending
    /\ epos' = [epos EXCEPT ![u] = @ + 1]
    /\ UNCHANGED <<costs, hasCosts, generation, inHeavy, host, current, heavy, kernel, pc, from>>

FinishThread(u) ==
    /\ pc[u] = "edge" /\ (from[u] = Inf \/ epos[u] >= rowptr[u + 1])
    /\ pc' = [pc EXCEPT ![u] = "off"]
    /\ epos' = [epos EXCEPT ![u] = 0]
    /\ from' = [from EXCEPT ![u] = Inf]
    /\ inHeavy' = IF kernel = "heavy" THEN inHeavy \ {u} ELSE inHeavy
    /\ UNCHANGED <<costs, hasCosts, dist, key, inCurrent, generation, inPending, touched,
                   host, queues, kernel>>

Kernel(u) == phase = "kernel" /\ (LoadLabel(u) \/ SkipEdge(u) \/ RelaxEdge(u) \/ FinishThread(u))
-----------------------------------------------------------------------------
(* The decision that closes a bucket. *)

\* Mutant of NowSettled: a finite distance is taken for a settled one.
FiniteTargets == {t \in query.targets : dist[t] # Inf}

NowSettled == settled \cup {t \in query.targets : dist[t] # Inf /\ Bucket(dist[t]) <= bucket}

\* The later buckets that hold a pending node.
Successors == {b \in {Bucket(dist[v]) : v \in pending.nodes \cap inPending} :
                  bucket < b /\ b < NoBucket}
NextBucket == CHOOSE b \in Successors : \A c \in Successors : b <= c

StopReason ==
    IF query.targets \subseteq NowSettled THEN "target"
    ELSE IF Successors = {} THEN IF Limited THEN "limit" ELSE "converged"
    ELSE IF Limited /\ NextBucket > LastAllowed THEN "limit"
    ELSE "none"

StopAfterBucket ==
    /\ phase = "settle" /\ StopReason # "none"
    /\ iter' = iter + 1 /\ settled' = NowSettled
    /\ stop' = StopReason /\ phase' = "extract"
    /\ UNCHANGED <<costs, hasCosts, arrays, query, result, bucket, queues, threads>>

\* compact_pending_to_current_bucket_kernel: the pending nodes of the selected
\* bucket become its current queue, those of a closed bucket are dropped.
AdvanceBucket ==
    LET b        == NextBucket
        active   == pending.nodes \cap inPending
        selected == {v \in active : Bucket(dist[v]) = b}
        kept     == {v \in active : b < Bucket(dist[v]) /\ Bucket(dist[v]) < NoBucket}
        free     == {v \in selected : Generations \/ CurrentMarks[v] = 0}
    IN
    /\ phase = "settle" /\ StopReason = "none"
    /\ iter' = iter + 1 /\ settled' = NowSettled /\ bucket' = b
    /\ AcquireToken
    /\ inCurrent' = [v \in Vertex |-> IF v \in free THEN Token ELSE CurrentMarks[v]]
    /\ current' = QueueOf(free)
    /\ pending' = QueueOf(kept)
    /\ inPending' = inPending \ (active \ kept)
    /\ phase' = "bucket"
    /\ UNCHANGED <<costs, hasCosts, dist, key, inHeavy, touched, query, stop, result,
                   next, heavy, threads>>

\* The progress callback throws: the arrays are reset before it propagates.
CallbackThrows ==
    /\ phase = "settle"
    /\ iter' = iter + 1 /\ settled' = NowSettled
    /\ stop' = "threw" /\ phase' = "reset"
    /\ UNCHANGED <<costs, hasCosts, arrays, query, result, bucket, queues, threads>>
-----------------------------------------------------------------------------
(* The answer and the sparse reset. *)

Certified == stop \in {"converged", "target"}
Answered  == IF Certified THEN query.targets ELSE settled

\* The edges that explain v's distance.
TightInto(v) == {e \in Edge : /\ to[e] = v /\ dist[SourceForEdge(e)] # Inf
                              /\ Saturate(dist[SourceForEdge(e)] + Weight(e)) = dist[v]}

\* The edge v's key stands for, as decode_tight_edge_parent or
\* materialize_predecessors_kernel recover it; NoEdge when they cannot.
ParentEdge(v) ==
    LET fits == {e \in TightInto(v) : Payload(e) = key[v][2]} IN
    IF fits = {} \/ (EdgeParents /\ key[v][1] # dist[v]) THEN NoEdge
    ELSE CHOOSE e \in fits : \A f \in fits : e <= f

\* Compact chains end where no key was published, legacy ones at a source.
IsRoot(v) == IF EdgeParents THEN key[v] = NoKey ELSE v \in query.sources

\* measure_edge_parent_target_paths_kernel: walk at most Rows nodes.
ChainRoot(t) ==
    LET walk[k \in 0 .. Rows, v \in Vertex] ==
          IF k = 0 THEN NoEdge
          ELSE IF IsRoot(v) THEN v
          ELSE IF key[v] = NoKey \/ ParentEdge(v) = NoEdge THEN NoEdge
          ELSE walk[k - 1, SourceForEdge(ParentEdge(v))]
    IN  walk[Rows, t]

ChainsValid == \A t \in Answered : dist[t] # Inf => ChainRoot(t) \in query.sources

Extract ==
    /\ phase = "extract"
    /\ IF ChainsValid
       THEN /\ result' = [certified |-> Certified,
                          dist |-> [t \in query.targets |-> IF t \in Answered THEN dist[t] ELSE Inf]]
            /\ stop' = stop
       ELSE stop' = "threw" /\ UNCHANGED result
    /\ phase' = "reset"
    /\ UNCHANGED <<costs, hasCosts, arrays, query, iter, bucket, settled, queues, threads>>

\* Mutant of KeysAfterReset: the reset forgets the parent keys.
KeysKept == key

KeysAfterReset == [v \in Vertex |-> IF v \in touched.nodes THEN NoKey ELSE key[v]]

\* reset_touched_vertices, before the call returns or throws.
Reset ==
    LET nodes == touched.nodes IN
    /\ phase = "reset"
    /\ dist' = [v \in Vertex |-> IF v \in nodes THEN Inf ELSE dist[v]]
    /\ key' = KeysAfterReset
    /\ inCurrent' = IF Generations THEN inCurrent
                    ELSE [v \in Vertex |-> IF v \in nodes THEN 0 ELSE inCurrent[v]]
    /\ inPending' = inPending \ nodes
    /\ inHeavy' = IF EdgeParents /\ SkipHeavy /\ stop # "threw" THEN inHeavy ELSE inHeavy \ nodes
    /\ touched' = EmptyQueue
    /\ phase' = IF stop = "threw" THEN "idle" ELSE "done"
    /\ UNCHANGED <<costs, hasCosts, generation, query, iter, stop, result, bucket, settled,
                   queues, threads>>

Return ==
    /\ phase = "done"
    /\ phase' = "idle" /\ result' = NoResult
    /\ UNCHANGED <<costs, hasCosts, arrays, query, iter, stop, bucket, settled, queues, threads>>
-----------------------------------------------------------------------------
Work == \/ StartBucket \/ LeaveLoop \/ StartLight \/ StartHeavy \/ SkipHeavyPhase \/ EndKernel
        \/ \E u \in Vertex : Kernel(u)
        \/ StopAfterBucket \/ AdvanceBucket \/ Extract \/ Reset
Next == UpdateCosts \/ Begin \/ Work \/ CallbackThrows \/ Return

Spec == Init /\ [][Next]_vars

\* Once launched, kernels and the host code that waits for them do run.
FairSpec == Spec /\ WF_vars(Work)
-----------------------------------------------------------------------------
Queue == [nodes : SUBSET Vertex, count : Nat]

\* The shape of the state.
TypeOK ==
    /\ costs \in [Vertex -> Costs] /\ hasCosts \in BOOLEAN
    /\ dist \in [Vertex -> Cost] /\ key \in [Vertex -> Cost \X Nat]
    /\ inCurrent \in [Vertex -> 0 .. MaxGeneration] /\ generation \in 0 .. MaxGeneration
    /\ inPending \subseteq Vertex /\ inHeavy \subseteq Vertex
    /\ phase \in {"idle", "bucket", "closure", "kernel", "settle", "extract", "reset", "done"}
    /\ query \in Queries /\ iter \in Nat
    /\ stop \in {"none", "target", "converged", "limit", "maxIters", "threw"}
    /\ bucket \in 0 .. NoBucket - 1 /\ settled \subseteq Vertex
    /\ \A q \in {touched, current, next, pending, heavy} : q \in Queue
    /\ kernel \in {"none", "light", "heavy"}
    /\ pc \in [Vertex -> {"off", "load", "edge"}]
    /\ epos \in [Vertex -> 0 .. Nnz] /\ from \in [Vertex -> Cost]

\* However the threads interleave, and whatever generation tokens a wrapped
\* counter hands out again, no queue lists a node twice: each fits in Rows
\* slots and its counter is the number of its nodes.
QueuesFit == \A q \in {touched, current, next, pending, heavy} : q.count = Cardinality(q.nodes)

\* Between queries every array is as a fresh workspace has it, although only
\* the touched nodes were reset and a call may have ended in an exception.
CleanWhenIdle ==
    phase \in {"idle", "done"} =>
        /\ \A v \in Vertex : dist[v] = Inf /\ key[v] = NoKey
        /\ inPending = {} /\ inHeavy = {}
        /\ ~Generations => \A v \in Vertex : inCurrent[v] = 0

\* When a bucket is settled nothing at or below it is left to relax, and every
\* node beyond it is on the pending queue: closing it lost no work, although
\* threads relaxed from distances that were lowered under them.
NoWorkLost ==
    phase = "settle" =>
        /\ \A u \in Vertex : \A e \in OutEdges(u) :
              LET c == Saturate(dist[u] + Weight(e)) IN
              Bucket(dist[u]) <= bucket /\ to[e] \in query.admit /\ c < query.limit
              => dist[to[e]] <= c
        /\ \A v \in Vertex : dist[v] # Inf /\ Bucket(dist[v]) > bucket
                             => v \in pending.nodes \cap inPending

\* Every distance a call hands out is exact: those of a certified answer, the
\* unreachable targets' too, and those of an answer cut short by the iteration
\* budget or the distance limit.  An answer cut short by the limit leaves out
\* only targets that lie at or beyond it.
AnswersExact ==
    phase = "done" =>
        \A t \in query.targets :
            LET d == result.dist[t] IN
            /\ result.certified \/ d # Inf
               => IsDistance(d, t, query.sources, query.admit, costs)
            /\ stop = "limit" /\ d = Inf
               => \E f \in [Vertex -> Cost] :
                     Feasible(f, query.sources, query.admit, costs) /\ f[t] >= query.limit

\* Whatever the interleaving, a settled node's parent is the least payload among
\* all edges that explain its distance: routes do not depend on thread timing.
DeterministicParents ==
    phase = "settle" =>
        \A v \in query.admit :
            Bucket(dist[v]) <= bucket /\ TightInto(v) # {} =>
                /\ key[v][1] = dist[v]
                /\ \E e \in TightInto(v) : key[v][2] = Payload(e)
                /\ \A e \in TightInto(v) : key[v][2] <= Payload(e)

\* The header promises shortest paths for nonnegative edge weights: a settled
\* target's parents lead to a source, so no query throws over its path.
PathsEnd == phase = "extract" => ChainsValid

\* Every call returns or throws.
QueryEnds == phase # "idle" ~> phase = "idle" \/ phase = "done"
=============================================================================
