-------------------------------- MODULE BF11 --------------------------------
(***************************************************************************)
(* One BF11 workspace: a reusable block of device arrays on which a host   *)
(* thread runs frontier Bellman-Ford queries, each round of a query being  *)
(* a GPU kernel with one thread per frontier node.  The kernel's threads   *)
(* interleave at every atomic operation; the host's steps follow one       *)
(* another.  The cooperative controller and the host controller decide the *)
(* same way and are modelled as one.                                       *)
(***************************************************************************)
EXTENDS CsrGraph, Sequences

CONSTANTS
    Costs,      \* multipliers update_vertex_costs may install
    Queries,    \* queries run may be given
    Fallback    \* those made with auto_bounds and unbounded_fallback

\* What deduplicate_nodes, validate_run_options and validate_terminal_bounds
\* let through: nonempty terminal sets inside the admitted nodes.
ASSUME QueryAssumption ==
    /\ Costs \subseteq Nat /\ 1 \in Costs
    /\ \A r \in Queries :
          /\ r \in [sources : SUBSET Vertex, targets : SUBSET Vertex,
                    admit : SUBSET Vertex, maxIters : Int, interval : Nat \ {0}]
          /\ r.sources # {} /\ r.targets # {}
          /\ r.sources \cup r.targets \subseteq r.admit
    /\ Fallback \subseteq Queries

VARIABLES
    \* device arrays that outlive a query
    dyn,            \* dynamic_vertex_cost
    label,          \* distance half of best_state
    pred,           \* predecessor half of best_state: an edge or NoEdge
    mark,           \* next_marks: the last round that enqueued the node
    srcMask,        \* nodes whose source_mask byte is set
    touched,        \* the nodes listed in touched_nodes[0 .. touched_count-1]
    touchedCount,
    needsReset,     \* needs_full_state_reset, on the host
    \* the query under way
    phase,          \* where run_once stands
    query,          \* its arguments
    retried,        \* run_once was called again, without bounds
    iter,           \* completed rounds
    stop,           \* why the controller stopped
    result,         \* what run_once returns
    \* the round under way
    frontier,       \* nodes the round relaxes from
    next,           \* nodes in next_frontier
    nextCount,
    minNext,        \* min_next_frontier_dist
    errorStatus,
    \* one kernel thread per frontier node
    pc, epos, from, low

device  == <<label, pred, mark, srcMask, touched, touchedCount>>
round   == <<frontier, next, nextCount, minNext, errorStatus>>
threads == <<pc, epos, from, low>>
asked   == <<query, retried>>
host    == <<needsReset, phase, asked, iter, stop, result>>
vars    == <<dyn, device, host, round, threads>>

Min2(a, b) == IF a < b THEN a ELSE b

\* Mutant of Budget: one round short of a longest simple path.
BudgetOneShort == IF query.maxIters < 0 THEN Rows - 2 ELSE query.maxIters

\* A negative max_iterations asks for a round per edge of a longest simple path.
Budget     == IF query.maxIters < 0 THEN Rows - 1 ELSE query.maxIters
Certified  == stop \in {"converged", "target"}
NoResult   == [certified |-> FALSE, dist |-> <<>>]

IdleThreads == /\ pc   = [v \in Vertex |-> "off"]
               /\ epos = [v \in Vertex |-> 0]
               /\ from = [v \in Vertex |-> Inf]
               /\ low  = [v \in Vertex |-> Inf]

\* make_workspace: clean arrays, unit multipliers.
Init ==
    /\ dyn = [v \in Vertex |-> 1]
    /\ label = [v \in Vertex |-> Inf]
    /\ pred = [v \in Vertex |-> NoEdge]
    /\ mark = [v \in Vertex |-> 0]
    /\ srcMask = {} /\ touched = {} /\ touchedCount = 0
    /\ needsReset = FALSE
    /\ phase = "idle" /\ query \in Queries /\ retried = FALSE /\ iter = 0 /\ stop = "none"
    /\ result = NoResult
    /\ frontier = {} /\ next = {} /\ nextCount = 0 /\ minNext = Inf
    /\ errorStatus = 0
    /\ IdleThreads
-----------------------------------------------------------------------------
(* The host, holding operation_mutex from Begin until Return. *)

\* Mutant of UpdateCosts: operation_mutex not taken.
UpdateCostsUnlocked ==
    /\ dyn' \in [Vertex -> Costs]
    /\ UNCHANGED <<device, host, round, threads>>

\* update_vertex_costs and its sparse form: a cost epoch excludes queries.
UpdateCosts ==
    /\ phase = "idle"
    /\ dyn' \in [Vertex -> Costs]
    /\ UNCHANGED <<device, host, round, threads>>

\* run takes the mutex, validates and deduplicates the terminals.
Begin ==
    /\ phase = "idle"
    /\ query' \in Queries /\ retried' = FALSE
    /\ phase' = "begin" /\ iter' = 0 /\ stop' = "none"
    /\ UNCHANGED <<dyn, device, needsReset, result, round, threads>>

Cleared(f, nodes, value) == [v \in Vertex |-> IF v \in nodes THEN value ELSE f[v]]

\* Mutant of ClearNodes: the marks of the aborted query survive.
ClearAllButMarks(nodes) ==
    /\ label' = Cleared(label, nodes, Inf)
    /\ pred' = Cleared(pred, nodes, NoEdge)
    /\ mark' = mark
    /\ srcMask' = srcMask \ nodes

\* clear_state_kernel / clear_touched_state_kernel over a set of nodes.
ClearNodes(nodes) ==
    /\ label' = Cleared(label, nodes, Inf)
    /\ pred' = Cleared(pred, nodes, NoEdge)
    /\ mark' = Cleared(mark, nodes, 0)
    /\ srcMask' = srcMask \ nodes

\* fully_reset_workspace_state: the query before this one did not complete.
DenseReset ==
    /\ phase = "begin" /\ needsReset
    /\ ClearNodes(Vertex)
    /\ touched' = {} /\ touchedCount' = 0
    /\ needsReset' = FALSE
    /\ UNCHANGED <<dyn, phase, asked, iter, stop, result, round, threads>>

\* Raise the flag that only a completely materialised result lowers.
Arm ==
    /\ phase = "begin" /\ ~needsReset
    /\ needsReset' = TRUE /\ phase' = "reset"
    /\ UNCHANGED <<dyn, device, asked, iter, stop, result, round, threads>>

\* Sparse reset of the nodes on the touched list, in the same kernel sequence
\* as seeding: every source gets label 0 and lists itself as touched.
ResetAndSeed ==
    LET S == query.sources IN
    /\ phase = "reset"
    /\ label' = [v \in Vertex |-> IF v \in S THEN 0 ELSE IF v \in touched THEN Inf ELSE label[v]]
    /\ pred' = Cleared(pred, touched \cup S, NoEdge)
    /\ mark' = Cleared(mark, touched, 0)
    /\ srcMask' = (srcMask \ touched) \cup S
    /\ touched' = S /\ touchedCount' = Cardinality(S)
    /\ frontier' = S
    /\ phase' = "loop"
    /\ UNCHANGED <<dyn, needsReset, asked, iter, stop, result,
                   next, nextCount, minNext, errorStatus, threads>>

\* reset_iteration_status_kernel and the launch of the relaxation kernel.
StartRound ==
    /\ phase = "loop" /\ iter < Budget
    /\ next' = {} /\ nextCount' = 0 /\ minNext' = Inf /\ errorStatus' = 0
    /\ pc' = [v \in Vertex |-> IF v \in frontier THEN "load" ELSE "off"]
    /\ phase' = "round"
    /\ UNCHANGED <<dyn, device, needsReset, asked, iter, stop, result,
                   frontier, epos, from, low>>

\* Mutant of NoRounds: the budget is compared with > instead of >=.
NoRoundsPastBudget ==
    /\ phase = "loop" /\ iter > Budget
    /\ stop' = IF query.targets \subseteq query.sources THEN "target" ELSE "maxIters"
    /\ phase' = "stopped"
    /\ UNCHANGED <<dyn, device, needsReset, asked, iter, result, round, threads>>

\* A budget of no rounds at all.  Targets that are all sources are exact
\* before the first relaxation, so run_once turns that case into a stop on
\* target.
NoRounds ==
    /\ phase = "loop" /\ iter >= Budget
    /\ stop' = IF query.targets \subseteq query.sources THEN "target" ELSE "maxIters"
    /\ phase' = "stopped"
    /\ UNCHANGED <<dyn, device, needsReset, asked, iter, result, round, threads>>
-----------------------------------------------------------------------------
(* The kernel: thread u relaxes the edges leaving frontier node u.  The CAS *)
(* loop of atomic_relax_strict is one step, its last attempt.               *)

\* A plain load of the label: it may be lowered again before u is done.
LoadLabel(u) ==
    /\ pc[u] = "load"
    /\ from' = [from EXCEPT ![u] = label[u]]
    /\ low' = [low EXCEPT ![u] = Inf]
    /\ epos' = [epos EXCEPT ![u] = rowptr[u]]
    /\ pc' = [pc EXCEPT ![u] = IF label[u] = Inf THEN "off" ELSE "edge"]
    /\ UNCHANGED <<dyn, device, host, round>>

Candidate(u) == Saturate(from[u] + EffectiveWeight(epos[u], dyn))

NextEdge(u) == epos' = [epos EXCEPT ![u] = @ + 1]

\* The nodes the bounds of the run under way let through.
Admit == IF retried THEN Vertex ELSE query.admit

\* Edges into a source or out of the box are never relaxed.
Admitted(v) == v \in Admit /\ v \notin srcMask

\* Mutant of Improves: an equal candidate replaces the predecessor.
ImprovesOrTies(u) ==
    LET v == to[epos[u]] IN
    Admitted(v) /\ Candidate(u) # Inf /\ Candidate(u) <= label[v]

\* The candidate is finite and strictly better.
Improves(u) == LET v == to[epos[u]] IN Admitted(v) /\ Candidate(u) < label[v]

\* An edge that changes no label; a weight that overflows is an error.
SkipEdge(u) ==
    /\ pc[u] = "edge" /\ epos[u] < rowptr[u + 1]
    /\ ~Improves(u)
    /\ errorStatus' = IF Admitted(to[epos[u]]) /\ EffectiveWeight(epos[u], dyn) = Inf
                      THEN 3 ELSE errorStatus
    /\ NextEdge(u)
    /\ UNCHANGED <<dyn, device, host, frontier, next, nextCount, minNext, pc, from, low>>

\* Mutant of AfterRelax: a discovery is queued but never listed as touched.
StraightToQueue(v) == "enqueue"

\* A label that was infinite makes the improvement the discovery of v.
AfterRelax(v) == IF label[v] = Inf THEN "publish" ELSE "enqueue"

RelaxEdge(u) ==
    LET v == to[epos[u]] IN
    /\ pc[u] = "edge" /\ epos[u] < rowptr[u + 1]
    /\ Improves(u)
    /\ label' = [label EXCEPT ![v] = Candidate(u)]
    /\ pred' = [pred EXCEPT ![v] = epos[u]]
    /\ pc' = [pc EXCEPT ![u] = AfterRelax(v)]
    /\ UNCHANGED <<dyn, mark, srcMask, touched, touchedCount, host, round, epos, from, low>>

\* The thread that discovered v appends it to the touched list.
PublishTouched(u) ==
    /\ pc[u] = "publish"
    /\ touchedCount' = touchedCount + 1
    /\ IF touchedCount >= Rows
       THEN /\ errorStatus' = 5 /\ NextEdge(u) /\ pc' = [pc EXCEPT ![u] = "edge"]
            /\ UNCHANGED touched
       ELSE /\ touched' = touched \cup {to[epos[u]]}
            /\ pc' = [pc EXCEPT ![u] = "enqueue"]
            /\ UNCHANGED <<errorStatus, epos>>
    /\ UNCHANGED <<dyn, label, pred, mark, srcMask, host,
                   frontier, next, nextCount, minNext, from, low>>

\* Mutant of FirstInRound: the exchanged mark is not looked at.
EveryTime(v) == v \in Vertex

\* atomicExch of the mark returns something else than this round's token.
FirstInRound(v) == mark[v] # iter + 1

\* The first thread of the round to exchange v's mark appends v to the next
\* frontier; the candidate counts towards the round's minimum either way.
Enqueue(u) ==
    LET v == to[epos[u]]
        fresh == FirstInRound(v)
        full  == fresh /\ nextCount >= Rows
    IN
    /\ pc[u] = "enqueue"
    /\ mark' = [mark EXCEPT ![v] = iter + 1]
    /\ nextCount' = IF fresh THEN nextCount + 1 ELSE nextCount
    /\ next' = IF fresh /\ ~full THEN next \cup {v} ELSE next
    /\ errorStatus' = IF full THEN 4 ELSE errorStatus
    /\ low' = IF full THEN low ELSE [low EXCEPT ![u] = Min2(@, Candidate(u))]
    /\ pc' = [pc EXCEPT ![u] = "edge"]
    /\ NextEdge(u)
    /\ UNCHANGED <<dyn, label, pred, srcMask, touched, touchedCount, host,
                   frontier, minNext, from>>

\* atomicMin of the thread's smallest candidate.
FinishThread(u) ==
    /\ pc[u] = "edge" /\ epos[u] >= rowptr[u + 1]
    /\ minNext' = Min2(minNext, low[u])
    /\ pc' = [pc EXCEPT ![u] = "off"]
    /\ epos' = [epos EXCEPT ![u] = 0]
    /\ from' = [from EXCEPT ![u] = Inf]
    /\ low' = [low EXCEPT ![u] = Inf]
    /\ UNCHANGED <<dyn, device, host, frontier, next, nextCount, errorStatus>>

Kernel(u) == /\ phase = "round"
             /\ \/ LoadLabel(u) \/ SkipEdge(u) \/ RelaxEdge(u)
                \/ PublishTouched(u) \/ Enqueue(u) \/ FinishThread(u)
-----------------------------------------------------------------------------
(* The controller's decision after a round, and the end of the query. *)

TargetsReached == \A t \in query.targets : label[t] # Inf

\* Mutant of LabelsFinal: one final target is enough.
SomeLabelFinal == \E t \in query.targets : label[t] <= minNext

\* Every later improvement starts from a next-frontier label, so labels up to
\* minNext are final.
LabelsFinal == \A t \in query.targets : label[t] <= minNext

CheckDue == (iter + 1) % query.interval = 0

StopReason ==
    IF nextCount = 0 THEN "converged"
    ELSE IF CheckDue /\ TargetsReached /\ LabelsFinal THEN "target"
    ELSE IF iter + 1 >= Budget THEN "maxIters"
    ELSE "none"

\* Device error: throw_controller_error leaves the flag raised.
Decide ==
    /\ phase = "round" /\ \A v \in Vertex : pc[v] = "off"
    /\ iter' = iter + 1
    /\ IF errorStatus # 0
       THEN phase' = "idle" /\ UNCHANGED <<stop, frontier>>
       ELSE /\ stop' = StopReason
            /\ phase' = IF StopReason = "none" THEN "loop" ELSE "stopped"
            /\ frontier' = IF StopReason = "none" THEN next ELSE frontier
    /\ UNCHANGED <<dyn, device, needsReset, asked, result,
                   next, nextCount, minNext, errorStatus, threads>>

BadChain == [valid |-> FALSE, root |-> -1, edges |-> <<>>, cost |-> Inf]

\* Following predecessors from v over at most k nodes.
Walk[k \in 0 .. Rows + 1] ==
    [v \in Vertex |->
       IF k = 0 THEN BadChain
       ELSE IF pred[v] = NoEdge
            THEN IF v \in srcMask /\ label[v] = 0
                 THEN [valid |-> TRUE, root |-> v, edges |-> <<>>, cost |-> 0]
                 ELSE BadChain
            ELSE IF to[pred[v]] # v THEN BadChain
                 ELSE LET up == Walk[k - 1][SourceForEdge(pred[v])]
                      IN  [up EXCEPT !.edges = Append(@, pred[v]),
                                     !.cost = Saturate(@ + EffectiveWeight(pred[v], dyn))]]

\* summarize_target_paths_kernel: at most Rows + 1 nodes.
Chain(t) == Walk[Rows + 1][t]

ChainsValid == \A t \in query.targets : label[t] # Inf => Chain(t).valid

\* Materialise the answer and lower the flag, or throw on a broken chain.
Reply ==
    /\ phase = "stopped"
    /\ IF ChainsValid
       THEN /\ phase' = "done" /\ needsReset' = FALSE
            /\ result' = [certified |-> Certified, dist |-> [t \in query.targets |-> label[t]]]
       ELSE phase' = "idle" /\ UNCHANGED <<needsReset, result>>
    /\ UNCHANGED <<dyn, device, asked, iter, stop, round, threads>>

\* The run was bounded, and some target lies beyond the bounds or nowhere.
MissedInBounds ==
    query \in Fallback /\ ~retried /\ \E t \in query.targets : result.dist[t] = Inf

\* run with auto_bounds and unbounded_fallback: once more, in the same call.
RunUnbounded ==
    /\ phase = "done" /\ MissedInBounds
    /\ retried' = TRUE /\ phase' = "begin" /\ iter' = 0 /\ stop' = "none" /\ result' = NoResult
    /\ UNCHANGED <<dyn, device, needsReset, query, round, threads>>

Return ==
    /\ phase = "done" /\ ~MissedInBounds
    /\ phase' = "idle" /\ result' = NoResult
    /\ UNCHANGED <<dyn, device, needsReset, asked, iter, stop, round, threads>>

\* A HIP call fails.  While the flag is raised, whatever the kernels had done
\* so far stays in the device arrays, a reset having cleared any of its nodes.
Abort ==
    /\ phase \in {"begin", "reset", "loop", "round", "stopped"}
    /\ \E nodes \in SUBSET Vertex :
          /\ nodes # {} => \/ phase = "begin" /\ needsReset
                           \/ phase = "reset" /\ nodes \subseteq touched
          /\ ClearNodes(nodes)
    /\ phase' = "idle"
    /\ pc' = [v \in Vertex |-> "off"]
    /\ epos' = [v \in Vertex |-> 0]
    /\ from' = [v \in Vertex |-> Inf]
    /\ low' = [v \in Vertex |-> Inf]
    /\ UNCHANGED <<dyn, touched, touchedCount, needsReset, asked, iter, stop, result, round>>
-----------------------------------------------------------------------------
Work == \/ DenseReset \/ Arm \/ ResetAndSeed \/ StartRound \/ NoRounds
        \/ \E u \in Vertex : Kernel(u)
        \/ Decide \/ Reply \/ RunUnbounded
Next == UpdateCosts \/ Begin \/ Work \/ Return \/ Abort

Spec == Init /\ [][Next]_vars

\* Once launched, kernels and the host code that waits for them do run.
FairSpec == Spec /\ WF_vars(Work)
-----------------------------------------------------------------------------
Phases == {"idle", "begin", "reset", "loop", "round", "stopped", "done"}

\* The shape of the state.
TypeOK ==
    /\ dyn \in [Vertex -> Costs]
    /\ label \in [Vertex -> Cost] /\ pred \in [Vertex -> Edge \cup {NoEdge}]
    /\ mark \in [Vertex -> Nat]
    /\ srcMask \subseteq Vertex /\ touched \subseteq Vertex /\ touchedCount \in Nat
    /\ needsReset \in BOOLEAN /\ phase \in Phases /\ query \in Queries /\ retried \in BOOLEAN /\ iter \in Nat
    /\ stop \in {"none", "converged", "target", "maxIters"}
    /\ frontier \subseteq Vertex /\ next \subseteq Vertex /\ nextCount \in Nat
    /\ minNext \in Cost /\ errorStatus \in {0, 3, 4, 5}
    /\ pc \in [Vertex -> {"off", "load", "edge", "publish", "enqueue"}]
    /\ epos \in [Vertex -> 0 .. Nnz] /\ from \in [Vertex -> Cost] /\ low \in [Vertex -> Cost]

\* Nodes whose discovery is not on the touched list yet.
Publishing == {to[epos[u]] : u \in {x \in Vertex : pc[x] = "publish"}}

\* The arrays may be reset sparsely in these states.
Trusted == phase \in {"reset", "loop", "round", "stopped", "done"} \/ ~needsReset

\* Every node whose label, predecessor, mark or source bit differs from the
\* default is on the touched list, exactly once, or is being put there by the
\* one thread that discovered it (DeviceWorkspace::touched_nodes).
TouchedComplete ==
    Trusted =>
        /\ \A v \in Vertex :
              \/ label[v] # Inf \/ pred[v] # NoEdge \/ mark[v] # 0 \/ v \in srcMask
              => v \in touched \cup Publishing
        /\ touchedCount = Cardinality(touched)

\* However the queries before this one ended, a query starts from labels that
\* only its own sources carry, with no stale mark, source bit or predecessor.
CleanSeed ==
    phase = "loop" /\ iter = 0 =>
        /\ label = [v \in Vertex |-> IF v \in query.sources THEN 0 ELSE Inf]
        /\ srcMask = query.sources
        /\ \A v \in Vertex : pred[v] = NoEdge /\ mark[v] = 0

\* No interleaving of relaxations lists a node twice, so neither queue can
\* overflow its Rows slots (errors 4 and 5), and the count of the next
\* frontier is the number of nodes in it.
QueuesFit ==
    /\ errorStatus \notin {4, 5}
    /\ phase = "round" => nextCount = Cardinality(next)

\* Following predecessors never leads back to a node already seen, zero-cost
\* edges included: every nonempty set of labelled nodes that are not sources
\* contains one whose predecessor is outside the set.
NoPredecessorCycle ==
    phase \in {"loop", "round", "stopped"} =>
        \A S \in SUBSET (Vertex \ srcMask) :
            S # {} /\ (\A v \in S : label[v] # Inf)
            => \E v \in S : SourceForEdge(pred[v]) \notin S

\* A certificate means exact distances, for a reached and for an unreachable
\* target alike, although the controller stopped before a fixed point and
\* threads read labels that were lowered under them.  The path handed out costs
\* what the distance says, although a predecessor may have been improved since
\* it set its successor's label.
CertifiedExact ==
    phase = "done" /\ result.certified =>
        \A t \in query.targets :
            /\ IsDistance(result.dist[t], t, query.sources, Admit, dyn)
            /\ result.dist[t] # Inf => Chain(t).cost = result.dist[t]

\* With a check after every round, the default budget of Rows - 1 rounds ends
\* with a certificate: a node improved in the last of them lies behind every
\* target.
DefaultBudgetCertifies ==
    phase = "done" /\ query.maxIters < 0 => result.certified

\* Every call throws or comes to an answer it returns: one that missed a target
\* in its bounds is not the end if the call falls back, and the run without
\* bounds happens once.
QueryEnds == phase # "idle" ~> phase = "idle" \/ (phase = "done" /\ ~MissedInBounds)
=============================================================================
