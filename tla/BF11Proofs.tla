------------------------------ MODULE BF11Proofs ------------------------------
(***************************************************************************)
(* Theorems about BF11 for every graph, every set of multipliers and every *)
(* set of queries that satisfy GraphAssumption and QueryAssumption.  First *)
(* types and the lists of the kernel.  Then why its answers are right: the *)
(* predecessors form a forest, labels bound distances from above, and      *)
(* labels below a certificate's horizon are distances, for every           *)
(* interleaving of the relaxation threads.  Then what a caller may rely    *)
(* on: a workspace is an SSSP oracle, and the default budget of rounds is  *)
(* enough for a certificate.                                               *)
(***************************************************************************)
EXTENDS BF11Refinement, CsrGraphLemmas

-----------------------------------------------------------------------------
(* Type correctness.  A thread's edge cursor must stay inside its row, which *)
(* TypeOK alone does not say.                                                *)

Working == {"edge", "publish", "enqueue"}
CursorOK ==
    \A u \in Vertex : pc[u] \in Working =>
        /\ phase = "round"
        /\ rowptr[u] <= epos[u] /\ epos[u] <= rowptr[u + 1]
        /\ pc[u] # "edge" => epos[u] < rowptr[u + 1]

TypeInv == TypeOK /\ CursorOK

LEMMA TypeInit == Init => TypeInv
  <1> SUFFICES ASSUME Init PROVE TypeInv
    OBVIOUS
  <1>1. dyn \in [Vertex -> Costs]
    BY QueryAssumption DEF Init
  <1>2. label \in [Vertex -> Cost] /\ from \in [Vertex -> Cost] /\ low \in [Vertex -> Cost] /\ minNext \in Cost
    BY CostEnds, GraphTypes DEF Init, IdleThreads
  <1>3. epos \in [Vertex -> 0 .. Nnz]
    BY GraphTypes DEF Init, IdleThreads
  <1>4. TypeOK
    BY <1>1, <1>2, <1>3 DEF Init, IdleThreads, TypeOK, Phases
  <1>5. CursorOK
    BY DEF Init, IdleThreads, CursorOK, Working
  <1> QED BY <1>4, <1>5 DEF TypeInv

LEMMA DynNat == TypeInv => dyn \in [Vertex -> Nat]
  BY QueryAssumption DEF TypeInv, TypeOK

\* The edge under a working thread's cursor is an edge of its row.
LEMMA CursorEdge ==
  ASSUME TypeInv, NEW u \in Vertex, pc[u] \in Working, epos[u] < rowptr[u + 1]
  PROVE  /\ epos[u] \in OutEdges(u) /\ epos[u] \in Edge /\ to[epos[u]] \in Vertex
         /\ SourceForEdge(epos[u]) = u
         /\ EffectiveWeight(epos[u], dyn) \in Cost /\ Candidate(u) \in Cost
         /\ epos[u] + 1 \in 0 .. Nnz /\ epos[u] + 1 <= rowptr[u + 1]
  <1>1. epos[u] \in 0 .. Nnz /\ rowptr[u] <= epos[u] /\ rowptr[u] \in Int /\ rowptr[u + 1] \in 0 .. Nnz
    BY RowBounds DEF TypeInv, TypeOK, CursorOK
  <1>2. epos[u] \in OutEdges(u)
    BY <1>1 DEF OutEdges
  <1>3. epos[u] \in Edge /\ SourceForEdge(epos[u]) = u
    BY <1>2, EdgesOfRow, SourceOfRowEdge
  <1>4. EffectiveWeight(epos[u], dyn) \in Cost
    BY <1>3, DynNat, WeightType
  <1>5. from[u] + EffectiveWeight(epos[u], dyn) \in Nat
    BY <1>4, CostEnds DEF TypeInv, TypeOK
  <1>6. Candidate(u) \in Cost
    BY <1>5, SaturateType DEF Candidate
  <1>7. epos[u] + 1 \in 0 .. Nnz /\ epos[u] + 1 <= rowptr[u + 1]
    BY <1>1, GraphTypes
  <1> QED BY <1>2, <1>3, <1>4, <1>6, <1>7, GraphTypes

LEMMA TypeStep == TypeInv /\ [Next]_vars => TypeInv'
  <1> SUFFICES ASSUME TypeInv, [Next]_vars PROVE TypeInv'
    OBVIOUS
  <1> USE DEF TypeInv
  <1>1. CASE UpdateCosts
    BY <1>1 DEF UpdateCosts, device, host, asked, round, threads, TypeOK, CursorOK
  <1>2. CASE Begin
    BY <1>2 DEF Begin, device, host, asked, round, threads, TypeOK, CursorOK, Phases
  <1>3. CASE DenseReset
    <2>1. label' \in [Vertex -> Cost] /\ pred' \in [Vertex -> Edge \cup {NoEdge}] /\ mark' \in [Vertex -> Nat]
      BY <1>3, CostEnds DEF DenseReset, ClearNodes, Cleared, TypeOK
    <2> QED BY <1>3, <2>1 DEF asked, DenseReset, ClearNodes, round, threads, TypeOK, CursorOK, Phases
  <1>4. CASE Arm
    BY <1>4 DEF Arm, device, host, asked, round, threads, TypeOK, CursorOK, Phases
  <1>5. CASE ResetAndSeed
    <2>1. query.sources \subseteq Vertex /\ Cardinality(query.sources) \in Nat
      <3>1. query.sources \subseteq Vertex
        BY QueryAssumption DEF TypeOK
      <3>2. IsFiniteSet(Vertex)
        BY GraphTypes, FS_Interval DEF Vertex
      <3> QED BY <3>1, <3>2, FS_Subset, FS_CardinalityType
    <2>2. label' \in [Vertex -> Cost]
      BY <1>5, CostEnds DEF ResetAndSeed, TypeOK
    <2>3. pred' \in [Vertex -> Edge \cup {NoEdge}] /\ mark' \in [Vertex -> Nat]
      BY <1>5 DEF ResetAndSeed, Cleared, TypeOK
    <2> QED BY <1>5, <2>1, <2>2, <2>3 DEF asked, ResetAndSeed, threads, TypeOK, CursorOK, Phases
  <1>6. CASE StartRound
    <2>1. TypeOK'
      BY <1>6, CostEnds, GraphTypes DEF asked, StartRound, device, TypeOK, Phases
    <2>2. CursorOK'
      BY <1>6 DEF StartRound, TypeOK, CursorOK, Working
    <2> QED BY <2>1, <2>2
  <1>7. CASE NoRounds
    BY <1>7 DEF asked, NoRounds, device, round, threads, TypeOK, CursorOK, Phases
  <1>8. ASSUME NEW u \in Vertex, phase = "round",
               \/ LoadLabel(u) \/ SkipEdge(u) \/ RelaxEdge(u)
               \/ PublishTouched(u) \/ Enqueue(u) \/ FinishThread(u)
        PROVE  TypeInv'
    <2>0. phase = "round" /\ rowptr[u] \in 0 .. Nnz /\ rowptr[u + 1] \in 0 .. Nnz /\ rowptr[u] <= rowptr[u + 1]
      BY <1>8, RowBounds, GraphAssumption DEF Vertex
    <2>a. ASSUME pc[u] \in Working, epos[u] < rowptr[u + 1]
          PROVE  /\ to[epos[u]] \in Vertex /\ epos[u] \in Edge /\ Candidate(u) \in Cost
                 /\ epos[u] + 1 \in 0 .. Nnz /\ epos[u] + 1 <= rowptr[u + 1]
                 /\ rowptr[u] <= epos[u] + 1
      <3>1. rowptr[u] <= epos[u] /\ epos[u] \in 0 .. Nnz
        BY <2>a DEF CursorOK, TypeOK
      <3>2. rowptr[u] <= epos[u] + 1
        BY <3>1, <2>0
      <3> QED BY <2>a, <3>2, CursorEdge
    <2>1. CASE LoadLabel(u)
      <3>1. TypeOK'
        BY <2>1, <2>0, CostEnds DEF LoadLabel, device, host, asked, round, TypeOK
      <3>2. CursorOK'
        BY <2>1, <2>0 DEF LoadLabel, host, asked, TypeOK, CursorOK, Working
      <3> QED BY <3>1, <3>2
    <2>2. CASE SkipEdge(u)
      <3>0. pc[u] \in Working /\ epos[u] < rowptr[u + 1]
        BY <2>2 DEF SkipEdge, Working
      <3>1. TypeOK'
        BY <2>2, <2>a, <3>0 DEF SkipEdge, NextEdge, device, host, asked, TypeOK
      <3>2. CursorOK'
        BY <2>2, <2>a, <3>0 DEF SkipEdge, NextEdge, host, asked, TypeOK, CursorOK
      <3> QED BY <3>1, <3>2
    <2>3. CASE RelaxEdge(u)
      <3>0. pc[u] \in Working /\ epos[u] < rowptr[u + 1]
        BY <2>3 DEF RelaxEdge, Working
      <3>1. TypeOK'
        BY <2>3, <2>a, <3>0 DEF RelaxEdge, AfterRelax, host, asked, round, TypeOK
      <3>2. CursorOK'
        BY <2>3, <3>0 DEF RelaxEdge, host, asked, TypeOK, CursorOK
      <3> QED BY <3>1, <3>2
    <2>4. CASE PublishTouched(u)
      <3>0. pc[u] \in Working /\ epos[u] < rowptr[u + 1]
        BY <2>4 DEF PublishTouched, Working, CursorOK
      <3>1. TypeOK'
        BY <2>4, <2>a, <3>0 DEF PublishTouched, NextEdge, host, asked, TypeOK
      <3>2. CursorOK'
        BY <2>4, <2>a, <3>0 DEF PublishTouched, NextEdge, host, asked, TypeOK, CursorOK
      <3> QED BY <3>1, <3>2
    <2>5. CASE Enqueue(u)
      <3>0. pc[u] \in Working /\ epos[u] < rowptr[u + 1]
        BY <2>5 DEF Enqueue, Working, CursorOK
      <3>1. TypeOK'
        BY <2>5, <2>a, <3>0 DEF Enqueue, NextEdge, Min2, host, asked, TypeOK
      <3>2. CursorOK'
        BY <2>5, <2>a, <3>0 DEF Enqueue, NextEdge, host, asked, TypeOK, CursorOK
      <3> QED BY <3>1, <3>2
    <2>6. CASE FinishThread(u)
      <3>1. TypeOK'
        <4>1. minNext' \in Cost /\ pc' \in [Vertex -> {"off", "load", "edge", "publish", "enqueue"}]
          BY <2>6, CostEnds DEF FinishThread, Min2, TypeOK
        <4>2. epos' \in [Vertex -> 0 .. Nnz] /\ from' \in [Vertex -> Cost] /\ low' \in [Vertex -> Cost]
          BY <2>6, CostEnds, GraphTypes DEF FinishThread, TypeOK
        <4>3. UNCHANGED <<dyn, device, host, frontier, next, nextCount, errorStatus>>
          BY <2>6 DEF FinishThread
        <4> QED BY <4>1, <4>2, <4>3 DEF device, host, asked, TypeOK
      <3>2. CursorOK'
        BY <2>6 DEF FinishThread, host, asked, TypeOK, CursorOK, Working
      <3> QED BY <3>1, <3>2
    <2> QED BY <1>8, <2>1, <2>2, <2>3, <2>4, <2>5, <2>6
  <1>9. CASE Decide
    BY <1>9 DEF Decide, StopReason, device, host, asked, round, threads, TypeOK, CursorOK, Phases, Working
  <1>10. CASE Reply
    BY <1>10 DEF Reply, device, host, asked, round, threads, TypeOK, CursorOK, Phases
  <1>11. CASE Return \/ RunUnbounded
    <2>1. UNCHANGED <<dyn, device, needsReset, query, round, threads>> /\ phase = "done"
      BY <1>11 DEF Return, RunUnbounded, asked
    <2>2. /\ phase' \in Phases /\ retried' \in BOOLEAN /\ iter' \in Nat
          /\ stop' \in {"none", "converged", "target", "maxIters"}
      <3>1. CASE Return
        BY <3>1 DEF Return, asked, TypeOK, Phases
      <3>2. CASE RunUnbounded
        BY <3>2 DEF RunUnbounded, Phases
      <3> QED BY <1>11, <3>1, <3>2
    <2> QED BY <2>1, <2>2 DEF device, round, threads, TypeOK, CursorOK
  <1>12. CASE Abort
    BY <1>12, CostEnds, GraphTypes DEF asked, Abort, ClearNodes, Cleared, round, TypeOK, CursorOK, Phases, Working
  <1>13. CASE UNCHANGED vars
    BY <1>13 DEF vars, device, host, asked, round, threads, TypeOK, CursorOK
  <1> QED BY <1>1, <1>2, <1>3, <1>4, <1>5, <1>6, <1>7, <1>8, <1>9, <1>10, <1>11, <1>12, <1>13
          DEF Next, Work, Kernel

\* The workspace's arrays, queues and counters keep their shapes: labels are
\* costs, predecessors are edges, cursors are offsets of the edge array.
THEOREM TypeCorrect == Spec => []TypeOK
  <1>1. Spec => []TypeInv
    BY TypeInit, TypeStep, PTL DEF Spec
  <1> QED BY <1>1, PTL DEF TypeInv

-----------------------------------------------------------------------------
(* What the host's phase says about the other variables. *)

InQuery == phase \in {"loop", "round", "stopped"}

PhaseInv ==
    /\ phase \in {"begin", "reset"} => iter = 0
    /\ phase # "round" => \A u \in Vertex : pc[u] = "off"
    /\ phase \in {"reset", "loop", "round", "stopped"} => needsReset

LEMMA PhaseInit == Init => PhaseInv
  BY DEF Init, IdleThreads, PhaseInv

LEMMA PhaseStep == TypeInv /\ PhaseInv /\ [Next]_vars => PhaseInv'
  <1> SUFFICES ASSUME TypeInv, PhaseInv, [Next]_vars PROVE PhaseInv'
    OBVIOUS
  <1> USE DEF PhaseInv
  <1>1. CASE UpdateCosts
    BY <1>1 DEF UpdateCosts, host, asked, threads
  <1>2. CASE Begin
    BY <1>2 DEF Begin, threads
  <1>3. CASE DenseReset
    BY <1>3 DEF DenseReset, threads
  <1>4. CASE Arm
    BY <1>4 DEF Arm, threads
  <1>5. CASE ResetAndSeed
    BY <1>5 DEF ResetAndSeed, threads
  <1>6. CASE StartRound
    BY <1>6 DEF StartRound
  <1>7. CASE NoRounds
    BY <1>7 DEF NoRounds, threads
  <1>8. ASSUME NEW u \in Vertex, Kernel(u) PROVE PhaseInv'
    BY <1>8 DEF Kernel, LoadLabel, SkipEdge, RelaxEdge, PublishTouched, Enqueue, FinishThread, host, asked
  <1>9. CASE Decide
    BY <1>9 DEF Decide, StopReason, threads
  <1>10. CASE Reply
    BY <1>10 DEF Reply, threads
  <1>11. CASE Return \/ RunUnbounded
    BY <1>11 DEF Return, RunUnbounded, threads
  <1>12. CASE Abort
    BY <1>12 DEF Abort
  <1>13. CASE UNCHANGED vars
    BY <1>13 DEF vars, host, asked, threads
  <1> QED BY <1>1, <1>2, <1>3, <1>4, <1>5, <1>6, <1>7, <1>8, <1>9, <1>10, <1>11, <1>12, <1>13
          DEF Next, Work

-----------------------------------------------------------------------------
(* The touched list.  Completeness is kept because a discovered node is in   *)
(* transit, in the hands of the only thread that saw its label infinite,     *)
(* until that thread lists it.                                               *)

\* A node in transit has a label, is not listed and has one publisher.
Transit ==
    InQuery =>
        /\ \A v \in touched : label[v] # Inf
        /\ \A u \in Vertex : pc[u] \in {"publish", "enqueue"} => label[to[epos[u]]] # Inf
        /\ \A u \in Vertex : pc[u] = "publish" =>
              /\ to[epos[u]] \notin touched
              /\ \A w \in Vertex : pc[w] = "publish" /\ w # u => to[epos[w]] # to[epos[u]]

NonDefault(v) == label[v] # Inf \/ pred[v] # NoEdge \/ mark[v] # 0 \/ v \in srcMask
InTransit(v) == \E u \in Vertex : pc[u] = "publish" /\ v = to[epos[u]]

Listed ==
    Trusted => /\ \A v \in Vertex : NonDefault(v) => v \in touched \/ InTransit(v)
               /\ touchedCount = Cardinality(touched)

ListInv == Transit /\ Listed

LEMMA ListedIsComplete == TypeInv /\ Listed => TouchedComplete
  BY DEF Listed, TouchedComplete, NonDefault, InTransit, Publishing

LEMMA ListInit == Init => ListInv
  BY FS_EmptySet DEF Init, IdleThreads, ListInv, Transit, Listed, InQuery, NonDefault

\* The kernel's steps keep the list.
LEMMA ListKernel ==
  ASSUME TypeInv, TypeInv', PhaseInv, ListInv, NEW u \in Vertex, Kernel(u)
  PROVE  ListInv'
  <1> USE DEF ListInv
  <1>0. phase = "round" /\ InQuery /\ Trusted /\ UNCHANGED <<phase, needsReset>> /\ InQuery' /\ Trusted'
    BY DEF Kernel, LoadLabel, SkipEdge, RelaxEdge, PublishTouched, Enqueue, FinishThread, host, asked, InQuery, Trusted
  <1>1. CASE LoadLabel(u) \/ SkipEdge(u) \/ FinishThread(u)
    <2>1. /\ UNCHANGED <<label, pred, mark, srcMask, touched, touchedCount>>
          /\ \A w \in Vertex : (pc'[w] = "publish") <=> (pc[w] = "publish")
          /\ \A w \in Vertex : pc'[w] = "enqueue" => pc[w] = "enqueue"
          /\ \A w \in Vertex : pc'[w] \in {"publish", "enqueue"} => epos'[w] = epos[w]
      BY <1>1 DEF LoadLabel, SkipEdge, FinishThread, NextEdge, device, TypeInv, TypeOK
    <2>2. Transit'
      BY <1>0, <2>1 DEF Transit
    <2>3. Listed'
      BY <1>0, <2>1 DEF Listed, NonDefault, InTransit
    <2> QED BY <2>2, <2>3
  <1>2. CASE RelaxEdge(u)
    <2> DEFINE v == to[epos[u]]
    <2>1. v \in Vertex /\ Candidate(u) \in Cost
      BY <1>2, CursorEdge DEF RelaxEdge, Working
    <2>2. /\ UNCHANGED <<mark, srcMask, touched, touchedCount, epos>>
          /\ label'[v] # Inf /\ \A x \in Vertex : x # v => label'[x] = label[x] /\ pred'[x] = pred[x]
          /\ pc'[u] = IF label[v] = Inf THEN "publish" ELSE "enqueue"
          /\ pc[u] = "edge"
          /\ \A w \in Vertex : w # u => pc'[w] = pc[w]
      BY <1>2, <2>1, CostEnds DEF RelaxEdge, AfterRelax, Improves, TypeInv, TypeOK
    <2>3. Transit'
      <3>1. \A x \in touched' : label'[x] # Inf
        BY <1>0, <2>2 DEF Transit, TypeInv, TypeOK
      <3>2. ASSUME NEW w \in Vertex, pc'[w] \in {"publish", "enqueue"}
            PROVE  label'[to[epos'[w]]] # Inf
        <4>1. CASE w = u
          BY <4>1, <2>2
        <4>2. CASE w # u
          <5>1. pc[w] \in {"publish", "enqueue"} /\ label[to[epos[w]]] # Inf
            BY <4>2, <3>2, <1>0, <2>2 DEF Transit
          <5>2. to[epos[w]] \in Vertex
            BY <5>1, CursorEdge DEF TypeInv, CursorOK, Working
          <5> QED BY <5>1, <5>2, <2>2
        <4> QED BY <4>1, <4>2
      <3>3. ASSUME NEW w \in Vertex, pc'[w] = "publish"
            PROVE  /\ to[epos'[w]] \notin touched'
                   /\ \A x \in Vertex : pc'[x] = "publish" /\ x # w => to[epos'[x]] # to[epos'[w]]
        <4>1. label[v] = Inf => v \notin touched /\ \A x \in Vertex : pc[x] = "publish" => to[epos[x]] # v
          BY <1>0, <2>2 DEF Transit
        <4>2. CASE w = u
          BY <4>1, <4>2, <3>3, <2>2
        <4>3. CASE w # u
          BY <4>1, <4>3, <3>3, <2>2, <1>0 DEF Transit
        <4> QED BY <4>2, <4>3
      <3> QED BY <3>1, <3>2, <3>3 DEF Transit
    <2>4. Listed'
      <3> SUFFICES ASSUME NEW x \in Vertex, NonDefault(x)' PROVE x \in touched \/ InTransit(x)'
        BY <1>0, <2>2 DEF Listed
      <3>1. CASE x = v /\ label[v] = Inf
        BY <3>1, <2>2 DEF InTransit
      <3>2. CASE x = v /\ label[v] # Inf
        BY <3>2, <1>0, <2>1, <2>2 DEF Listed, NonDefault, InTransit
      <3>3. CASE x # v
        BY <3>3, <1>0, <2>1, <2>2 DEF Listed, NonDefault, InTransit
      <3> QED BY <3>1, <3>2, <3>3
    <2> QED BY <2>3, <2>4
  <1>3. CASE PublishTouched(u)
    <2> DEFINE v == to[epos[u]]
    <2>1. v \in Vertex /\ v \notin touched /\ touched \in SUBSET Vertex
      BY <1>3, <1>0, CursorEdge DEF PublishTouched, Working, Transit, TypeInv, TypeOK, CursorOK
    <2>2. touchedCount < Rows /\ touchedCount + 1 = Cardinality(touched \cup {v})
      BY <1>0, <2>1, FiniteNodes DEF Listed
    <2>3. /\ UNCHANGED <<label, pred, mark, srcMask, epos>>
          /\ touched' = touched \cup {v} /\ touchedCount' = touchedCount + 1
          /\ pc'[u] = "enqueue" /\ \A w \in Vertex : w # u => pc'[w] = pc[w]
          /\ pc[u] = "publish"
      BY <1>3, <2>2, GraphTypes DEF PublishTouched, TypeInv, TypeOK
    <2>4. Transit'
      BY <1>0, <2>1, <2>3 DEF Transit
    <2>5. Listed'
      BY <1>0, <2>2, <2>3 DEF Listed, NonDefault, InTransit
    <2> QED BY <2>4, <2>5
  <1>4. CASE Enqueue(u)
    <2> DEFINE v == to[epos[u]]
    <2>1. v \in Vertex
      BY <1>4, CursorEdge DEF Enqueue, Working, TypeInv, CursorOK
    <2>2. /\ UNCHANGED <<label, pred, srcMask, touched, touchedCount>>
          /\ \A x \in Vertex : x # v => mark'[x] = mark[x]
          /\ \A w \in Vertex : (pc'[w] = "publish") <=> (pc[w] = "publish")
          /\ \A w \in Vertex : pc'[w] = "enqueue" => pc[w] = "enqueue"
          /\ \A w \in Vertex : pc'[w] \in {"publish", "enqueue"} => epos'[w] = epos[w]
      BY <1>4, <2>1 DEF Enqueue, NextEdge, TypeInv, TypeOK
    <2>3. label[v] # Inf
      BY <1>4, <1>0 DEF Enqueue, Transit
    <2>4. Transit'
      BY <1>0, <2>2 DEF Transit
    <2>5. Listed'
      BY <1>0, <2>1, <2>2, <2>3 DEF Listed, NonDefault, InTransit
    <2> QED BY <2>4, <2>5
  <1> QED BY <1>1, <1>2, <1>3, <1>4 DEF Kernel

LEMMA ListStep == TypeInv /\ TypeInv' /\ PhaseInv /\ PhaseInv' /\ ListInv /\ [Next]_vars => ListInv'
  <1> SUFFICES ASSUME TypeInv, TypeInv', PhaseInv, PhaseInv', ListInv, [Next]_vars PROVE ListInv'
    OBVIOUS
  <1> USE DEF ListInv, PhaseInv
  <1>1. CASE UpdateCosts
    BY <1>1 DEF UpdateCosts, Transit, Listed, NonDefault, InTransit, InQuery, Trusted, device, host, asked, threads
  <1>2. CASE Begin
    BY <1>2 DEF Begin, Transit, Listed, NonDefault, InTransit, InQuery, Trusted, device, threads
  <1>3. CASE DenseReset
    <2>1. Listed'
      BY <1>3, FS_EmptySet DEF DenseReset, ClearNodes, Cleared, Listed, NonDefault, TypeInv, TypeOK
    <2>2. Transit'
      BY <1>3 DEF DenseReset, Transit, InQuery
    <2> QED BY <2>1, <2>2
  <1>4. CASE Arm
    BY <1>4 DEF Arm, Transit, Listed, NonDefault, InTransit, InQuery, Trusted, device, threads
  <1>5. CASE ResetAndSeed
    <2>1. Trusted /\ (\A u \in Vertex : pc[u] = "off" /\ pc'[u] = "off") /\ query.sources \subseteq Vertex
      BY <1>5, QueryAssumption DEF ResetAndSeed, Trusted, threads, TypeInv, TypeOK
    <2>2. \A v \in Vertex : NonDefault(v) => v \in touched
      BY <2>1 DEF Listed, InTransit
    <2>3. Listed'
      BY <1>5, <2>2 DEF ResetAndSeed, Cleared, Listed, NonDefault, TypeInv, TypeOK
    <2>4. Transit'
      BY <1>5, <2>1, GraphTypes DEF ResetAndSeed, Transit, TypeInv, TypeOK
    <2> QED BY <2>3, <2>4
  <1>6. CASE StartRound
    BY <1>6 DEF StartRound, Transit, Listed, NonDefault, InTransit, InQuery, Trusted, device
  <1>7. CASE NoRounds
    BY <1>7 DEF NoRounds, Transit, Listed, NonDefault, InTransit, InQuery, Trusted, device, threads
  <1>8. ASSUME NEW u \in Vertex, Kernel(u) PROVE ListInv'
    BY <1>8, ListKernel
  <1>9. CASE Decide
    <2>1. phase = "round" /\ UNCHANGED <<device, threads, needsReset>> /\ InQuery /\ Trusted
      BY <1>9 DEF Decide, InQuery, Trusted
    <2>2. Transit' /\ Listed'
      BY <2>1 DEF Transit, Listed, NonDefault, InTransit, device, threads
    <2> QED BY <2>2
  <1>10. CASE Reply
    <2>1. phase = "stopped" /\ UNCHANGED <<device, threads>> /\ InQuery /\ Trusted /\ ~InQuery'
      BY <1>10 DEF Reply, InQuery, Trusted
    <2>2. Transit' /\ Listed'
      BY <2>1 DEF Transit, Listed, NonDefault, InTransit, device, threads
    <2> QED BY <2>2
  <1>11. CASE Return \/ RunUnbounded
    BY <1>11 DEF Return, RunUnbounded, Transit, Listed, NonDefault, InTransit, InQuery, Trusted, device, threads
  <1>12. CASE Abort
    <2>1. Transit'
      BY <1>12 DEF Abort, Transit, InQuery
    <2>2. CASE needsReset
      BY <1>12, <2>1, <2>2 DEF Abort, Listed, Trusted
    <2>3. CASE ~needsReset
      <3>1. phase = "begin" /\ Trusted /\ ClearNodes({}) /\ UNCHANGED <<touched, touchedCount>>
        BY <1>12, <2>3 DEF Abort, Trusted
      <3>2. \A v \in Vertex : NonDefault(v)' => NonDefault(v)
        BY <3>1 DEF ClearNodes, Cleared, NonDefault, TypeInv, TypeOK
      <3>3. Listed'
        BY <3>1, <3>2 DEF Listed, InTransit
      <3> QED BY <2>1, <3>3
    <2> QED BY <2>2, <2>3
  <1>13. CASE UNCHANGED vars
    BY <1>13 DEF vars, Transit, Listed, NonDefault, InTransit, InQuery, Trusted, device, host, asked, threads
  <1> QED BY <1>1, <1>2, <1>3, <1>4, <1>5, <1>6, <1>7, <1>8, <1>9, <1>10, <1>11, <1>12, <1>13
          DEF Next, Work

-----------------------------------------------------------------------------
(* The next frontier: a node's mark carries the number of the round that     *)
(* enqueued it, so one node is enqueued at most once per round.              *)

MarkInv ==
    /\ InQuery => \A v \in Vertex : IF phase = "round" THEN mark[v] <= iter + 1 ELSE mark[v] <= iter
    /\ phase = "round" => /\ \A v \in Vertex : mark[v] = iter + 1 <=> v \in next
                          /\ nextCount = Cardinality(next)
    /\ errorStatus \notin {4, 5}

\* What a query finds after the reset that starts it.
LEMMA SeedFacts ==
  ASSUME TypeInv, PhaseInv, ListInv, ResetAndSeed
  PROVE  /\ label' = [v \in Vertex |-> IF v \in query.sources THEN 0 ELSE Inf]
         /\ srcMask' = query.sources /\ query.sources \subseteq Vertex
         /\ \A v \in Vertex : pred'[v] = NoEdge /\ mark'[v] = 0
  <1>1. Trusted /\ (\A u \in Vertex : pc[u] = "off") /\ query.sources \subseteq Vertex
    BY QueryAssumption DEF ResetAndSeed, Trusted, TypeInv, TypeOK, PhaseInv
  <1>2. \A v \in Vertex : NonDefault(v) => v \in touched
    BY <1>1 DEF ListInv, Listed, InTransit
  <1>3. \A v \in Vertex \ touched : label[v] = Inf /\ pred[v] = NoEdge /\ mark[v] = 0
    BY <1>2 DEF NonDefault
  <1>4. srcMask \subseteq touched
    BY <1>2 DEF NonDefault, TypeInv, TypeOK
  <1>5. label' = [v \in Vertex |-> IF v \in query.sources THEN 0 ELSE Inf]
    BY <1>3 DEF ResetAndSeed
  <1>6. srcMask' = query.sources
    BY <1>4 DEF ResetAndSeed
  <1>7. \A v \in Vertex : pred'[v] = NoEdge /\ mark'[v] = 0
    BY <1>3 DEF ResetAndSeed, Cleared
  <1> QED BY <1>1, <1>5, <1>6, <1>7

LEMMA CleanSeedStep == TypeInv /\ PhaseInv /\ ListInv /\ CleanSeed /\ [Next]_vars => CleanSeed'
  <1> SUFFICES ASSUME TypeInv, PhaseInv, ListInv, CleanSeed, [Next]_vars,
                      phase' = "loop", iter' = 0
               PROVE  CleanSeed'
    BY DEF CleanSeed
  <1>1. CASE ResetAndSeed
    BY <1>1, SeedFacts DEF asked, ResetAndSeed, CleanSeed
  <1>2. CASE UNCHANGED vars
    BY <1>2 DEF vars, device, host, asked, CleanSeed
  <1>3. CASE Decide
    BY <1>3 DEF Decide, TypeInv, TypeOK
  <1>4. CASE \E u \in Vertex : Kernel(u)
    BY <1>4 DEF Kernel, LoadLabel, SkipEdge, RelaxEdge, PublishTouched, Enqueue, FinishThread, host, asked
  <1>5. CASE UpdateCosts \/ Begin \/ DenseReset \/ Arm \/ StartRound \/ NoRounds \/ Reply \/ Return \/ RunUnbounded \/ Abort
    BY <1>5 DEF UpdateCosts, Begin, DenseReset, Arm, StartRound, NoRounds, Reply, Return, RunUnbounded, Abort, host, asked
  <1> QED BY <1>1, <1>2, <1>3, <1>4, <1>5 DEF Next, Work

LEMMA MarkStep == TypeInv /\ PhaseInv /\ ListInv /\ MarkInv /\ [Next]_vars => MarkInv'
  <1> SUFFICES ASSUME TypeInv, PhaseInv, ListInv, MarkInv, [Next]_vars PROVE MarkInv'
    OBVIOUS
  <1> USE DEF MarkInv, InQuery
  <1>0. iter \in Nat /\ mark \in [Vertex -> Nat]
    BY DEF TypeInv, TypeOK
  <1>1. CASE UpdateCosts \/ Begin \/ DenseReset \/ Arm \/ NoRounds \/ Reply \/ Return \/ RunUnbounded \/ Abort
    BY <1>1 DEF UpdateCosts, Begin, DenseReset, Arm, NoRounds, Reply, Return, RunUnbounded, Abort, device, host, asked, round
  <1>2. CASE ResetAndSeed
    BY <1>2, SeedFacts DEF ResetAndSeed, PhaseInv
  <1>3. CASE StartRound
    BY <1>3, <1>0, FS_EmptySet DEF StartRound, device
  <1>4. ASSUME NEW u \in Vertex, Kernel(u) PROVE MarkInv'
    <2>1. CASE LoadLabel(u) \/ SkipEdge(u) \/ RelaxEdge(u) \/ FinishThread(u)
      BY <2>1, <1>4 DEF Kernel, LoadLabel, SkipEdge, RelaxEdge, FinishThread, device, host, asked, round
    <2>2. CASE PublishTouched(u)
      <3>1. to[epos[u]] \in Vertex /\ to[epos[u]] \notin touched /\ touched \in SUBSET Vertex
        BY <2>2, <1>4, CursorEdge DEF Kernel, PublishTouched, Working, ListInv, Transit, TypeInv, TypeOK, CursorOK
      <3>2. touchedCount < Rows
        BY <3>1, <1>4, FiniteNodes DEF Kernel, ListInv, Listed, Trusted
      <3>3. ~(touchedCount >= Rows)
        BY <3>2, GraphTypes DEF TypeInv, TypeOK
      <3> QED BY <2>2, <3>3 DEF PublishTouched, host, asked
    <2>3. CASE Enqueue(u)
      <3> DEFINE v == to[epos[u]]
      <3>1. v \in Vertex /\ phase = "round" /\ next \in SUBSET Vertex
        BY <2>3, <1>4, CursorEdge DEF Kernel, Enqueue, Working, TypeInv, TypeOK, CursorOK
      <3>2. CASE mark[v] = iter + 1
        <4>1. mark' = mark /\ nextCount' = nextCount /\ next' = next /\ errorStatus' = errorStatus
          BY <2>3, <3>1, <3>2, <1>0 DEF Enqueue, FirstInRound
        <4> QED BY <2>3, <4>1 DEF Enqueue, host, asked
      <3>3. CASE mark[v] # iter + 1
        <4>1. v \notin next
          BY <3>1, <3>3
        <4>2. Cardinality(next \cup {v}) = nextCount + 1 /\ nextCount < Rows
          BY <3>1, <4>1, FiniteNodes
        <4>3. ~(nextCount >= Rows)
          BY <4>2, GraphTypes DEF TypeInv, TypeOK
        <4>4. /\ mark' = [mark EXCEPT ![v] = iter + 1] /\ next' = next \cup {v}
              /\ nextCount' = nextCount + 1 /\ errorStatus' = errorStatus
              /\ UNCHANGED <<phase, iter>>
          BY <2>3, <3>3, <4>3 DEF Enqueue, FirstInRound, host, asked
        <4> QED BY <4>2, <4>4, <3>1, <1>0
      <3> QED BY <3>2, <3>3
    <2> QED BY <1>4, <2>1, <2>2, <2>3 DEF Kernel
  <1>5. CASE Decide
    BY <1>5, <1>0 DEF Decide, device, StopReason
  <1>6. CASE UNCHANGED vars
    BY <1>6 DEF vars, device, host, asked, round
  <1> QED BY <1>1, <1>2, <1>3, <1>4, <1>5, <1>6 DEF Next, Work

-----------------------------------------------------------------------------
ListsInv == TypeInv /\ PhaseInv /\ ListInv /\ CleanSeed /\ MarkInv

LEMMA ListsInvariant == Spec => []ListsInv
  <1>1. Init => ListsInv
    <2>1. Init => CleanSeed /\ MarkInv
      BY DEF Init, CleanSeed, MarkInv, InQuery
    <2> QED BY <2>1, TypeInit, PhaseInit, ListInit DEF ListsInv
  <1>2. ListsInv /\ [Next]_vars => ListsInv'
    BY TypeStep, PhaseStep, ListStep, CleanSeedStep, MarkStep DEF ListsInv
  <1> QED BY <1>1, <1>2, PTL DEF Spec

\* Whenever the arrays may be reset sparsely, the touched list names every node
\* that differs from the default, and names it once (DeviceWorkspace's comment
\* on touched_nodes), however threads interleave and calls abort.
THEOREM TouchedListComplete == Spec => []TouchedComplete
  <1>1. ListsInv => TouchedComplete
    BY ListedIsComplete DEF ListsInv, ListInv
  <1> QED BY <1>1, ListsInvariant, PTL

\* Every query starts from its own sources alone.
THEOREM SeedsClean == Spec => []CleanSeed
  BY ListsInvariant, PTL DEF ListsInv

\* Neither queue overflows its Rows slots: errors 4 and 5 are unreachable.
THEOREM QueuesNeverOverflow == Spec => []QueuesFit
  <1>1. ListsInv => QueuesFit
    BY DEF ListsInv, MarkInv, QueuesFit
  <1> QED BY <1>1, ListsInvariant, PTL

-----------------------------------------------------------------------------
\* The states in which the device arrays belong to the query under way.
Answering == phase \in {"loop", "round", "stopped", "done"}

Weight(e) == EffectiveWeight(e, dyn)
Offer(u, e) == Saturate(label[u] + Weight(e))

\* A label is a source's zero, or is at least what the predecessor offers now:
\* predecessors only improve after they set their successor's label.
Rooted ==
    /\ srcMask = query.sources
    /\ \A v \in srcMask : label[v] = 0 /\ pred[v] = NoEdge
    /\ \A v \in Vertex \ srcMask : label[v] # Inf =>
          /\ pred[v] \in Edge /\ to[pred[v]] = v /\ v \in Admit
          /\ Offer(SourceForEdge(pred[v]), pred[v]) <= label[v]

\* A thread works from a label that its node has or had in this round.
ReadBack ==
    \A u \in Vertex : pc[u] \in Working => from[u] # Inf /\ label[u] <= from[u]

\* NoPredecessorCycle at any time.
Acyclic ==
    \A S \in SUBSET (Vertex \ srcMask) :
        S # {} /\ (\A v \in S : label[v] # Inf) => \E v \in S : SourceForEdge(pred[v]) \notin S

TreeInv == Answering => Rooted /\ ReadBack /\ Acyclic

\* No feasible potential exceeds a label.
Above == \A v \in Vertex : BoundsDistance(label[v], v, query.sources, Admit, dyn)
BoundInv == Answering => Above

-----------------------------------------------------------------------------
(* What a step may do to the query under way and to the labels. *)

\* While a query is answered its terminals, box and costs do not change.
LEMMA QueryFrozen ==
  ASSUME [Next]_vars, Answering', ~ResetAndSeed
  PROVE  Answering /\ UNCHANGED <<dyn, query, retried, srcMask>> /\ Admit' = Admit
  <1>1. Answering /\ UNCHANGED <<dyn, query, retried, srcMask>>
    <2>1. CASE UpdateCosts \/ Begin \/ DenseReset \/ Arm \/ RunUnbounded \/ Return \/ Abort
      BY <2>1 DEF UpdateCosts, Begin, DenseReset, Arm, RunUnbounded, Return, Abort, Answering, host, asked
    <2>2. CASE StartRound \/ NoRounds \/ Decide \/ Reply
      BY <2>2 DEF StartRound, NoRounds, Decide, Reply, Answering, device, asked
    <2>3. CASE \E u \in Vertex : Kernel(u)
      BY <2>3 DEF Kernel, LoadLabel, SkipEdge, RelaxEdge, PublishTouched, Enqueue, FinishThread,
                  Answering, device, host, asked
    <2>4. CASE UNCHANGED vars
      BY <2>4 DEF vars, Answering, device, host, asked
    <2> QED BY <2>1, <2>2, <2>3, <2>4 DEF Next, Work
  <1> QED BY <1>1 DEF Admit

\* Only a relaxation changes labels and predecessors.
LEMMA LabelFrame ==
  ASSUME [Next]_vars, Answering', ~ResetAndSeed, \A u \in Vertex : ~(Kernel(u) /\ RelaxEdge(u))
  PROVE  UNCHANGED <<label, pred>>
  <1>1. CASE UpdateCosts \/ Begin \/ DenseReset \/ Arm \/ RunUnbounded \/ Return \/ Abort
    BY <1>1 DEF UpdateCosts, Begin, DenseReset, Arm, RunUnbounded, Return, Abort, Answering, host, asked, device
  <1>2. CASE StartRound \/ NoRounds \/ Decide \/ Reply
    BY <1>2 DEF StartRound, NoRounds, Decide, Reply, device
  <1>3. ASSUME NEW u \in Vertex, Kernel(u) PROVE UNCHANGED <<label, pred>>
    BY <1>3 DEF Kernel, LoadLabel, SkipEdge, PublishTouched, Enqueue, FinishThread, device
  <1>4. CASE UNCHANGED vars
    BY <1>4 DEF vars, device
  <1> QED BY <1>1, <1>2, <1>3, <1>4 DEF Next, Work

\* A relaxation lowers the label of one admitted node to its thread's candidate.
LEMMA RelaxFacts ==
  ASSUME TypeInv, NEW u \in Vertex, RelaxEdge(u)
  PROVE  /\ pc[u] = "edge" /\ epos[u] \in OutEdges(u) /\ epos[u] \in Edge /\ SourceForEdge(epos[u]) = u
         /\ Weight(epos[u]) \in Cost /\ Candidate(u) \in Cost /\ from[u] \in Cost
         /\ Candidate(u) = Saturate(from[u] + Weight(epos[u]))
         /\ from[u] <= Candidate(u) /\ Candidate(u) < label[to[epos[u]]]
         /\ to[epos[u]] \in Vertex /\ to[epos[u]] \in Admit /\ to[epos[u]] \notin srcMask
         /\ label' = [label EXCEPT ![to[epos[u]]] = Candidate(u)]
         /\ pred' = [pred EXCEPT ![to[epos[u]]] = epos[u]]
         /\ UNCHANGED <<dyn, from, epos, low, next, minNext, mark>>
  <1>1. pc[u] \in Working /\ epos[u] < rowptr[u + 1]
    BY DEF RelaxEdge, Working
  <1>2. /\ epos[u] \in OutEdges(u) /\ epos[u] \in Edge /\ SourceForEdge(epos[u]) = u
        /\ Weight(epos[u]) \in Cost /\ Candidate(u) \in Cost /\ to[epos[u]] \in Vertex
    BY <1>1, CursorEdge DEF Weight
  <1>3. from[u] \in Cost /\ Weight(epos[u]) \in Nat
    BY <1>2, CostEnds DEF TypeInv, TypeOK
  <1>4. from[u] <= Candidate(u)
    BY <1>3, SaturateSum DEF Candidate, Weight
  <1> QED BY <1>2, <1>3, <1>4 DEF RelaxEdge, Improves, Admitted, Candidate, Weight, round

\* Labels only ever get smaller while a query is answered.
LEMMA LabelsFall ==
  ASSUME TypeInv, [Next]_vars, Answering', ~ResetAndSeed, NEW v \in Vertex
  PROVE  label'[v] <= label[v] /\ label'[v] \in Cost
  <1>1. label \in [Vertex -> Cost] /\ label[v] \in Nat
    BY CostEnds DEF TypeInv, TypeOK
  <1>2. ASSUME NEW u \in Vertex, RelaxEdge(u)
        PROVE  label'[v] <= label[v] /\ label'[v] \in Cost
    <2>1. /\ Candidate(u) \in Cost /\ Candidate(u) < label[to[epos[u]]]
          /\ label' = [label EXCEPT ![to[epos[u]]] = Candidate(u)]
      BY <1>2, RelaxFacts
    <2> QED BY <1>1, <2>1, CostEnds
  <1>3. CASE UNCHANGED label
    BY <1>1, <1>3
  <1> QED BY <1>2, <1>3, LabelFrame

-----------------------------------------------------------------------------
(* The predecessor forest. *)

\* The label the thread reads, or an earlier one: never better than its node's.
LEMMA ReadBackStep ==
  ASSUME TypeInv, PhaseInv', TreeInv, [Next]_vars, Answering', ~ResetAndSeed
  PROVE  ReadBack'
  <1>0. Answering /\ ReadBack
    BY QueryFrozen DEF TreeInv
  <1> SUFFICES ASSUME NEW u \in Vertex, pc'[u] \in Working
               PROVE  from'[u] # Inf /\ label'[u] <= from'[u]
    BY DEF ReadBack
  <1>1. phase' = "round"
    BY DEF PhaseInv, Working
  <1>2. label[u] \in Nat /\ label'[u] \in Nat /\ label'[u] <= label[u] /\ from[u] \in Nat
    BY LabelsFall, CostEnds DEF TypeInv, TypeOK
  <1>3. CASE pc[u] \in Working /\ from'[u] = from[u]
    BY <1>0, <1>2, <1>3 DEF ReadBack
  <1>4. CASE LoadLabel(u)
    BY <1>2, <1>4 DEF LoadLabel, Working, device, TypeInv, TypeOK
  <1>5. ASSUME NEW x \in Vertex, Kernel(x)
        PROVE  (pc[u] \in Working /\ from'[u] = from[u]) \/ LoadLabel(u)
    <2>1. CASE LoadLabel(x) \/ FinishThread(x)
      BY <2>1 DEF LoadLabel, FinishThread, Working, TypeInv, TypeOK
    <2>2. CASE SkipEdge(x) \/ RelaxEdge(x) \/ PublishTouched(x) \/ Enqueue(x)
      BY <2>2 DEF SkipEdge, RelaxEdge, AfterRelax, PublishTouched, Enqueue, Working, TypeInv, TypeOK
    <2> QED BY <1>5, <2>1, <2>2 DEF Kernel
  <1>6. CASE StartRound
    BY <1>6 DEF StartRound, Working
  <1>7. CASE UNCHANGED vars
    BY <1>3, <1>7 DEF vars, threads
  <1>8. CASE UpdateCosts \/ Begin \/ DenseReset \/ Arm \/ NoRounds \/ Decide \/ Reply \/ RunUnbounded \/ Return \/ Abort
    BY <1>1, <1>3, <1>8 DEF UpdateCosts, Begin, DenseReset, Arm, NoRounds, Decide, StopReason, Reply, RunUnbounded,
                            Return, Abort, threads, host
  <1> QED BY <1>3, <1>4, <1>5, <1>6, <1>7, <1>8 DEF Next, Work

\* A relaxation keeps the forest.  A cycle it closed would contain, below the
\* old label of the node it changed, a cycle that was there before.
LEMMA AcyclicStep ==
  ASSUME TypeInv, TreeInv, Answering, NEW u \in Vertex, RelaxEdge(u), UNCHANGED srcMask
  PROVE  Acyclic'
  <1> DEFINE v == to[epos[u]]
  <1>0. Rooted /\ ReadBack /\ Acyclic /\ label \in [Vertex -> Cost] /\ pred \in [Vertex -> Edge \cup {NoEdge}]
    BY DEF TreeInv, TypeInv, TypeOK
  <1>1. /\ v \in Vertex /\ SourceForEdge(epos[u]) = u /\ from[u] <= Candidate(u) /\ Candidate(u) < label[v]
        /\ label' = [label EXCEPT ![v] = Candidate(u)] /\ pred' = [pred EXCEPT ![v] = epos[u]]
        /\ pc[u] \in Working /\ from[u] \in Nat /\ Candidate(u) \in Nat
    BY RelaxFacts, CostEnds DEF Working
  <1> SUFFICES ASSUME NEW S \in SUBSET (Vertex \ srcMask), S # {},
                      \A x \in S : label'[x] # Inf, \A x \in S : SourceForEdge(pred'[x]) \in S
               PROVE  FALSE
    BY DEF Acyclic
  <1> HIDE DEF v
  <1>2. label[u] <= Candidate(u) /\ label[u] < label[v]
    BY <1>0, <1>1, CostEnds DEF ReadBack
  <1>3. CASE v \notin S
    <2>1. \A x \in S : label[x] # Inf /\ SourceForEdge(pred[x]) \in S
      BY <1>0, <1>1, <1>3
    <2> QED BY <1>0, <2>1 DEF Acyclic
  <1>4. CASE v \in S
    <2> DEFINE T == {x \in S : label[x] < label[v]}
    <2>1. u \in S
      BY <1>0, <1>1, <1>4
    <2>2. u \in T /\ v \notin T /\ T \in SUBSET (Vertex \ srcMask)
      BY <1>0, <1>1, <1>2, <2>1, CostEnds
    <2>3. ASSUME NEW x \in T
          PROVE  label[x] # Inf /\ SourceForEdge(pred[x]) \in T
      <3>1. x \in Vertex \ srcMask /\ x # v /\ label'[x] = label[x] /\ pred'[x] = pred[x]
        BY <1>0, <1>1, <2>2
      <3>2. label[x] # Inf /\ SourceForEdge(pred[x]) \in S
        BY <3>1
      <3> DEFINE p == SourceForEdge(pred[x])
      <3>3. p \in Vertex /\ pred[x] \in Edge /\ Offer(p, pred[x]) <= label[x]
        BY <1>0, <3>1, <3>2 DEF Rooted
      <3> HIDE DEF p
      <3>4. Weight(pred[x]) \in Nat
        BY <3>3, DynNat, WeightType, CostEnds DEF Weight
      <3>5. label[p] <= Offer(p, pred[x]) /\ Offer(p, pred[x]) \in Nat
        BY <1>0, <3>3, <3>4, SaturateSum, CostEnds DEF Offer
      <3>6. label[p] \in Nat /\ label[x] \in Nat /\ label[v] \in Nat
        BY <1>0, <1>1, <3>1, <3>3, CostEnds
      <3>7. label[p] < label[v]
        BY <3>3, <3>5, <3>6
      <3> QED BY <3>2, <3>7 DEF p
    <2> HIDE DEF T
    <2> QED BY <1>0, <2>2, <2>3 DEF Acyclic
  <1> QED BY <1>3, <1>4

\* What a query starts from is a forest of single sources.
LEMMA TreeSeed ==
  ASSUME TypeInv, PhaseInv, ListInv, ResetAndSeed
  PROVE  TreeInv'
  <1>1. /\ label' = [v \in Vertex |-> IF v \in query.sources THEN 0 ELSE Inf]
        /\ srcMask' = query.sources /\ query' = query /\ query.sources \subseteq Vertex
        /\ \A v \in Vertex : pred'[v] = NoEdge
    BY SeedFacts DEF ResetAndSeed, asked
  <1>2. Rooted'
    BY <1>1 DEF Rooted
  <1>3. ReadBack'
    BY DEF ResetAndSeed, threads, PhaseInv, ReadBack, Working
  <1>4. Acyclic'
    BY <1>1 DEF Acyclic
  <1> QED BY <1>2, <1>3, <1>4 DEF TreeInv

\* Every label that is not a source's stays at or above what its
\* predecessor's edge offers: labels only fall, and the word changes with them.
LEMMA RootedStep ==
  ASSUME TypeInv, TypeInv', TreeInv, [Next]_vars, Answering', ~ResetAndSeed
  PROVE  Rooted'
  <1>0. /\ Answering /\ Rooted /\ ReadBack /\ UNCHANGED <<dyn, query, srcMask>> /\ Admit' = Admit
        /\ label \in [Vertex -> Cost] /\ pred \in [Vertex -> Edge \cup {NoEdge}] /\ srcMask \subseteq Vertex
    BY QueryFrozen DEF TreeInv, TypeInv, TypeOK
  <1> DEFINE NewOffer(x, e) == Saturate(label'[x] + Weight(e))
  <1>1. ASSUME NEW x \in Vertex, NEW e \in Edge
        PROVE  NewOffer(x, e) <= Offer(x, e) /\ Offer(x, e) \in Nat /\ NewOffer(x, e) \in Nat
    <2>1. Weight(e) \in Nat /\ label[x] \in Cost /\ label'[x] \in Cost /\ label'[x] <= label[x]
      BY <1>0, DynNat, WeightType, CostEnds, LabelsFall DEF Weight
    <2> QED BY <2>1, SaturateSum, CostEnds DEF Offer
  <1>b. Rooted' <=> /\ srcMask' = query'.sources
                    /\ \A x \in srcMask' : label'[x] = 0 /\ pred'[x] = NoEdge
                    /\ \A x \in Vertex \ srcMask' : label'[x] # Inf =>
                          /\ pred'[x] \in Edge /\ to[pred'[x]] = x /\ x \in Admit'
                          /\ NewOffer(SourceForEdge(pred'[x]), pred'[x]) <= label'[x]
    BY <1>0 DEF Rooted, Offer, Weight, EffectiveWeight
  <1> HIDE DEF NewOffer
  <1>2. CASE UNCHANGED <<label, pred>>
    <2>1. \A x, e : NewOffer(x, e) = Offer(x, e)
      BY <1>2 DEF Offer, NewOffer
    <2> QED BY <1>0, <1>2, <1>b, <2>1 DEF Rooted
  <1>3. ASSUME NEW u \in Vertex, RelaxEdge(u)
        PROVE  Rooted'
    <2> DEFINE v == to[epos[u]]
    <2>1. /\ v \in Vertex /\ v \notin srcMask /\ v \in Admit
          /\ SourceForEdge(epos[u]) = u /\ epos[u] \in Edge
          /\ Candidate(u) \in Cost /\ Candidate(u) = Saturate(from[u] + Weight(epos[u]))
          /\ from[u] \in Cost /\ pc[u] \in Working /\ Weight(epos[u]) \in Nat
          /\ label' = [label EXCEPT ![v] = Candidate(u)] /\ pred' = [pred EXCEPT ![v] = epos[u]]
      BY <1>3, RelaxFacts, CostEnds DEF Working
    <2>2. Offer(u, epos[u]) <= Candidate(u) /\ Candidate(u) \in Nat
      <3>1. label[u] <= from[u] /\ label[u] \in Cost
        BY <1>0, <2>1 DEF ReadBack
      <3> QED BY <2>1, <3>1, SaturateSum, CostEnds DEF Offer
    <2>3. \A x \in srcMask : label'[x] = 0 /\ pred'[x] = NoEdge
      BY <1>0, <2>1 DEF Rooted
    <2>4. ASSUME NEW x \in Vertex \ srcMask, label'[x] # Inf
          PROVE  /\ pred'[x] \in Edge /\ to[pred'[x]] = x /\ x \in Admit'
                 /\ NewOffer(SourceForEdge(pred'[x]), pred'[x]) <= label'[x]
      <3>1. CASE x = v
        <4>1. pred'[x] = epos[u] /\ label'[x] = Candidate(u)
          BY <1>0, <2>1, <3>1
        <4>2. NewOffer(u, epos[u]) <= Candidate(u)
          BY <1>1, <2>1, <2>2
        <4> QED BY <1>0, <2>1, <3>1, <4>1, <4>2
      <3>2. CASE x # v
        <4>1. pred'[x] = pred[x] /\ label'[x] = label[x]
          BY <1>0, <2>1, <3>2
        <4>2. /\ pred[x] \in Edge /\ to[pred[x]] = x /\ x \in Admit
              /\ Offer(SourceForEdge(pred[x]), pred[x]) <= label[x]
          BY <1>0, <2>4, <4>1 DEF Rooted
        <4>3. SourceForEdge(pred[x]) \in Vertex /\ label[x] \in Nat
          BY <1>0, <4>2, SourceIsVertex, CostEnds
        <4>4. NewOffer(SourceForEdge(pred[x]), pred[x]) <= label[x]
          BY <1>1, <4>2, <4>3
        <4> QED BY <1>0, <4>1, <4>2, <4>4
      <3> QED BY <3>1, <3>2
    <2> QED BY <1>0, <1>b, <2>3, <2>4 DEF Rooted
  <1> QED BY <1>2, <1>3, LabelFrame

\* Every step of the program keeps the predecessor words a forest.
LEMMA TreeStep == ListsInv /\ ListsInv' /\ TreeInv /\ [Next]_vars => TreeInv'
  <1> SUFFICES ASSUME ListsInv, ListsInv', TreeInv, [Next]_vars, Answering'
               PROVE  TreeInv'
    BY DEF TreeInv
  <1> USE DEF ListsInv
  <1>1. CASE ResetAndSeed
    BY <1>1, TreeSeed
  <1>2. CASE ~ResetAndSeed
    <2>1. Rooted' /\ ReadBack'
      BY <1>2, RootedStep, ReadBackStep
    <2>2. Acyclic'
      <3>1. CASE UNCHANGED <<label, pred>>
        BY <1>2, <3>1, QueryFrozen DEF TreeInv, Acyclic
      <3>2. ASSUME NEW u \in Vertex, RelaxEdge(u) PROVE Acyclic'
        BY <1>2, <3>2, QueryFrozen, AcyclicStep
      <3> QED BY <1>2, <3>1, <3>2, LabelFrame
    <2> QED BY <2>1, <2>2 DEF TreeInv
  <1> QED BY <1>1, <1>2

-----------------------------------------------------------------------------
(* Labels bound distances from above. *)

LEMMA BoundSeed ==
  ASSUME TypeInv, PhaseInv, ListInv, ResetAndSeed
  PROVE  BoundInv'
  <1>1. label' = [v \in Vertex |-> IF v \in query'.sources THEN 0 ELSE Inf]
    BY SeedFacts DEF ResetAndSeed, asked
  <1>2. ASSUME NEW v \in Vertex, NEW f \in [Vertex -> Cost], NEW A, NEW d, Feasible(f, query'.sources, A, d)
        PROVE  f[v] <= label'[v]
    <2>1. CASE v \in query'.sources
      <3>1. f[v] = 0 /\ label'[v] = 0
        BY <1>1, <1>2, <2>1 DEF Feasible
      <3> QED BY <3>1
    <2>2. CASE v \notin query'.sources
      <3>1. label'[v] = Inf
        BY <1>1, <2>2
      <3> QED BY <3>1, CostEnds
    <2> QED BY <2>1, <2>2
  <1> QED BY <1>2 DEF BoundInv, Above, BoundsDistance

\* Every step keeps each label at or above every feasible potential.
LEMMA BoundStep == ListsInv /\ TreeInv /\ BoundInv /\ [Next]_vars => BoundInv'
  <1> SUFFICES ASSUME ListsInv, TreeInv, BoundInv, [Next]_vars, Answering'
               PROVE  BoundInv'
    BY DEF BoundInv
  <1> USE DEF ListsInv
  <1>1. CASE ResetAndSeed
    BY <1>1, BoundSeed
  <1>2. CASE ~ResetAndSeed /\ UNCHANGED <<label, pred>>
    BY <1>2, QueryFrozen DEF BoundInv, Above
  <1>3. ASSUME ~ResetAndSeed, NEW u \in Vertex, RelaxEdge(u)
        PROVE  BoundInv'
    <2> DEFINE v == to[epos[u]]
    <2>0. Answering /\ UNCHANGED <<dyn, query>> /\ Admit' = Admit /\ srcMask = query.sources
      BY <1>3, QueryFrozen DEF TreeInv, Rooted
    <2>1. /\ v \in Vertex /\ v \in Admit /\ v \notin query.sources /\ epos[u] \in OutEdges(u)
          /\ Candidate(u) = Saturate(from[u] + Weight(epos[u])) /\ from[u] \in Cost /\ Weight(epos[u]) \in Nat
          /\ label' = [label EXCEPT ![v] = Candidate(u)] /\ pc[u] \in Working /\ Candidate(u) \in Nat
      BY <1>3, <2>0, RelaxFacts, CostEnds DEF Working
    <2>2. label \in [Vertex -> Cost] /\ label[u] <= from[u]
      BY <2>0, <2>1 DEF TypeInv, TypeOK, TreeInv, ReadBack
    <2> SUFFICES ASSUME NEW y \in Vertex, NEW f \in [Vertex -> Cost],
                        Feasible(f, query.sources, Admit, dyn)
                 PROVE  f[y] <= label'[y]
      BY <2>0 DEF BoundInv, Above, BoundsDistance
    <2>3. \A x \in Vertex : f[x] <= label[x]
      BY <2>0 DEF BoundInv, Above, BoundsDistance
    <2>4. CASE y = v
      <3>1. f[v] <= Saturate(f[u] + Weight(epos[u]))
        BY <2>1 DEF Feasible, Relaxable, Weight
      <3>2. f[u] \in Cost /\ f[u] <= from[u] /\ f[v] \in Nat
        BY <2>1, <2>2, <2>3, CostEnds
      <3>3. Saturate(f[u] + Weight(epos[u])) <= Candidate(u) /\ Saturate(f[u] + Weight(epos[u])) \in Nat
        BY <2>1, <3>2, SaturateSum, CostEnds
      <3>4. label'[y] = Candidate(u)
        BY <2>1, <2>2, <2>4
      <3> QED BY <2>1, <2>4, <3>1, <3>2, <3>3, <3>4
    <2>5. CASE y # v
      BY <2>1, <2>2, <2>3, <2>5
    <2> QED BY <2>4, <2>5
  <1> QED BY <1>1, <1>2, <1>3, LabelFrame

-----------------------------------------------------------------------------
\* The edge offers its end nothing better.
Settled(u, e) == Relaxable(e, query.sources, Admit) => label[to[e]] <= Offer(u, e)

\* A thread has lowered v's label and not enqueued v yet.
Held(x, v) == pc[x] \in {"publish", "enqueue"} /\ to[epos[x]] = v
Pending(v) == v \in next \/ \E x \in Vertex : Held(x, v)

\* Thread u will still look at edge e, with u's present label.
Ahead(u, e) == \/ pc[u] = "load"
               \/ pc[u] \in Working /\ from[u] = label[u] /\ epos[u] <= e

\* No improvement is forgotten: an edge that could lower a label is still
\* ahead of its thread, or its node will be relaxed again.
Unsettled ==
    \A u \in Vertex : label[u] # Inf => \A e \in OutEdges(u) : ~Settled(u, e) =>
        IF phase = "loop" THEN u \in frontier ELSE Pending(u) \/ Ahead(u, e)

\* A thread that lowered a label holds a candidate no better than the label.
HeldOffers ==
    \A u \in Vertex : pc[u] \in {"publish", "enqueue"} => label[to[epos[u]]] <= Candidate(u)

\* The round's minimum, or a minimum on its way there, covers every node that
\* will be relaxed next.
Covered(v) ==
    \/ minNext <= label[v]
    \/ \E x \in Vertex : /\ pc[x] \in Working
                         /\ low[x] <= label[v] \/ (Held(x, v) /\ Candidate(x) <= label[v])
Minimum == \A v \in Vertex : Pending(v) => Covered(v)

\* No edge leaving a label below M could lower a label.
Horizon(M) == /\ \A t \in query.targets : label[t] <= M
              /\ \A u \in Vertex : label[u] < M => \A e \in OutEdges(u) : Settled(u, e)

SettleInv ==
    /\ phase \in {"loop", "round"} => Unsettled
    /\ phase = "round" => HeldOffers /\ Minimum
    /\ phase \in {"stopped", "done"} /\ Certified => \E M \in Cost : Horizon(M)
    /\ phase = "done" => /\ result = [certified |-> Certified,
                                      dist |-> [t \in query.targets |-> label[t]]]
                         /\ ChainsValid

-----------------------------------------------------------------------------
(* What the two steps after a relaxation do, the queues being wide enough. *)

LEMMA PublishFacts ==
  ASSUME ListsInv', NEW u \in Vertex, PublishTouched(u)
  PROVE  /\ pc[u] = "publish" /\ pc' = [pc EXCEPT ![u] = "enqueue"]
         /\ UNCHANGED <<epos, label, from, low, next, minNext, dyn, srcMask>>
  <1>1. errorStatus' # 5
    BY DEF ListsInv, MarkInv
  <1> QED BY <1>1 DEF PublishTouched

\* What an enqueue changes, with the types the later cases need.
LEMMA EnqueueFacts ==
  ASSUME ListsInv, ListsInv', NEW u \in Vertex, phase = "round", Enqueue(u)
  PROVE  /\ pc[u] = "enqueue" /\ pc' = [pc EXCEPT ![u] = "edge"]
         /\ epos' = [epos EXCEPT ![u] = epos[u] + 1]
         /\ low' = [low EXCEPT ![u] = Min2(low[u], Candidate(u))]
         /\ to[epos[u]] \in Vertex /\ next' = next \cup {to[epos[u]]}
         /\ UNCHANGED <<label, from, minNext, dyn, srcMask>>
  <1>1. errorStatus' # 4
    BY DEF ListsInv, MarkInv
  <1>2. to[epos[u]] \in Vertex
    BY CursorEdge DEF ListsInv, TypeInv, CursorOK, Enqueue, Working
  <1>3. ~FirstInRound(to[epos[u]]) => to[epos[u]] \in next
    BY <1>2 DEF FirstInRound, ListsInv, MarkInv
  <1> QED BY <1>1, <1>2, <1>3 DEF Enqueue, NextEdge

\* A kernel step of thread u leaves the other threads alone.
LEMMA OtherThreads ==
  ASSUME TypeInv, NEW u \in Vertex, Kernel(u), NEW x \in Vertex, x # u
  PROVE  pc'[x] = pc[x] /\ epos'[x] = epos[x] /\ from'[x] = from[x] /\ low'[x] = low[x]
  BY DEF Kernel, LoadLabel, SkipEdge, RelaxEdge, PublishTouched, Enqueue, FinishThread, NextEdge, TypeInv, TypeOK

\* A kernel step keeps the phase and the frontier and lowers labels at most.
LEMMA KernelFrame ==
  ASSUME TypeInv, NEW u \in Vertex, Kernel(u)
  PROVE  /\ phase = "round" /\ phase' = "round"
         /\ UNCHANGED <<dyn, query, retried, srcMask, frontier, stop, result>> /\ Admit' = Admit
         /\ \A v \in Vertex : label'[v] <= label[v] /\ label'[v] \in Cost /\ label[v] \in Cost
  <1>1. /\ phase = "round" /\ phase' = "round"
        /\ UNCHANGED <<dyn, query, retried, srcMask, frontier, stop, result>>
    BY DEF Kernel, LoadLabel, SkipEdge, RelaxEdge, PublishTouched, Enqueue, FinishThread, device, host, asked, round
  <1>2. ~ResetAndSeed /\ Answering'
    BY <1>1 DEF ResetAndSeed, Answering
  <1>3. [Next]_vars
    BY DEF Next, Work
  <1>4. label \in [Vertex -> Cost]
    BY DEF TypeInv, TypeOK
  <1> QED BY <1>1, <1>2, <1>3, <1>4, LabelsFall DEF Admit

-----------------------------------------------------------------------------
(* A round forgets no improvement. *)

\* A label that stays is not unsettled by labels that fall.
LEMMA SettledStays ==
  ASSUME TypeInv, NEW x \in Vertex, Kernel(x),
         NEW u \in Vertex, NEW e \in OutEdges(u), label'[u] = label[u], Settled(u, e)
  PROVE  Settled(u, e)'
  <1>1. /\ UNCHANGED <<dyn, query>> /\ Admit' = Admit
        /\ \A v \in Vertex : label'[v] <= label[v] /\ label'[v] \in Cost /\ label[v] \in Cost
    BY KernelFrame
  <1>2. e \in Edge /\ to[e] \in Vertex /\ Weight(e) \in Nat
    BY EdgesOfRow, GraphTypes, DynNat, WeightType, CostEnds DEF Weight
  <1>3. Offer(u, e)' = Offer(u, e) /\ Offer(u, e) \in Nat
    BY <1>1, <1>2, SaturateSum, CostEnds DEF Offer, Weight
  <1>4. label'[to[e]] <= label[to[e]] /\ label'[to[e]] \in Nat /\ label[to[e]] \in Nat
    BY <1>1, <1>2, CostEnds
  <1> QED BY <1>1, <1>3, <1>4 DEF Settled, Relaxable

\* A node waiting to be relaxed again goes on waiting until the round ends.
LEMMA PendingStays ==
  ASSUME ListsInv, ListsInv', NEW u \in Vertex, Kernel(u), NEW v \in Vertex, Pending(v)
  PROVE  Pending(v)'
  <1>0. TypeInv /\ phase = "round"
    BY DEF ListsInv, Kernel
  <1>1. CASE LoadLabel(u) \/ SkipEdge(u) \/ RelaxEdge(u) \/ FinishThread(u)
    <2>1. next' = next /\ ~Held(u, v)
      BY <1>1 DEF LoadLabel, SkipEdge, RelaxEdge, FinishThread, Held, round
    <2>2. \A x \in Vertex : Held(x, v) => Held(x, v)'
      BY <1>0, <2>1, OtherThreads DEF Held
    <2> QED BY <2>1, <2>2 DEF Pending
  <1>2. CASE PublishTouched(u)
    BY <1>0, <1>2, PublishFacts DEF Pending, Held, TypeInv, TypeOK
  <1>3. CASE Enqueue(u)
    <2>1. next \subseteq next' /\ (Held(u, v) => v \in next')
      BY <1>0, <1>3, EnqueueFacts DEF Held
    <2>2. \A x \in Vertex \ {u} : Held(x, v) => Held(x, v)'
      BY <1>0, OtherThreads DEF Held
    <2> QED BY <2>1, <2>2 DEF Pending
  <1> QED BY <1>1, <1>2, <1>3 DEF Kernel

\* The edge a thread has just looked at is settled.
LEMMA UnsettledKernel ==
  ASSUME ListsInv, ListsInv', TreeInv, Unsettled, HeldOffers, NEW u \in Vertex, Kernel(u)
  PROVE  Unsettled'
  <1>0. /\ TypeInv /\ phase = "round" /\ phase' = "round" /\ Answering
        /\ UNCHANGED <<dyn, query, srcMask>> /\ Admit' = Admit /\ srcMask = query.sources
        /\ label \in [Vertex -> Cost]
    <2>1. TypeInv
      BY DEF ListsInv
    <2> QED BY <2>1, KernelFrame DEF Answering, TreeInv, Rooted, TypeInv, TypeOK
  <1> SUFFICES ASSUME NEW y \in Vertex, label'[y] # Inf, NEW e \in OutEdges(y), ~Settled(y, e)'
               PROVE  Pending(y)' \/ Ahead(y, e)'
    BY <1>0 DEF Unsettled
  <1>e. e \in Edge /\ e \in Nat /\ rowptr[y] <= e /\ e < rowptr[y + 1] /\ rowptr[y] \in Nat /\ rowptr[y + 1] \in Nat
    BY EdgesOfRow, RowBounds
  <1>1. CASE label'[y] # label[y]
    <2>1. RelaxEdge(u)
      BY <1>0, <1>1 DEF Kernel, LoadLabel, SkipEdge, PublishTouched, Enqueue, FinishThread, device
    <2>2. /\ to[epos[u]] \in Vertex /\ label' = [label EXCEPT ![to[epos[u]]] = Candidate(u)]
          /\ pc' = [pc EXCEPT ![u] = AfterRelax(to[epos[u]])] /\ epos' = epos
      BY <1>0, <2>1, RelaxFacts DEF RelaxEdge
    <2>3. y = to[epos[u]]
      BY <1>0, <1>1, <2>2
    <2>4. pc'[u] \in {"publish", "enqueue"}
      BY <1>0, <2>2 DEF AfterRelax, TypeInv, TypeOK
    <2>5. Held(u, y)'
      BY <2>2, <2>3, <2>4 DEF Held
    <2> QED BY <2>5 DEF Pending
  <1>2. CASE label'[y] = label[y]
    <2>1. ~Settled(y, e) /\ (Pending(y) \/ Ahead(y, e))
      BY <1>0, <1>2, SettledStays DEF Unsettled
    <2>2. CASE Pending(y)
      BY <2>2, PendingStays
    <2>3. CASE Ahead(y, e) /\ y # u
      <3>1. pc'[y] = pc[y] /\ epos'[y] = epos[y] /\ from'[y] = from[y]
        BY <1>0, <2>3, OtherThreads
      <3> QED BY <1>2, <2>3, <3>1 DEF Ahead
    <2>4. CASE Ahead(y, e) /\ y = u
      <3>0. epos \in [Vertex -> 0 .. Nnz] /\ epos[u] \in Nat /\ pc \in [Vertex -> {"off", "load", "edge", "publish", "enqueue"}]
        BY <1>0, GraphTypes DEF TypeInv, TypeOK
      <3>1. CASE LoadLabel(u)
        <4>1. pc'[u] = "edge" /\ from'[u] = label'[u] /\ epos'[u] = rowptr[u]
          BY <1>0, <1>2, <2>4, <3>1, <3>0 DEF LoadLabel, device, TypeInv, TypeOK
        <4> QED BY <1>e, <2>4, <4>1 DEF Ahead, Working
      <3>2. CASE SkipEdge(u)
        <4>1. pc[u] = "edge" /\ from[u] = label[u] /\ epos[u] <= e /\ ~Improves(u)
          BY <2>4, <3>2 DEF SkipEdge, Ahead
        <4>2. CASE epos[u] = e
          <5>1. Candidate(u) = Offer(u, e)
            BY <4>1, <4>2 DEF Candidate, Offer, Weight
          <5>2. Candidate(u) \in Nat /\ label[to[e]] \in Nat
            <6>1. pc[u] \in Working /\ epos[u] < rowptr[u + 1]
              BY <4>1, <3>2 DEF SkipEdge, Working
            <6> QED BY <1>0, <4>2, <6>1, CursorEdge, CostEnds
          <5>3. Relaxable(e, query.sources, Admit) => label[to[e]] <= Candidate(u)
            BY <1>0, <4>1, <4>2, <5>2 DEF Relaxable, Improves, Admitted
          <5> QED BY <2>1, <2>4, <5>1, <5>3 DEF Settled
        <4>3. CASE epos[u] # e
          <5>1. epos'[u] <= e /\ pc'[u] = "edge" /\ from'[u] = label'[u]
            BY <1>2, <1>e, <2>4, <3>0, <3>2, <4>1, <4>3 DEF SkipEdge, NextEdge
          <5> QED BY <2>4, <5>1 DEF Ahead, Working
        <4> QED BY <4>2, <4>3
      <3>3. CASE RelaxEdge(u)
        <4>1. pc[u] = "edge" /\ UNCHANGED <<from, epos>> /\ pc'[u] \in Working
          BY <3>0, <3>3 DEF RelaxEdge, AfterRelax, Working
        <4> QED BY <1>2, <2>4, <4>1 DEF Ahead
      <3>4. CASE PublishTouched(u)
        <4>1. pc[u] = "publish" /\ UNCHANGED <<from, epos>> /\ pc'[u] \in Working
          BY <3>0, <3>4, PublishFacts DEF Working
        <4> QED BY <1>2, <2>4, <4>1 DEF Ahead
      <3>5. CASE Enqueue(u)
        <4>1. /\ pc[u] = "enqueue" /\ from[u] = label[u] /\ epos[u] <= e
              /\ pc'[u] = "edge" /\ from'[u] = label'[u] /\ epos'[u] = epos[u] + 1
          BY <1>0, <1>2, <2>4, <3>0, <3>5, EnqueueFacts DEF Ahead
        <4>2. epos[u] # e
          <5>1. ASSUME epos[u] = e PROVE Settled(u, e)
            <6>1. label[to[e]] <= Candidate(u)
              BY <4>1, <5>1 DEF HeldOffers
            <6>2. Candidate(u) = Offer(u, e)
              BY <4>1, <5>1 DEF Candidate, Offer, Weight
            <6> QED BY <6>1, <6>2 DEF Settled
          <5> QED BY <2>1, <2>4, <5>1
        <4>3. epos'[u] <= e
          BY <1>e, <3>0, <4>1, <4>2
        <4> QED BY <2>4, <4>1, <4>3 DEF Ahead, Working
      <3>6. CASE FinishThread(u)
        <4>1. epos[u] <= e /\ epos[u] >= rowptr[u + 1]
          BY <2>4, <3>6 DEF FinishThread, Ahead
        <4> QED BY <1>e, <2>4, <3>0, <4>1
      <3> QED BY <3>1, <3>2, <3>3, <3>4, <3>5, <3>6 DEF Kernel
    <2> QED BY <2>1, <2>2, <2>3, <2>4
  <1> QED BY <1>1, <1>2

\* No step of a relaxing thread makes the candidate a thread holds better
\* than its node's label.
LEMMA HeldKernel ==
  ASSUME TypeInv, HeldOffers, NEW u \in Vertex, Kernel(u)
  PROVE  HeldOffers'
  <1>0. /\ phase = "round" /\ UNCHANGED dyn
        /\ \A v \in Vertex : label'[v] <= label[v] /\ label'[v] \in Cost /\ label[v] \in Cost
    BY KernelFrame
  <1> SUFFICES ASSUME NEW x \in Vertex, pc'[x] \in {"publish", "enqueue"}
               PROVE  label'[to[epos'[x]]] <= Candidate(x)'
    BY DEF HeldOffers
  <1>1. CASE pc[x] \in {"publish", "enqueue"} /\ epos'[x] = epos[x] /\ from'[x] = from[x]
    <2>1. label[to[epos[x]]] <= Candidate(x) /\ Candidate(x)' = Candidate(x)
      BY <1>0, <1>1 DEF HeldOffers, Candidate
    <2>2. to[epos[x]] \in Vertex /\ Candidate(x) \in Nat
      <3>1. pc[x] \in Working /\ epos[x] < rowptr[x + 1]
        BY <1>1 DEF Working, TypeInv, CursorOK
      <3> QED BY <3>1, CursorEdge, CostEnds
    <2>3. label'[to[epos[x]]] <= label[to[epos[x]]] /\ label'[to[epos[x]]] \in Nat /\ label[to[epos[x]]] \in Nat
      BY <1>0, <2>2, CostEnds
    <2> QED BY <1>1, <2>1, <2>2, <2>3
  <1>2. CASE x = u /\ RelaxEdge(u)
    <2>1. /\ label' = [label EXCEPT ![to[epos[u]]] = Candidate(u)] /\ to[epos[u]] \in Vertex
          /\ UNCHANGED <<epos, from>> /\ Candidate(u) \in Nat /\ label \in [Vertex -> Cost]
      BY <1>2, RelaxFacts, CostEnds DEF TypeInv, TypeOK
    <2>2. Candidate(u)' = Candidate(u)
      BY <1>0, <2>1 DEF Candidate
    <2> QED BY <1>2, <2>1, <2>2
  <1>3. CASE x # u
    BY <1>1, <1>3, OtherThreads
  <1>4. CASE x = u /\ ~RelaxEdge(u)
    <2>1. PublishTouched(u)
      BY <1>4 DEF Kernel, LoadLabel, SkipEdge, Enqueue, FinishThread, TypeInv, TypeOK
    <2>2. pc[u] = "publish" /\ epos'[u] = epos[u] /\ from'[u] = from[u]
      BY <1>4, <2>1 DEF PublishTouched, NextEdge, TypeInv, TypeOK
    <2> QED BY <1>1, <1>4, <2>2
  <1> QED BY <1>2, <1>3, <1>4

\* A minimum of two costs is below each of them.
LEMMA MinOfTwo ==
  ASSUME NEW a \in Cost, NEW b \in Cost
  PROVE  Min2(a, b) \in Cost /\ Min2(a, b) <= a /\ Min2(a, b) <= b
  BY CostEnds DEF Min2

\* A cover moves from a thread's candidate to its minimum and from there to
\* the round's, and is never dropped.
LEMMA MinimumKernel ==
  ASSUME ListsInv, ListsInv', Minimum, NEW u \in Vertex, Kernel(u)
  PROVE  Minimum'
  <1>0. /\ TypeInv /\ phase = "round" /\ UNCHANGED dyn
        /\ label \in [Vertex -> Cost] /\ low \in [Vertex -> Cost] /\ minNext \in Cost
        /\ pc \in [Vertex -> {"off", "load", "edge", "publish", "enqueue"}]
        /\ epos \in [Vertex -> 0 .. Nnz] /\ from \in [Vertex -> Cost]
    BY KernelFrame DEF ListsInv, TypeInv, TypeOK
  <1> SUFFICES ASSUME NEW y \in Vertex, Pending(y)' PROVE Covered(y)'
    BY DEF Minimum
  <1>a. ASSUME UNCHANGED <<label, minNext>>, Covered(y), low'[u] = low[u],
               pc[u] \in Working => pc'[u] \in Working,
               Held(u, y) /\ Candidate(u) <= label[y] => Held(u, y)' /\ Candidate(u)' = Candidate(u)
        PROVE  Covered(y)'
    <2>1. CASE minNext <= label[y]
      BY <1>a, <2>1 DEF Covered
    <2>2. ASSUME NEW x \in Vertex, pc[x] \in Working,
                 low[x] <= label[y] \/ (Held(x, y) /\ Candidate(x) <= label[y])
          PROVE  Covered(y)'
      <3>1. CASE x = u
        BY <1>a, <2>2, <3>1 DEF Covered
      <3>2. CASE x # u
        <4>1. pc'[x] = pc[x] /\ epos'[x] = epos[x] /\ from'[x] = from[x] /\ low'[x] = low[x]
          BY <1>0, <3>2, OtherThreads
        <4>2. Candidate(x)' = Candidate(x) /\ (Held(x, y) => Held(x, y)')
          BY <1>0, <4>1 DEF Candidate, Held
        <4> QED BY <1>a, <2>2, <4>1, <4>2 DEF Covered
      <3> QED BY <3>1, <3>2
    <2> QED BY <1>a, <2>1, <2>2 DEF Covered
  <1>1. CASE LoadLabel(u) \/ SkipEdge(u) \/ FinishThread(u)
    <2>1. UNCHANGED <<label, next>> /\ ~Held(u, y) /\ ~Held(u, y)'
      BY <1>0, <1>1 DEF LoadLabel, SkipEdge, FinishThread, Held, round, device
    <2>2. Covered(y)
      <3>1. \A x \in Vertex : Held(x, y)' => Held(x, y)
        BY <1>0, <2>1, OtherThreads DEF Held
      <3> QED BY <2>1, <3>1 DEF Pending, Minimum
    <2>3. CASE LoadLabel(u)
      <3>1. minNext' = minNext /\ pc[u] \notin Working
        BY <2>3 DEF LoadLabel, Working, round
      <3>2. CASE minNext <= label[y]
        BY <2>1, <3>1, <3>2 DEF Covered
      <3>3. ASSUME NEW x \in Vertex, pc[x] \in Working,
                   low[x] <= label[y] \/ (Held(x, y) /\ Candidate(x) <= label[y])
            PROVE  Covered(y)'
        <4>1. x # u
          BY <3>1, <3>3
        <4>2. pc'[x] = pc[x] /\ epos'[x] = epos[x] /\ from'[x] = from[x] /\ low'[x] = low[x]
          BY <1>0, <4>1, OtherThreads
        <4>3. Candidate(x)' = Candidate(x) /\ (Held(x, y) => Held(x, y)')
          BY <1>0, <4>2 DEF Candidate, Held
        <4> QED BY <2>1, <3>3, <4>2, <4>3 DEF Covered
      <3> QED BY <2>2, <3>2, <3>3 DEF Covered
    <2>4. CASE SkipEdge(u)
      <3>1. UNCHANGED <<minNext, low, pc>>
        BY <2>4 DEF SkipEdge
      <3> QED BY <1>a, <2>1, <2>2, <3>1
    <2>5. CASE FinishThread(u)
      <3>1. /\ minNext' \in Cost /\ minNext' <= minNext /\ minNext' <= low[u] /\ label' = label
            /\ label[y] \in Nat /\ minNext \in Nat /\ low[u] \in Nat /\ minNext' \in Nat
        BY <1>0, <2>1, <2>5, MinOfTwo, CostEnds DEF FinishThread
      <3>2. CASE minNext <= label[y]
        BY <3>1, <3>2 DEF Covered
      <3>3. ASSUME NEW x \in Vertex, pc[x] \in Working,
                   low[x] <= label[y] \/ (Held(x, y) /\ Candidate(x) <= label[y])
            PROVE  Covered(y)'
        <4>1. CASE x = u
          BY <2>1, <3>1, <3>3, <4>1 DEF Covered
        <4>2. CASE x # u
          <5>1. pc'[x] = pc[x] /\ epos'[x] = epos[x] /\ from'[x] = from[x] /\ low'[x] = low[x]
            BY <1>0, <4>2, OtherThreads
          <5>2. Candidate(x)' = Candidate(x) /\ (Held(x, y) => Held(x, y)')
            BY <1>0, <5>1 DEF Candidate, Held
          <5> QED BY <2>1, <3>3, <5>1, <5>2 DEF Covered
        <4> QED BY <4>1, <4>2
      <3> QED BY <2>2, <3>2, <3>3 DEF Covered
    <2> QED BY <1>1, <2>3, <2>4, <2>5
  <1>2. CASE RelaxEdge(u)
    <2>1. /\ pc[u] = "edge" /\ UNCHANGED <<epos, from, low, next, minNext>> /\ to[epos[u]] \in Vertex
          /\ label' = [label EXCEPT ![to[epos[u]]] = Candidate(u)] /\ Candidate(u) \in Nat
      BY <1>0, <1>2, RelaxFacts, CostEnds
    <2>2. pc'[u] \in {"publish", "enqueue"} /\ Candidate(u)' = Candidate(u)
      BY <1>0, <1>2, <2>1 DEF RelaxEdge, AfterRelax, Candidate
    <2>3. CASE y = to[epos[u]]
      <3>1. Held(u, y)' /\ label'[y] = Candidate(u)
        BY <1>0, <2>1, <2>2, <2>3 DEF Held
      <3> QED BY <2>1, <2>2, <3>1 DEF Covered, Working
    <2>4. CASE y # to[epos[u]]
      <3>1. label'[y] = label[y] /\ ~Held(u, y) /\ ~Held(u, y)'
        BY <1>0, <2>1, <2>4 DEF Held
      <3>2. \A x \in Vertex : x # u => /\ pc'[x] = pc[x] /\ Candidate(x)' = Candidate(x)
                                       /\ (Held(x, y) <=> Held(x, y)')
        BY <1>0, <2>1, OtherThreads DEF Held, Candidate
      <3>3. Covered(y)
        BY <2>1, <3>1, <3>2 DEF Pending, Minimum
      <3> QED BY <2>1, <2>2, <3>1, <3>2, <3>3 DEF Covered, Working
    <2> QED BY <2>3, <2>4
  <1>3. CASE PublishTouched(u)
    <2>1. /\ pc[u] = "publish" /\ pc' = [pc EXCEPT ![u] = "enqueue"]
          /\ UNCHANGED <<epos, label, from, low, next, minNext>>
      BY <1>3, PublishFacts
    <2>2. \A x \in Vertex : Candidate(x)' = Candidate(x) /\ (Held(x, y) <=> Held(x, y)')
      BY <1>0, <2>1 DEF Held, Candidate
    <2>3. Covered(y)
      BY <2>1, <2>2 DEF Pending, Minimum
    <2>4. pc'[u] \in Working
      BY <1>0, <2>1 DEF Working
    <2> QED BY <1>a, <2>1, <2>2, <2>3, <2>4
  <1>4. CASE Enqueue(u)
    <2>1. /\ pc[u] = "enqueue" /\ pc' = [pc EXCEPT ![u] = "edge"]
          /\ low' = [low EXCEPT ![u] = Min2(low[u], Candidate(u))]
          /\ to[epos[u]] \in Vertex /\ next' = next \cup {to[epos[u]]}
          /\ UNCHANGED <<label, from, minNext>>
      BY <1>0, <1>4, EnqueueFacts
    <2>2. Candidate(u) \in Cost
      <3>1. pc[u] \in Working /\ epos[u] < rowptr[u + 1]
        BY <1>0, <2>1 DEF Working, TypeInv, CursorOK
      <3> QED BY <1>0, <3>1, CursorEdge
    <2>3. /\ low'[u] <= low[u] /\ low'[u] <= Candidate(u) /\ pc'[u] \in Working
          /\ low'[u] \in Nat /\ low[u] \in Nat /\ Candidate(u) \in Nat /\ label[y] \in Nat
      BY <1>0, <2>1, <2>2, MinOfTwo, CostEnds DEF Working
    <2>4. \A x \in Vertex : x # u => /\ pc'[x] = pc[x] /\ Candidate(x)' = Candidate(x) /\ low'[x] = low[x]
                                     /\ (Held(x, y) <=> Held(x, y)')
      BY <1>0, OtherThreads DEF Held, Candidate
    <2>5. ~Held(u, y)' /\ (y = to[epos[u]] => Held(u, y))
      BY <1>0, <2>1 DEF Held
    <2>6. Covered(y)
      BY <2>1, <2>4, <2>5 DEF Pending, Minimum
    <2>7. CASE minNext <= label[y]
      BY <2>1, <2>7 DEF Covered
    <2>8. ASSUME NEW x \in Vertex, pc[x] \in Working,
                 low[x] <= label[y] \/ (Held(x, y) /\ Candidate(x) <= label[y])
          PROVE  Covered(y)'
      <3>1. CASE x = u
        BY <2>1, <2>3, <2>8, <3>1 DEF Covered
      <3>2. CASE x # u
        BY <2>1, <2>4, <2>8, <3>2 DEF Covered
      <3> QED BY <3>1, <3>2
    <2> QED BY <2>6, <2>7, <2>8 DEF Covered
  <1> QED BY <1>1, <1>2, <1>3, <1>4 DEF Kernel

-----------------------------------------------------------------------------
(* From round to round, and from the last round to the answer. *)

\* The candidates of a round decide what a certificate covers.
LEMMA SettleDecide ==
  ASSUME ListsInv, TreeInv, SettleInv, Decide
  PROVE  SettleInv'
  <1>0. /\ phase = "round" /\ (\A u \in Vertex : pc[u] = "off") /\ Unsettled /\ HeldOffers /\ Minimum
        /\ UNCHANGED <<dyn, query, retried, label, next, minNext>> /\ Admit' = Admit
        /\ label \in [Vertex -> Cost] /\ next \subseteq Vertex /\ minNext \in Cost
        /\ nextCount = Cardinality(next)
    BY DEF Decide, SettleInv, device, asked, Admit, ListsInv, MarkInv, TypeInv, TypeOK
  <1>1. \A u, e : Settled(u, e)' <=> Settled(u, e)
    BY <1>0 DEF Settled, Relaxable, Offer, Weight
  <1>2. ASSUME NEW u \in Vertex, label[u] # Inf, NEW e \in OutEdges(u), ~Settled(u, e)
        PROVE  u \in next
    BY <1>0, <1>2 DEF Unsettled, Pending, Held, Ahead, Working
  <1>3. ASSUME NEW u \in next
        PROVE  minNext <= label[u]
    BY <1>0, <1>3 DEF Minimum, Covered, Pending, Working
  <1>4. CASE errorStatus # 0
    BY <1>4 DEF Decide, SettleInv
  <1>5. CASE errorStatus = 0 /\ StopReason = "none"
    <2>1. phase' = "loop" /\ frontier' = next
      BY <1>5 DEF Decide
    <2> QED BY <1>0, <1>1, <1>2, <2>1 DEF SettleInv, Unsettled
  <1>6. CASE errorStatus = 0 /\ StopReason # "none"
    <2>1. phase' = "stopped" /\ stop' = StopReason
      BY <1>6 DEF Decide
    <2> SUFFICES ASSUME StopReason \in {"converged", "target"}
                 PROVE  \E M \in Cost : Horizon(M)'
      BY <2>1 DEF SettleInv, Certified
    <2>2. \A q \in Queries : q.targets \subseteq Vertex
      BY QueryAssumption
    <2>3. query.targets \subseteq Vertex
      BY <2>2 DEF ListsInv, TypeInv, TypeOK
    <2>4. CASE StopReason = "converged"
      <3>1. next = {}
        BY <1>0, <2>4, FiniteNodes, FS_EmptySet DEF StopReason
      <3>2. Horizon(Inf)'
        BY <1>0, <1>1, <1>2, <2>3, <3>1, CostEnds DEF Horizon
      <3> QED BY <3>2, CostEnds
    <2>5. CASE StopReason = "target"
      <3>1. LabelsFinal
        BY <2>5 DEF StopReason
      <3>2. ASSUME NEW u \in Vertex, label[u] < minNext, NEW e \in OutEdges(u)
            PROVE  Settled(u, e)
        <4>1. label[u] # Inf /\ ~(minNext <= label[u])
          BY <1>0, <3>2, CostEnds
        <4> QED BY <1>2, <1>3, <4>1
      <3>3. Horizon(minNext)'
        BY <1>0, <1>1, <3>1, <3>2 DEF Horizon, LabelsFinal
      <3>4. Horizon(minNext)' <=> \E M \in Cost : M = minNext /\ Horizon(M)'
        BY <1>0 DEF Horizon
      <3> QED BY <3>3, <3>4
    <2> QED BY <2>4, <2>5
  <1> QED BY <1>4, <1>5, <1>6

\* Every step keeps the account of the edges that could still lower a
\* label: a queue or a thread holds each, and a certificate rules them out.
LEMMA SettleStep == ListsInv /\ ListsInv' /\ TreeInv /\ SettleInv /\ [Next]_vars => SettleInv'
  <1> SUFFICES ASSUME ListsInv, ListsInv', TreeInv, SettleInv, [Next]_vars
               PROVE  SettleInv'
    OBVIOUS
  <1>1. CASE UpdateCosts \/ Begin \/ DenseReset \/ Arm \/ RunUnbounded \/ Return \/ Abort
    <2>1. phase' \notin {"loop", "round", "stopped", "done"}
      BY <1>1 DEF UpdateCosts, Begin, DenseReset, Arm, RunUnbounded, Return, Abort, host
    <2> QED BY <2>1 DEF SettleInv
  <1>2. CASE ResetAndSeed
    <2>1. /\ phase' = "loop" /\ frontier' = query.sources
          /\ label' = [v \in Vertex |-> IF v \in query.sources THEN 0 ELSE Inf]
      BY <1>2, SeedFacts DEF ResetAndSeed, ListsInv
    <2> QED BY <2>1 DEF SettleInv, Unsettled
  <1>3. CASE StartRound
    <2>1. /\ phase = "loop" /\ phase' = "round" /\ next' = {}
          /\ pc' = [v \in Vertex |-> IF v \in frontier THEN "load" ELSE "off"]
          /\ UNCHANGED <<dyn, label, query, retried>>
      BY <1>3 DEF StartRound, device, asked
    <2>2. \A u, e : Settled(u, e)' <=> Settled(u, e)
      BY <2>1 DEF Settled, Relaxable, Offer, Weight, Admit
    <2>3. Unsettled'
      BY <2>1, <2>2 DEF SettleInv, Unsettled, Ahead
    <2>4. HeldOffers' /\ Minimum'
      BY <2>1 DEF HeldOffers, Minimum, Pending, Held
    <2> QED BY <2>1, <2>3, <2>4 DEF SettleInv
  <1>4. CASE NoRounds
    <2>1. phase = "loop" /\ phase' = "stopped" /\ UNCHANGED <<dyn, label, query, retried>>
      BY <1>4 DEF NoRounds, device, asked
    <2>2. ASSUME Certified'
          PROVE  Horizon(0)'
      <3>1. query.targets \subseteq srcMask
        BY <1>4, <2>1, <2>2 DEF NoRounds, Certified, TreeInv, Rooted, Answering
      <3>2. \A t \in query.targets : label[t] = 0
        BY <2>1, <3>1 DEF TreeInv, Rooted, Answering
      <3>3. \A u \in Vertex : ~(label[u] < 0)
        BY CostEnds DEF ListsInv, TypeInv, TypeOK
      <3> QED BY <2>1, <3>2, <3>3 DEF Horizon
    <2> QED BY <2>1, <2>2, CostEnds DEF SettleInv
  <1>5. ASSUME NEW u \in Vertex, Kernel(u)
        PROVE  SettleInv'
    <2>1. phase = "round" /\ phase' = "round" /\ TypeInv
      BY <1>5, KernelFrame DEF ListsInv
    <2>2. Unsettled' /\ HeldOffers' /\ Minimum'
      BY <1>5, <2>1, UnsettledKernel, HeldKernel, MinimumKernel DEF SettleInv
    <2> QED BY <2>1, <2>2 DEF SettleInv
  <1>6. CASE Decide
    BY <1>6, SettleDecide
  <1>7. CASE Reply
    <2>1. phase = "stopped" /\ UNCHANGED <<dyn, label, pred, srcMask, query, retried, stop>>
      BY <1>7 DEF Reply, device, asked
    <2>2. \A M \in Cost : Horizon(M)' <=> Horizon(M)
      BY <2>1 DEF Horizon, Settled, Relaxable, Offer, Weight, Admit
    <2>3. Certified' = Certified
      BY <2>1 DEF Certified
    <2>4. CASE ChainsValid
      <3>1. /\ phase' = "done"
            /\ result' = [certified |-> Certified, dist |-> [t \in query.targets |-> label[t]]]
        BY <1>7, <2>4 DEF Reply
      <3>2. ChainsValid' <=> ChainsValid
        BY <2>1 DEF ChainsValid, Chain, Walk
      <3> QED BY <2>1, <2>2, <2>3, <2>4, <3>1, <3>2 DEF SettleInv
    <2>5. CASE ~ChainsValid
      BY <1>7, <2>5 DEF Reply, SettleInv
    <2> QED BY <2>4, <2>5
  <1>8. CASE UNCHANGED vars
    <2>1. UNCHANGED <<dyn, label, pred, srcMask, query, retried, stop, result, phase, frontier, next, minNext,
                      pc, epos, from, low>>
      BY <1>8 DEF vars, device, host, asked, round, threads
    <2>2. \A u, e : Settled(u, e)' <=> Settled(u, e)
      BY <2>1 DEF Settled, Relaxable, Offer, Weight, Admit
    <2>3. Unsettled' <=> Unsettled
      BY <2>1, <2>2 DEF Unsettled, Pending, Held, Ahead
    <2>4. (HeldOffers' <=> HeldOffers) /\ (Minimum' <=> Minimum)
      BY <2>1 DEF HeldOffers, Minimum, Pending, Held, Covered, Candidate
    <2>5. (\A M \in Cost : Horizon(M)' <=> Horizon(M)) /\ Certified' = Certified
      BY <2>1, <2>2 DEF Horizon, Certified
    <2>6. ChainsValid' <=> ChainsValid
      BY <2>1 DEF ChainsValid, Chain, Walk
    <2> QED BY <2>1, <2>3, <2>4, <2>5, <2>6 DEF SettleInv
  <1> QED BY <1>1, <1>2, <1>3, <1>4, <1>5, <1>6, <1>7, <1>8 DEF Next, Work

-----------------------------------------------------------------------------
(* The walk along predecessors. *)

\* One more node at the front of the walks that f holds.
Level(k, f) ==
    [v \in Vertex |->
       IF k = 0 THEN BadChain
       ELSE IF pred[v] = NoEdge
            THEN IF v \in srcMask /\ label[v] = 0
                 THEN [valid |-> TRUE, root |-> v, edges |-> <<>>, cost |-> 0]
                 ELSE BadChain
            ELSE IF to[pred[v]] # v THEN BadChain
                 ELSE LET up == f[k - 1][SourceForEdge(pred[v])]
                      IN  [up EXCEPT !.edges = Append(@, pred[v]),
                                     !.cost = Saturate(@ + EffectiveWeight(pred[v], dyn))]]

Walks(K, f) == f = [k \in 0 .. K |-> Level(k, f)]

\* The recursive definition of Walk has a solution for any number of steps, so
\* Walk satisfies it.
LEMMA WalkUnfolds ==
  /\ Walk = [k \in 0 .. Rows + 1 |-> Level(k, Walk)]
  /\ \A k \in 0 .. Rows + 1 : Walk[k] = Level(k, Walk)
  <1>1. ASSUME NEW k \in Nat, NEW f, NEW g, k = 0 \/ f[k - 1] = g[k - 1]
        PROVE  Level(k, f) = Level(k, g)
    <2>1. CASE k = 0
      BY <2>1 DEF Level
    <2>2. CASE k # 0 /\ f[k - 1] = g[k - 1]
      BY <2>2 DEF Level
    <2> QED BY <1>1, <2>1, <2>2
  <1>2. ASSUME NEW K \in Nat, NEW f, Walks(K, f)
        PROVE  \E g : Walks(K + 1, g)
    <2> DEFINE g == [k \in 0 .. K + 1 |-> IF k <= K THEN f[k] ELSE Level(K + 1, f)]
    <2>1. \A k \in 0 .. K : f[k] = Level(k, f)
      BY <1>2 DEF Walks
    <2>2. ASSUME NEW k \in 0 .. K + 1
          PROVE  g[k] = Level(k, g)
      <3>1. k = 0 \/ g[k - 1] = f[k - 1]
        BY <1>2
      <3>2. Level(k, g) = Level(k, f)
        <4> HIDE DEF g
        <4> QED BY <1>1, <3>1
      <3>3. g[k] = Level(k, f)
        <4>1. CASE k <= K
          BY <2>1, <4>1
        <4>2. CASE ~(k <= K)
          <5>1. k = K + 1
            BY <4>2
          <5> QED BY <4>2, <5>1
        <4> QED BY <4>1, <4>2
      <3> QED BY <3>2, <3>3
    <2>3. g = [k \in 0 .. K + 1 |-> g[k]]
      OBVIOUS
    <2> HIDE DEF g
    <2>4. g = [k \in 0 .. K + 1 |-> Level(k, g)]
      BY <2>2, <2>3
    <2> QED BY <2>4 DEF Walks
  <1>3. \E f : Walks(0, f)
    <2> DEFINE f == [k \in 0 .. 0 |-> Level(0, BadChain)]
    <2>1. \A k \in 0 .. 0 : k = 0 /\ f[k] = Level(0, BadChain)
      OBVIOUS
    <2>2. f = [k \in 0 .. 0 |-> f[k]]
      OBVIOUS
    <2> HIDE DEF f
    <2>3. \A k \in 0 .. 0 : f[k] = Level(k, f)
      BY <1>1, <2>1
    <2>4. f = [k \in 0 .. 0 |-> Level(k, f)]
      BY <2>2, <2>3
    <2> QED BY <2>4 DEF Walks
  <1>4. \A K \in Nat : \E f : Walks(K, f)
    <2> DEFINE S == {K \in Nat : ~ \E f : Walks(K, f)}
    <2> SUFFICES ASSUME S # {} PROVE FALSE
      OBVIOUS
    <2>1. PICK m \in S : \A k \in S : m <= k
      <3>1. S \in SUBSET Nat
        OBVIOUS
      <3> HIDE DEF S
      <3> QED BY <3>1, LeastNat
    <2>2. m \in Nat /\ m # 0
      BY <1>3
    <2>3. m - 1 \in Nat /\ m - 1 \notin S
      BY <2>1, <2>2
    <2>4. \E f : Walks(m - 1 + 1, f)
      BY <1>2, <2>3
    <2> QED BY <2>2, <2>4
  <1>5. Rows + 1 \in Nat
    BY GraphTypes
  <1>6. \E f : f = [k \in 0 .. Rows + 1 |-> Level(k, f)]
    BY <1>4, <1>5 DEF Walks
  <1>7. Walk = CHOOSE f : f = [k \in 0 .. Rows + 1 |-> Level(k, f)]
    BY DEF Walk, Level
  <1>8. Walk = [k \in 0 .. Rows + 1 |-> Level(k, Walk)]
    <2> HIDE DEF Level
    <2> QED BY <1>6, <1>7
  <1>9. ASSUME NEW k \in 0 .. Rows + 1 PROVE Walk[k] = Level(k, Walk)
    BY <1>8, <1>9
  <1> QED BY <1>8, <1>9

\* A summary that Walk may return.
Summary(s) == \E a, b, c, d : s = [valid |-> a, root |-> b, edges |-> c, cost |-> d]

\* However far the walk of the predecessor chains has come, it holds a
\* summary for every node.
LEMMA WalkSummaries ==
  ASSUME TypeInv
  PROVE  \A k \in 0 .. Rows + 1 : \A v \in Vertex : Summary(Walk[k][v])
  <1> DEFINE S == {k \in 0 .. Rows + 1 : \E v \in Vertex : ~Summary(Walk[k][v])}
  <1> SUFFICES ASSUME S # {} PROVE FALSE
    OBVIOUS
  <1>1. PICK k \in S : \A j \in S : k <= j
    <2>1. S \in SUBSET Nat
      OBVIOUS
    <2> HIDE DEF S
    <2> QED BY <2>1, LeastNat
  <1>2. PICK v \in Vertex : ~Summary(Walk[k][v])
    BY <1>1
  <1>3. Walk[k] = Level(k, Walk) /\ k \in 0 .. Rows + 1
    BY <1>1, WalkUnfolds
  <1>4. Summary(BadChain)
    BY DEF Summary, BadChain
  <1>5. Summary([valid |-> TRUE, root |-> v, edges |-> <<>>, cost |-> 0])
    BY DEF Summary
  <1>6. CASE k = 0 \/ pred[v] = NoEdge \/ to[pred[v]] # v
    <2>1. Walk[k][v] = BadChain \/ Walk[k][v] = [valid |-> TRUE, root |-> v, edges |-> <<>>, cost |-> 0]
      BY <1>3, <1>6 DEF Level
    <2> QED BY <1>2, <1>4, <1>5, <2>1
  <1>7. CASE k # 0 /\ pred[v] # NoEdge
    <2> DEFINE up == Walk[k - 1][SourceForEdge(pred[v])]
    <2>1. SourceForEdge(pred[v]) \in Vertex
      BY <1>7, SourceIsVertex DEF TypeInv, TypeOK
    <2>2. k - 1 \in 0 .. Rows + 1 /\ k - 1 \notin S
      BY <1>1, <1>3, <1>7, GraphTypes
    <2>3. Summary(up)
      BY <2>1, <2>2
    <2>4. Walk[k][v] = [up EXCEPT !.edges = Append(@, pred[v]), !.cost = Saturate(@ + EffectiveWeight(pred[v], dyn))]
          \/ to[pred[v]] # v
      BY <1>3, <1>7 DEF Level
    <2> HIDE DEF up
    <2>5. PICK a, b, c, d : up = [valid |-> a, root |-> b, edges |-> c, cost |-> d]
      BY <2>3 DEF Summary
    <2>6. Walk[k][v] = [valid |-> a, root |-> b, edges |-> Append(c, pred[v]),
                        cost |-> Saturate(d + EffectiveWeight(pred[v], dyn))]
          \/ to[pred[v]] # v
      BY <2>4, <2>5
    <2>7. Summary([valid |-> a, root |-> b, edges |-> Append(c, pred[v]),
                   cost |-> Saturate(d + EffectiveWeight(pred[v], dyn))])
      BY DEF Summary
    <2> QED BY <1>2, <1>6, <2>6, <2>7
  <1> QED BY <1>6, <1>7

\* Below the horizon a label is exactly what the predecessor offers: it is at
\* least that by Rooted, and at most that because the edge is settled.
LEMMA TightBelowHorizon ==
  ASSUME TypeInv, Rooted, NEW M \in Cost, Horizon(M),
         NEW v \in Vertex \ srcMask, label[v] # Inf, label[v] <= M
  PROVE  LET u == SourceForEdge(pred[v]) IN
         /\ pred[v] \in Edge /\ to[pred[v]] = v /\ u \in Vertex
         /\ label[u] # Inf /\ label[u] <= M /\ label[v] = Offer(u, pred[v])
  <1> DEFINE u == SourceForEdge(pred[v])
  <1>1. /\ pred[v] \in Edge /\ to[pred[v]] = v /\ v \in Admit /\ Offer(u, pred[v]) <= label[v]
        /\ label \in [Vertex -> Cost]
    BY DEF Rooted, TypeInv, TypeOK
  <1>2. u \in Vertex /\ pred[v] \in OutEdges(u) /\ Weight(pred[v]) \in Nat
    BY <1>1, SourceIsVertex, DynNat, WeightType, CostEnds DEF Weight
  <1> HIDE DEF u
  <1>3. label[u] <= Offer(u, pred[v]) /\ Offer(u, pred[v]) \in Cost
    BY <1>1, <1>2, SaturateSum DEF Offer
  <1>4. label[u] \in Nat /\ label[v] \in Nat /\ M \in Nat /\ Offer(u, pred[v]) \in Nat /\ Inf \in Nat /\ label[v] <= Inf
    BY <1>1, <1>2, <1>3, CostEnds
  <1>5. label[u] <= M /\ label[u] # Inf
    BY <1>1, <1>3, <1>4
  <1>6. CASE label[u] < M
    <2>1. Settled(u, pred[v])
      BY <1>2, <1>6 DEF Horizon
    <2>2. Relaxable(pred[v], query.sources, Admit)
      BY <1>1 DEF Relaxable, Rooted
    <2>3. label[v] <= Offer(u, pred[v])
      BY <1>1, <2>1, <2>2 DEF Settled
    <2> QED BY <1>1, <1>2, <1>4, <1>5, <2>3 DEF u
  <1>7. CASE ~(label[u] < M)
    BY <1>1, <1>2, <1>3, <1>4, <1>5, <1>7 DEF u
  <1> QED BY <1>6, <1>7

\* So a walk that reaches a source adds up to the label it started from.
LEMMA WalkCost ==
  ASSUME TypeInv, Rooted, NEW M \in Cost, Horizon(M)
  PROVE  \A k \in 0 .. Rows + 1 : \A v \in Vertex :
            label[v] # Inf /\ label[v] <= M /\ Walk[k][v].valid => Walk[k][v].cost = label[v]
  <1> DEFINE Wrong(k, v) == label[v] # Inf /\ label[v] <= M /\ Walk[k][v].valid /\ Walk[k][v].cost # label[v]
  <1> DEFINE S == {k \in 0 .. Rows + 1 : \E v \in Vertex : Wrong(k, v)}
  <1> SUFFICES ASSUME S # {} PROVE FALSE
    OBVIOUS
  <1>1. PICK k \in S : \A j \in S : k <= j
    <2>1. S \in SUBSET Nat
      OBVIOUS
    <2> HIDE DEF S
    <2> QED BY <2>1, LeastNat
  <1>2. PICK v \in Vertex : Wrong(k, v)
    BY <1>1
  <1>3. Walk[k] = Level(k, Walk) /\ k \in 0 .. Rows + 1
    BY <1>1, WalkUnfolds
  <1>4. Walk[k][v] # BadChain
    BY <1>2 DEF BadChain
  <1>5. CASE pred[v] = NoEdge
    <2>1. label[v] = 0 /\ Walk[k][v] = [valid |-> TRUE, root |-> v, edges |-> <<>>, cost |-> 0]
      <3> HIDE DEF S, Wrong
      <3>1. PICK w : w = Walk
        OBVIOUS
      <3>2. w[k] = Level(k, w) /\ w[k][v] # BadChain
        BY <1>3, <1>4, <3>1
      <3>3. label[v] = 0 /\ w[k][v] = [valid |-> TRUE, root |-> v, edges |-> <<>>, cost |-> 0]
        BY <1>5, <3>2 DEF Level
      <3> QED BY <3>1, <3>3
    <2> QED BY <1>2, <2>1
  <1>6. CASE pred[v] # NoEdge
    <2> DEFINE u == SourceForEdge(pred[v])
               up == Walk[k - 1][u]
    <2>1. v \notin srcMask
      BY <1>6 DEF Rooted
    <2>2. u \in Vertex /\ label[u] # Inf /\ label[u] <= M /\ label[v] = Offer(u, pred[v])
      BY <1>2, <2>1, TightBelowHorizon
    <2>3. k # 0 /\ Walk[k][v] = [up EXCEPT !.edges = Append(@, pred[v]),
                                           !.cost = Saturate(@ + EffectiveWeight(pred[v], dyn))]
      BY <1>3, <1>4, <1>6 DEF Level
    <2>4. k - 1 \in 0 .. Rows + 1 /\ k - 1 \notin S
      <3> HIDE DEF S, Wrong, u, up
      <3>1. Rows \in Nat /\ k \in 0 .. Rows + 1 /\ k # 0
        BY <1>3, <2>3, GraphTypes
      <3>2. k - 1 \in 0 .. Rows + 1 /\ ~(k <= k - 1)
        BY <3>1
      <3> QED BY <1>1, <3>2
    <2>5. Summary(up)
      BY <2>2, <2>4, WalkSummaries
    <2>6. up.valid => up.cost = label[u]
      BY <2>2, <2>4
    <2> HIDE DEF up, u
    <2>7. PICK a, b, c, d : up = [valid |-> a, root |-> b, edges |-> c, cost |-> d]
      BY <2>5 DEF Summary
    <2>8. Walk[k][v] = [valid |-> a, root |-> b, edges |-> Append(c, pred[v]),
                        cost |-> Saturate(d + EffectiveWeight(pred[v], dyn))]
      BY <2>3, <2>7
    <2>9. Walk[k][v].valid = a /\ Walk[k][v].cost = Saturate(d + EffectiveWeight(pred[v], dyn))
      BY <2>8
    <2>10. a /\ d = label[u]
      BY <1>2, <2>6, <2>7, <2>9
    <2> QED BY <1>2, <2>2, <2>9, <2>10 DEF Offer, Weight
  <1> QED BY <1>5, <1>6

-----------------------------------------------------------------------------
(* The theorems. *)

\* Cutting the labels off at the horizon gives a feasible potential.
LEMMA HorizonExact ==
  ASSUME TypeInv, Rooted, Above, NEW M \in Cost, Horizon(M), NEW t \in Vertex, label[t] <= M
  PROVE  IsDistance(label[t], t, query.sources, Admit, dyn)
  <1> DEFINE g == [v \in Vertex |-> Min2(label[v], M)]
  <1>0. label \in [Vertex -> Cost] /\ label[t] \in Nat /\ M \in Nat /\ \A v \in Vertex : label[v] \in Nat
    BY CostEnds DEF TypeInv, TypeOK
  <1>1. g \in [Vertex -> Cost] /\ \A v \in Vertex : g[v] \in Cost /\ g[v] \in Nat /\ g[v] <= M /\ g[v] <= label[v]
    BY <1>0, MinOfTwo, CostEnds
  <1>2. \A s \in query.sources : g[s] = 0
    BY <1>0 DEF Rooted, Min2, TypeInv, TypeOK
  <1>3. ASSUME NEW u \in Vertex, NEW e \in OutEdges(u), Relaxable(e, query.sources, Admit)
        PROVE  g[to[e]] <= Saturate(g[u] + EffectiveWeight(e, dyn))
    <2>1. e \in Edge /\ to[e] \in Vertex /\ EffectiveWeight(e, dyn) \in Nat
      BY EdgesOfRow, GraphTypes, DynNat, WeightType, CostEnds
    <2>2. CASE label[u] < M
      <3>1. g[u] = label[u]
        BY <2>2 DEF Min2
      <3>2. label[to[e]] <= Saturate(label[u] + EffectiveWeight(e, dyn))
        BY <1>3, <2>2 DEF Horizon, Settled, Offer, Weight
      <3>3. Saturate(label[u] + EffectiveWeight(e, dyn)) \in Nat
        BY <1>0, <2>1, SaturateSum, CostEnds
      <3>4. g[to[e]] <= label[to[e]] /\ g[to[e]] \in Nat /\ label[to[e]] \in Nat
        BY <1>0, <1>1, <2>1
      <3> HIDE DEF g
      <3> QED BY <3>1, <3>2, <3>3, <3>4
    <2>3. CASE ~(label[u] < M)
      <3>1. g[u] = M
        BY <1>0, <2>3 DEF Min2
      <3>2. M <= Saturate(M + EffectiveWeight(e, dyn)) /\ Saturate(M + EffectiveWeight(e, dyn)) \in Nat
        BY <2>1, SaturateSum, CostEnds
      <3>3. g[to[e]] <= M /\ g[to[e]] \in Nat
        BY <1>1, <2>1
      <3> HIDE DEF g
      <3> QED BY <1>0, <3>1, <3>2, <3>3
    <2> QED BY <2>2, <2>3
  <1>4. g[t] = label[t]
    BY <1>0 DEF Min2
  <1> HIDE DEF g
  <1>5. Feasible(g, query.sources, Admit, dyn)
    BY <1>1, <1>2, <1>3 DEF Feasible
  <1> QED BY <1>1, <1>4, <1>5 DEF IsDistance, Above

AnswerInv == ListsInv /\ TreeInv /\ BoundInv /\ SettleInv

\* Forest, bounds, settlement and the answer that rests on them hold in
\* every reachable state.
LEMMA AnswerInvariant == Spec => []AnswerInv
  <1>1. Init => TreeInv /\ BoundInv /\ SettleInv
    BY DEF Init, TreeInv, BoundInv, SettleInv, Answering
  <1>2. ListsInv /\ ListsInv' /\ TreeInv /\ BoundInv /\ SettleInv /\ [Next]_vars
          => TreeInv' /\ BoundInv' /\ SettleInv'
    BY TreeStep, BoundStep, SettleStep
  <1> QED BY <1>1, <1>2, ListsInvariant, PTL DEF Spec, AnswerInv

\* The best_state words of one query never close a cycle of predecessors,
\* zero-cost edges included, whatever labels threads had read when they wrote.
THEOREM PredecessorsAcyclic == Spec => []NoPredecessorCycle
  <1>1. AnswerInv => NoPredecessorCycle
    BY DEF AnswerInv, TreeInv, Acyclic, NoPredecessorCycle, Answering
  <1> QED BY <1>1, AnswerInvariant, PTL

\* An answer as the invariant describes it is what CertifiedExact promises.
LEMMA AnswersExact == AnswerInv => CertifiedExact
  <1> SUFFICES ASSUME AnswerInv, phase = "done", result.certified, NEW t \in query.targets
               PROVE  /\ IsDistance(result.dist[t], t, query.sources, Admit, dyn)
                      /\ result.dist[t] # Inf => Chain(t).cost = result.dist[t]
    BY DEF CertifiedExact
  <1>1. TypeInv /\ Rooted /\ Above /\ SettleInv
    BY DEF AnswerInv, ListsInv, TreeInv, BoundInv, Answering
  <1>2. result.certified = Certified /\ result.dist[t] = label[t] /\ ChainsValid
    <2>1. /\ result = [certified |-> Certified, dist |-> [x \in query.targets |-> label[x]]]
          /\ ChainsValid
      BY <1>1 DEF SettleInv
    <2> QED BY <2>1
  <1>3. PICK M \in Cost : Horizon(M)
    BY <1>1, <1>2 DEF SettleInv
  <1>4. t \in Vertex /\ label[t] <= M
    <2>1. \A q \in Queries : q.targets \subseteq Vertex
      BY QueryAssumption
    <2> QED BY <1>1, <1>3, <2>1 DEF TypeInv, TypeOK, Horizon
  <1>5. IsDistance(label[t], t, query.sources, Admit, dyn)
    BY <1>1, <1>3, <1>4, HorizonExact
  <1>6. label[t] # Inf => Chain(t).cost = label[t]
    <2>1. Rows + 1 \in 0 .. Rows + 1
      BY GraphTypes
    <2>2. label[t] # Inf => Walk[Rows + 1][t].valid
      BY <1>2 DEF ChainsValid, Chain
    <2> QED BY <1>1, <1>3, <1>4, <2>1, <2>2, WalkCost DEF Chain
  <1> QED BY <1>2, <1>5, <1>6

\* A certificate, by convergence or by the target check, means exact distances
\* and paths that cost what the distances say.
THEOREM CertificatesExact == Spec => []CertifiedExact
  BY AnswersExact, AnswerInvariant, PTL

-----------------------------------------------------------------------------
(* The oracle's distances are the workspace's: both come from CsrGraph. *)

LEMMA SameNodes == Oracle!Vertex = Vertex /\ Oracle!Cost = Cost
  BY DEF Oracle!Vertex, Vertex, Oracle!Cost, Cost, Oracle!Inf, Inf

\* The oracle and the workspace mean the same by a feasible potential.
LEMMA SameBounds ==
  \A d, t, S, A, c : Oracle!BoundsDistance(d, t, S, A, c) <=> BoundsDistance(d, t, S, A, c)
  BY DEF Oracle!BoundsDistance, BoundsDistance, Oracle!Feasible, Feasible, Oracle!Relaxable, Relaxable,
         Oracle!OutEdges, OutEdges, Oracle!EffectiveWeight, EffectiveWeight, Oracle!Saturate, Saturate,
         Oracle!Vertex, Vertex, Oracle!Cost, Cost, Oracle!Inf, Inf

\* The oracle and the workspace mean the same by a distance.
LEMMA SameDistance ==
  \A d, t, S, A, c : Oracle!IsDistance(d, t, S, A, c) <=> IsDistance(d, t, S, A, c)
  BY DEF Oracle!IsDistance, IsDistance,
         Oracle!BoundsDistance, BoundsDistance, Oracle!Feasible, Feasible, Oracle!Relaxable, Relaxable,
         Oracle!OutEdges, OutEdges, Oracle!EffectiveWeight, EffectiveWeight, Oracle!Saturate, Saturate,
         Oracle!Vertex, Vertex, Oracle!Cost, Cost, Oracle!Inf, Inf

-----------------------------------------------------------------------------
(* The answer. *)

\* Only a query that asked for it is repeated without bounds.
RetryInv == retried => query \in Fallback

\* Every step keeps the account of the queries that run again unbounded.
LEMMA RetryStep == RetryInv /\ [Next]_vars => RetryInv'
  <1> SUFFICES ASSUME RetryInv, [Next]_vars PROVE RetryInv'
    OBVIOUS
  <1>1. CASE Begin
    BY <1>1 DEF Begin, RetryInv
  <1>2. CASE RunUnbounded
    BY <1>2 DEF RunUnbounded, MissedInBounds, RetryInv
  <1>3. CASE UNCHANGED <<query, retried>>
    BY <1>3 DEF RetryInv
  <1>4. CASE UpdateCosts \/ DenseReset \/ Arm \/ ResetAndSeed \/ StartRound \/ NoRounds \/ Decide \/ Reply
             \/ Return \/ Abort \/ UNCHANGED vars
    BY <1>3, <1>4 DEF UpdateCosts, DenseReset, Arm, ResetAndSeed, StartRound, NoRounds, Decide, Reply, Return,
                      Abort, vars, host, asked
  <1>5. ASSUME NEW u \in Vertex, Kernel(u) PROVE UNCHANGED <<query, retried>>
    BY <1>5 DEF Kernel, LoadLabel, SkipEdge, RelaxEdge, PublishTouched, Enqueue, FinishThread, host, asked
  <1> QED BY <1>1, <1>2, <1>3, <1>4, <1>5 DEF Next, Work

\* An answer that is not about to be retried is one a sound engine may give.
ReplyInv == phase = "done" /\ ~MissedInBounds => result \in Oracle!SoundReplies(query, dyn)

\* An exact answer to a query and to its retry is a reply the oracle allows.
LEMMA RepliesSound == AnswerInv /\ RetryInv => ReplyInv
  <1> SUFFICES ASSUME AnswerInv, RetryInv, phase = "done", ~MissedInBounds
               PROVE  result \in Oracle!SoundReplies(query, dyn)
    BY DEF ReplyInv
  <1>1. TypeInv /\ Above /\ SettleInv /\ CertifiedExact
    BY AnswersExact DEF AnswerInv, ListsInv, BoundInv, Answering
  <1>2. result = [certified |-> Certified, dist |-> [t \in query.targets |-> label[t]]]
    BY <1>1 DEF SettleInv
  <1>3. query \in Queries /\ query.targets \subseteq Vertex /\ label \in [Vertex -> Cost]
    <2>1. \A q \in Queries : q.targets \subseteq Vertex
      BY QueryAssumption
    <2> QED BY <1>1, <2>1 DEF TypeInv, TypeOK
  <1>4. result \in [certified : BOOLEAN, dist : [query.targets -> Oracle!Cost]]
    BY <1>2, <1>3, SameNodes DEF Certified
  <1>5. Oracle!SoundWithin(Admit, result, query, dyn)
    <2> SUFFICES ASSUME NEW t \in query.targets
                 PROVE  IF result.certified
                        THEN IsDistance(result.dist[t], t, query.sources, Admit, dyn)
                        ELSE BoundsDistance(result.dist[t], t, query.sources, Admit, dyn)
      BY SameBounds, SameDistance DEF Oracle!SoundWithin
    <2>1. result.dist[t] = label[t] /\ t \in Vertex
      BY <1>2, <1>3
    <2>2. BoundsDistance(label[t], t, query.sources, Admit, dyn)
      BY <1>1, <2>1 DEF Above
    <2> QED BY <1>1, <2>1, <2>2 DEF CertifiedExact
  <1>6. CASE retried
    <2>1. query \in Fallback /\ Admit = Oracle!Vertex
      BY <1>6, SameNodes DEF RetryInv, Admit
    <2> QED BY <1>4, <1>5, <2>1 DEF Oracle!SoundReplies
  <1>7. CASE ~retried
    <2>1. Admit = query.admit /\ (query \in Fallback => \A t \in query.targets : result.dist[t] # Oracle!Inf)
      BY <1>7 DEF Admit, MissedInBounds, Oracle!Inf, Inf
    <2> QED BY <1>4, <1>5, <2>1 DEF Oracle!SoundReplies
  <1> QED BY <1>6, <1>7

-----------------------------------------------------------------------------
(* Every step is a step of the oracle or is invisible to the caller. *)

ContractInv == AnswerInv /\ RetryInv /\ ReplyInv

\* The refinement's invariant holds in every reachable state.
LEMMA ContractInvariant == Spec => []ContractInv
  <1>1. Init => RetryInv
    BY DEF Init, RetryInv
  <1> QED BY <1>1, RetryStep, RepliesSound, AnswerInvariant, PTL DEF Spec, ContractInv

\* A fresh workspace maps to an idle oracle.
LEMMA OracleInit == Init => Oracle!Init
  BY SameNodes DEF Init, Oracle!Init, ServedCall, ReadyReply

\* Every step of a workspace maps to a step of the oracle or to a stutter.
LEMMA OracleStep == ContractInv /\ ContractInv' /\ [Next]_vars => [Oracle!Next]_Oracle!oracleVars
  <1> SUFFICES ASSUME ContractInv, ContractInv', [Next]_vars
               PROVE  Oracle!Next \/ UNCHANGED <<dyn, ServedCall, ReadyReply>>
    BY DEF Oracle!oracleVars
  <1>0. /\ query \in Queries /\ query' \in Queries /\ query # NoCall /\ query' # NoCall
        /\ phase = "done" /\ ~MissedInBounds => result # NoReply
    <2>1. query \in Queries /\ query' \in Queries
      BY DEF ContractInv, AnswerInv, ListsInv, TypeInv, TypeOK
    <2>2. phase = "done" /\ ~MissedInBounds => result \in [certified : BOOLEAN, dist : [query.targets -> Cost]]
      BY SameNodes DEF ContractInv, ReplyInv, Oracle!SoundReplies
    <2> QED BY <2>1, <2>2, MarkerAssumption
  <1>1. CASE UpdateCosts
    <2>1. /\ dyn' \in [Vertex -> Costs] /\ phase = "idle" /\ phase' = "idle"
      BY <1>1 DEF UpdateCosts, host
    <2>2. Oracle!SetCosts
      BY <2>1, SameNodes DEF Oracle!SetCosts, ServedCall, ReadyReply
    <2> QED BY <2>2 DEF Oracle!Next
  <1>2. CASE Begin
    <2>1. Oracle!Ask
      BY <1>0, <1>2 DEF Begin, Oracle!Ask, ServedCall, ReadyReply
    <2> QED BY <2>1 DEF Oracle!Next
  \* A step inside a call.
  <1>a. ASSUME phase \notin {"idle", "done"}, phase' \notin {"idle", "done"}, UNCHANGED <<dyn, query>>
        PROVE  UNCHANGED <<dyn, ServedCall, ReadyReply>>
    BY <1>a DEF ServedCall, ReadyReply
  \* A call that throws.
  <1>b. ASSUME phase \notin {"idle", "done"}, phase' = "idle", UNCHANGED dyn
        PROVE  Oracle!Next
    <2>1. Oracle!Fail
      BY <1>0, <1>b DEF Oracle!Fail, ServedCall, ReadyReply
    <2> QED BY <2>1 DEF Oracle!Next
  <1>3. CASE DenseReset \/ Arm \/ ResetAndSeed \/ StartRound \/ NoRounds
    BY <1>3, <1>a DEF DenseReset, Arm, ResetAndSeed, StartRound, NoRounds, asked
  <1>4. ASSUME NEW u \in Vertex, Kernel(u)
        PROVE  UNCHANGED <<dyn, ServedCall, ReadyReply>>
    <2>1. phase = "round" /\ phase' = "round" /\ UNCHANGED <<dyn, query>>
      BY <1>4, KernelFrame DEF ContractInv, AnswerInv, ListsInv
    <2> QED BY <2>1, <1>a
  <1>5. CASE Decide
    <2>1. phase = "round" /\ phase' \in {"idle", "loop", "stopped"} /\ UNCHANGED <<dyn, query>>
      BY <1>5 DEF Decide, asked
    <2> QED BY <2>1, <1>a, <1>b
  <1>6. CASE Reply
    <2>1. phase = "stopped" /\ phase' \in {"idle", "done"} /\ UNCHANGED <<dyn, query, retried>>
      BY <1>6 DEF Reply, asked
    <2>2. CASE phase' = "done" /\ ~MissedInBounds'
      <3>1. result' \in Oracle!SoundReplies(query, dyn)
        BY <2>1, <2>2 DEF ContractInv, ReplyInv
      <3>2. Oracle!Answer
        BY <1>0, <2>1, <2>2, <3>1 DEF Oracle!Answer, ServedCall, ReadyReply
      <3> QED BY <3>2 DEF Oracle!Next
    <2>3. CASE phase' = "done" /\ MissedInBounds'
      BY <2>1, <2>3 DEF ServedCall, ReadyReply
    <2> QED BY <2>1, <2>2, <2>3, <1>b
  <1>7. CASE RunUnbounded
    BY <1>7 DEF RunUnbounded, ServedCall, ReadyReply
  <1>8. CASE Return
    <2>1. Oracle!Return
      BY <1>0, <1>8 DEF Return, Oracle!Return, ServedCall, ReadyReply
    <2> QED BY <2>1 DEF Oracle!Next
  <1>9. CASE Abort
    BY <1>9, <1>b DEF Abort
  <1>10. CASE UNCHANGED vars
    <2>1. UNCHANGED <<dyn, phase, query, retried, result>>
      BY <1>10 DEF vars, host, asked
    <2>2. MissedInBounds' <=> MissedInBounds
      BY <2>1 DEF MissedInBounds
    <2> QED BY <2>1, <2>2 DEF ServedCall, ReadyReply
  <1> QED BY <1>1, <1>2, <1>3, <1>4, <1>5, <1>6, <1>7, <1>8, <1>9, <1>10 DEF Next, Work

\* A BF11 workspace implements the oracle PathFinder calls: whatever the
\* threads, aborts, cost epochs and unbounded retries, the caller sees calls
\* that throw, exact distances under a certificate and upper bounds otherwise.
THEOREM WorkspaceIsOracle == Spec => ImplementsOracle
  <1>1. Spec => [][Oracle!Next]_Oracle!oracleVars
    BY OracleStep, ContractInvariant, PTL DEF Spec
  <1> QED BY <1>1, OracleInit, PTL DEF Spec, ImplementsOracle, Oracle!OracleSpec

-----------------------------------------------------------------------------
(* The default budget.  Each round an improvement travels passes one more    *)
(* node with a smaller label, so an improvement of round k lies above at     *)
(* least k + 1 labels: after Rows - 1 rounds, above all of them.             *)

\* How many nodes have a label of at most d.
Below(f, d) == Cardinality({x \in Vertex : f[x] <= d})

RoundCounts ==
    /\ \A u \in Vertex : pc[u] = "load" => Below(label, label[u]) >= iter + 1
    /\ \A u \in Vertex : pc[u] \in Working =>
          /\ Below(label, from[u]) >= iter + 1
          /\ low[u] # Inf => Below(label, low[u]) >= iter + 2
    /\ \A u \in Vertex : pc[u] \in {"publish", "enqueue"} => Below(label, Candidate(u)) >= iter + 2
    /\ \A v \in Vertex : Pending(v) => label[v] # Inf /\ Below(label, label[v]) >= iter + 2
    /\ minNext # Inf => Below(label, minNext) >= iter + 2

CountInv ==
    /\ phase = "loop" => \A v \in frontier : Below(label, label[v]) >= iter + 1
    /\ phase = "round" => RoundCounts

BudgetInv ==
    query.maxIters < 0 => /\ phase = "loop" /\ iter # 0 => iter < Budget
                          /\ phase \in {"stopped", "done"} => Certified

\* Counts grow as labels fall, and by one when a node's label falls past them.
LEMMA BelowGrows ==
  ASSUME NEW f \in [Vertex -> Cost], NEW g \in [Vertex -> Cost], \A x \in Vertex : g[x] <= f[x],
         NEW c \in Nat, NEW d \in Nat, c <= d
  PROVE  Below(f, c) \in Nat /\ Below(g, d) \in Nat /\ Below(f, c) <= Below(g, d)
  <1> DEFINE F == {x \in Vertex : f[x] <= c}
             G == {x \in Vertex : g[x] <= d}
  <1>1. F \subseteq G
    BY CostEnds
  <1>2. F \in SUBSET Vertex /\ G \in SUBSET Vertex
    OBVIOUS
  <1> HIDE DEF F, G
  <1>3. IsFiniteSet(G) /\ Cardinality(F) \in Nat /\ Cardinality(G) \in Nat
    BY <1>2, FiniteNodes
  <1>4. Cardinality(F) <= Cardinality(G)
    BY <1>1, <1>3, FS_Subset
  <1> QED BY <1>3, <1>4 DEF F, G, Below

\* Lowering a label to c adds its node to those labelled at most c, and so
\* to what was counted at a smaller bound.
LEMMA BelowRelax ==
  ASSUME NEW f \in [Vertex -> Cost], NEW v \in Vertex, NEW b \in Nat, NEW c \in Cost, b <= c, c < f[v]
  PROVE  Below([f EXCEPT ![v] = c], c) >= Below(f, b) + 1
  <1> DEFINE F == {x \in Vertex : f[x] <= b}
             G == {x \in Vertex : [f EXCEPT ![v] = c][x] <= c}
  <1>0. c \in Nat /\ \A x \in Vertex : f[x] \in Nat
    BY CostEnds
  <1>1. F \cup {v} \subseteq G /\ v \notin F
    BY <1>0
  <1>2. F \in SUBSET Vertex /\ G \in SUBSET Vertex /\ v \in Vertex \ F
    BY <1>1
  <1> HIDE DEF F, G
  <1>3. Cardinality(F \cup {v}) = Cardinality(F) + 1
    BY <1>2, FiniteNodes
  <1>4. IsFiniteSet(G) /\ Cardinality(F) \in Nat /\ Cardinality(G) \in Nat
    BY <1>2, FiniteNodes
  <1>5. Cardinality(F \cup {v}) <= Cardinality(G)
    BY <1>1, <1>4, FS_Subset
  <1> QED BY <1>3, <1>4, <1>5 DEF F, G, Below

\* A node becomes pending only by a relaxation that lowers its label.
LEMMA PendingComes ==
  ASSUME ListsInv, ListsInv', NEW u \in Vertex, Kernel(u), NEW y \in Vertex, Pending(y)'
  PROVE  Pending(y) \/ (RelaxEdge(u) /\ y = to[epos[u]])
  <1>0. TypeInv /\ phase = "round" /\ pc \in [Vertex -> {"off", "load", "edge", "publish", "enqueue"}]
    BY DEF ListsInv, Kernel, TypeInv, TypeOK
  <1>1. \A x \in Vertex : x # u => (Held(x, y)' <=> Held(x, y))
    BY <1>0, OtherThreads DEF Held
  <1>2. CASE LoadLabel(u) \/ SkipEdge(u) \/ FinishThread(u)
    <2>1. next' = next /\ ~Held(u, y)'
      BY <1>0, <1>2 DEF LoadLabel, SkipEdge, FinishThread, Held, round
    <2> QED BY <1>1, <2>1 DEF Pending
  <1>3. CASE RelaxEdge(u)
    <2>1. next' = next /\ epos' = epos
      BY <1>3 DEF RelaxEdge, round
    <2> QED BY <1>1, <1>3, <2>1 DEF Pending, Held
  <1>4. CASE PublishTouched(u)
    <2>1. next' = next /\ epos' = epos /\ pc[u] = "publish"
      BY <1>4, PublishFacts
    <2> QED BY <1>1, <2>1 DEF Pending, Held
  <1>5. CASE Enqueue(u)
    <2>1. next' = next \cup {to[epos[u]]} /\ pc'[u] = "edge" /\ pc[u] = "enqueue"
      BY <1>0, <1>5, EnqueueFacts
    <2> QED BY <1>1, <2>1 DEF Pending, Held
  <1> QED BY <1>2, <1>3, <1>4, <1>5 DEF Kernel

\* No step of a relaxing thread breaks the round's counts: a candidate lies
\* above the label it was made from, so one more label lies below it.
LEMMA CountKernel ==
  ASSUME ListsInv, ListsInv', RoundCounts, NEW u \in Vertex, Kernel(u)
  PROVE  RoundCounts'
  <1>0. /\ TypeInv /\ phase = "round" /\ UNCHANGED <<dyn, iter>> /\ iter \in Nat
        /\ label \in [Vertex -> Cost] /\ low \in [Vertex -> Cost] /\ minNext \in Cost
        /\ from \in [Vertex -> Cost] /\ epos \in [Vertex -> 0 .. Nnz]
        /\ pc \in [Vertex -> {"off", "load", "edge", "publish", "enqueue"}]
        /\ label' \in [Vertex -> Cost] /\ \A x \in Vertex : label'[x] <= label[x]
    <2>1. TypeInv /\ iter' = iter
      BY DEF ListsInv, Kernel, LoadLabel, SkipEdge, RelaxEdge, PublishTouched, Enqueue, FinishThread, host
    <2>2. label' \in [Vertex -> Cost]
      BY DEF ListsInv, TypeInv, TypeOK
    <2> QED BY <2>1, <2>2, KernelFrame DEF TypeInv, TypeOK
  <1>g. ASSUME NEW c \in Nat
        PROVE  Below(label, c) \in Nat /\ Below(label', c) \in Nat /\ Below(label, c) <= Below(label', c)
    BY <1>0, BelowGrows
  <1>c. \A c \in Cost : c \in Nat
    BY CostEnds
  <1>k. ASSUME NEW x \in Vertex, pc[x] \in {"publish", "enqueue"}
        PROVE  Candidate(x) \in Nat
    <2>1. pc[x] \in Working /\ epos[x] < rowptr[x + 1]
      BY <1>0, <1>k DEF Working, TypeInv, CursorOK
    <2> QED BY <1>0, <1>c, <2>1, CursorEdge
  <1>r. ASSUME RelaxEdge(u)
        PROVE  /\ Candidate(u) \in Cost /\ Candidate(u) # Inf /\ Below(label', Candidate(u)) >= iter + 2
               /\ label' = [label EXCEPT ![to[epos[u]]] = Candidate(u)] /\ to[epos[u]] \in Vertex
               /\ UNCHANGED <<from, low, epos, minNext>> /\ pc[u] = "edge"
    <2>1. /\ to[epos[u]] \in Vertex /\ from[u] \in Nat /\ Candidate(u) \in Cost /\ from[u] <= Candidate(u)
          /\ Candidate(u) < label[to[epos[u]]] /\ label' = [label EXCEPT ![to[epos[u]]] = Candidate(u)]
          /\ UNCHANGED <<from, low, epos, minNext>> /\ pc[u] = "edge"
      BY <1>0, <1>c, <1>r, RelaxFacts
    <2>2. Below(label', Candidate(u)) >= Below(label, from[u]) + 1
      BY <1>0, <2>1, BelowRelax
    <2>3. Below(label, from[u]) >= iter + 1
      BY <2>1 DEF RoundCounts, Working
    <2>4. Below(label', Candidate(u)) \in Nat /\ Below(label, from[u]) \in Nat
      BY <1>c, <1>g, <2>1
    <2>5. Candidate(u) # Inf
      BY <1>0, <2>1, CostEnds
    <2> QED BY <1>0, <2>1, <2>2, <2>3, <2>4, <2>5
  <1>l. ASSUME NEW y \in Vertex, label'[y] # label[y]
        PROVE  RelaxEdge(u) /\ label'[y] = Candidate(u)
    <2>1. RelaxEdge(u)
      BY <1>l DEF Kernel, LoadLabel, SkipEdge, PublishTouched, Enqueue, FinishThread, device
    <2> QED BY <1>0, <1>l, <1>r, <2>1
  <1>1. ASSUME NEW x \in Vertex, pc'[x] = "load"
        PROVE  Below(label', label'[x]) >= iter + 1
    <2>1. pc[x] = "load"
      <3>1. CASE x = u
        BY <1>0, <1>1, <3>1 DEF Kernel, LoadLabel, SkipEdge, RelaxEdge, AfterRelax, PublishTouched, Enqueue, FinishThread
      <3>2. CASE x # u
        BY <1>0, <1>1, <3>2, OtherThreads
      <3> QED BY <3>1, <3>2
    <2>2. CASE label'[x] = label[x]
      BY <1>0, <1>c, <1>g, <2>1, <2>2 DEF RoundCounts
    <2>3. CASE label'[x] # label[x]
      BY <1>0, <1>l, <1>r, <2>3, <1>c, <1>g
    <2> QED BY <2>2, <2>3
  <1>2. ASSUME NEW y \in Vertex, Pending(y)'
        PROVE  label'[y] # Inf /\ Below(label', label'[y]) >= iter + 2
    <2>1. CASE RelaxEdge(u) /\ y = to[epos[u]]
      BY <1>0, <1>r, <2>1
    <2>2. CASE Pending(y) /\ label'[y] = label[y]
      BY <1>0, <1>c, <1>g, <2>2 DEF RoundCounts
    <2>3. CASE label'[y] # label[y]
      BY <1>l, <1>r, <2>3
    <2> QED BY <1>2, <2>1, <2>2, <2>3, PendingComes
  \* What is true of a thread that the step leaves where it was.
  <1>s. ASSUME NEW x \in Vertex, from'[x] = from[x], low'[x] = low[x], epos'[x] = epos[x],
               pc[x] \in Working, pc[x] = "edge" => pc'[x] = "edge"
        PROVE  /\ Below(label', from'[x]) >= iter + 1
               /\ low'[x] # Inf => Below(label', low'[x]) >= iter + 2
               /\ pc'[x] \in {"publish", "enqueue"} => Below(label', Candidate(x)') >= iter + 2
    <2>1. from[x] \in Nat /\ low[x] \in Nat
      BY <1>0, <1>c
    <2>2. Below(label', from'[x]) >= iter + 1
      BY <1>0, <1>g, <1>s, <2>1 DEF RoundCounts
    <2>3. low'[x] # Inf => Below(label', low'[x]) >= iter + 2
      BY <1>0, <1>g, <1>s, <2>1 DEF RoundCounts
    <2>4. CASE pc[x] \in {"publish", "enqueue"}
      <3>1. Candidate(x)' = Candidate(x)
        BY <1>0, <1>s DEF Candidate
      <3> QED BY <1>0, <1>g, <1>k, <2>2, <2>3, <2>4, <3>1 DEF RoundCounts
    <2>5. CASE pc[x] = "edge"
      BY <1>s, <2>2, <2>3, <2>5
    <2> QED BY <1>s, <2>4, <2>5 DEF Working
  <1>3. ASSUME NEW x \in Vertex, pc'[x] \in Working
        PROVE  /\ Below(label', from'[x]) >= iter + 1
               /\ low'[x] # Inf => Below(label', low'[x]) >= iter + 2
               /\ pc'[x] \in {"publish", "enqueue"} => Below(label', Candidate(x)') >= iter + 2
    <2>1. CASE x # u
      BY <1>0, <1>3, <1>s, <2>1, OtherThreads
    <2>2. CASE x = u
      <3>1. CASE LoadLabel(u)
        <4>1. /\ pc[u] = "load" /\ from'[u] = label[u] /\ low'[u] = Inf /\ label' = label
              /\ pc'[u] \notin {"publish", "enqueue"}
          BY <1>0, <3>1 DEF LoadLabel, device
        <4> QED BY <2>2, <4>1 DEF RoundCounts
      <3>2. CASE SkipEdge(u)
        <4>1. pc'[u] = "edge" /\ pc[u] = "edge" /\ from'[u] = from[u] /\ low'[u] = low[u]
          BY <3>2 DEF SkipEdge
        <4>2. from[u] \in Nat /\ low[u] \in Nat
          BY <1>0, <1>c
        <4> QED BY <1>0, <1>g, <2>2, <4>1, <4>2 DEF RoundCounts, Working
      <3>3. CASE RelaxEdge(u)
        <4>1. Candidate(u)' = Candidate(u) /\ from[u] \in Nat /\ low[u] \in Nat
          BY <1>0, <1>c, <1>r, <3>3 DEF Candidate
        <4> QED BY <1>0, <1>g, <1>r, <2>2, <3>3, <4>1 DEF RoundCounts, Working
      <3>4. CASE PublishTouched(u)
        BY <1>0, <1>s, <2>2, <3>4, PublishFacts DEF Working
      <3>5. CASE Enqueue(u)
        <4>1. /\ pc[u] = "enqueue" /\ pc'[u] = "edge" /\ from'[u] = from[u]
              /\ low'[u] = Min2(low[u], Candidate(u))
          BY <1>0, <3>5, EnqueueFacts
        <4>2. from[u] \in Nat /\ low[u] \in Nat /\ Candidate(u) \in Nat
          BY <1>0, <1>c, <1>k, <4>1
        <4>3. /\ Below(label, from[u]) >= iter + 1 /\ Below(label, Candidate(u)) >= iter + 2
              /\ low[u] # Inf => Below(label, low[u]) >= iter + 2
          BY <4>1 DEF RoundCounts, Working
        <4>4. low'[u] = low[u] \/ low'[u] = Candidate(u)
          BY <4>1 DEF Min2
        <4> QED BY <1>0, <1>g, <2>2, <4>1, <4>2, <4>3, <4>4
      <3>6. CASE FinishThread(u)
        BY <1>0, <1>3, <2>2, <3>6 DEF FinishThread, Working
      <3> QED BY <3>1, <3>2, <3>3, <3>4, <3>5, <3>6 DEF Kernel
    <2> QED BY <2>1, <2>2
  <1>4. ASSUME minNext' # Inf
        PROVE  Below(label', minNext') >= iter + 2
    <2>1. CASE minNext' = minNext
      BY <1>0, <1>c, <1>g, <1>4, <2>1 DEF RoundCounts
    <2>2. CASE FinishThread(u)
      <3>1. pc[u] \in Working /\ (minNext' = minNext \/ minNext' = low[u])
        BY <2>2 DEF FinishThread, Min2, Working
      <3>2. low[u] \in Nat
        BY <1>0, <1>c
      <3> QED BY <1>0, <1>4, <1>g, <2>1, <3>1, <3>2 DEF RoundCounts
    <2>3. CASE ~FinishThread(u)
      <3>1. minNext' = minNext
        BY <2>3 DEF Kernel, LoadLabel, SkipEdge, RelaxEdge, PublishTouched, Enqueue, round
      <3> QED BY <2>1, <3>1
    <2> QED BY <2>2, <2>3
  <1> QED BY <1>0, <1>1, <1>2, <1>3, <1>4 DEF RoundCounts, Working

\* When a round is over the nodes it queued, and their minimum, are further up.
LEMMA CountDecide ==
  ASSUME ListsInv, SettleInv, CountInv, Decide
  PROVE  /\ \A v \in next : Below(label, label[v]) >= iter + 2
         /\ next # {} => Below(label, minNext) >= iter + 2 /\ minNext # Inf
  <1>0. phase = "round" /\ (\A u \in Vertex : pc[u] = "off") /\ RoundCounts /\ Minimum /\ next \subseteq Vertex
        /\ label \in [Vertex -> Cost] /\ minNext \in Cost
    BY DEF Decide, SettleInv, CountInv, ListsInv, TypeInv, TypeOK
  <1>1. ASSUME NEW v \in next
        PROVE  label[v] # Inf /\ Below(label, label[v]) >= iter + 2 /\ minNext <= label[v]
    BY <1>0, <1>1 DEF RoundCounts, Minimum, Covered, Pending, Working
  <1>2. ASSUME next # {} PROVE minNext # Inf
    <2>1. PICK v \in next : TRUE
      BY <1>2
    <2> QED BY <1>0, <1>1, CostEnds
  <1> QED BY <1>0, <1>1, <1>2 DEF RoundCounts

\* Every step keeps the counts: what round k improves lies above k + 1 labels.
LEMMA CountStep == ListsInv /\ ListsInv' /\ SettleInv /\ CountInv /\ [Next]_vars => CountInv'
  <1> SUFFICES ASSUME ListsInv, ListsInv', SettleInv, CountInv, [Next]_vars
               PROVE  CountInv'
    OBVIOUS
  <1>0. iter \in Nat /\ label \in [Vertex -> Cost] /\ frontier \subseteq Vertex /\ TypeInv
    BY DEF ListsInv, TypeInv, TypeOK
  <1>1. CASE UpdateCosts \/ Begin \/ DenseReset \/ Arm \/ RunUnbounded \/ Return \/ Abort \/ NoRounds \/ Reply
    <2>1. phase' \notin {"loop", "round"}
      BY <1>1 DEF UpdateCosts, Begin, DenseReset, Arm, RunUnbounded, Return, Abort, NoRounds, Reply, host
    <2> QED BY <2>1 DEF CountInv
  <1>2. CASE ResetAndSeed
    <2>1. /\ phase' = "loop" /\ frontier' = query.sources /\ iter' = 0 /\ query.sources \subseteq Vertex
          /\ label' = [v \in Vertex |-> IF v \in query.sources THEN 0 ELSE Inf]
      BY <1>2, SeedFacts DEF ResetAndSeed, ListsInv, PhaseInv
    <2>2. ASSUME NEW v \in query.sources
          PROVE  Below(label', label'[v]) >= 1
      <3> DEFINE G == {x \in Vertex : label'[x] <= label'[v]}
      <3>1. v \in Vertex /\ label'[v] = 0
        BY <2>1
      <3>2. {v} \subseteq G /\ G \in SUBSET Vertex /\ {} \in SUBSET Vertex /\ v \in Vertex \ {}
        BY <3>1
      <3> HIDE DEF G
      <3>3. Cardinality({} \cup {v}) = Cardinality({}) + 1 /\ Cardinality({}) = 0 /\ {} \cup {v} = {v}
        BY <3>2, FiniteNodes, FS_EmptySet
      <3>4. IsFiniteSet(G) /\ Cardinality({v}) <= Cardinality(G)
        BY <3>2, FiniteNodes, FS_Subset
      <3> QED BY <3>3, <3>4 DEF G, Below
    <2> QED BY <2>1, <2>2 DEF CountInv
  <1>3. CASE StartRound
    <2>1. /\ phase = "loop" /\ phase' = "round" /\ next' = {} /\ minNext' = Inf
          /\ pc' = [v \in Vertex |-> IF v \in frontier THEN "load" ELSE "off"]
          /\ UNCHANGED <<iter, label>>
      BY <1>3 DEF StartRound, device
    <2>2. RoundCounts'
      BY <2>1 DEF CountInv, RoundCounts, Pending, Held, Working
    <2> QED BY <2>1, <2>2 DEF CountInv
  <1>4. ASSUME NEW u \in Vertex, Kernel(u) PROVE CountInv'
    <2>1. phase = "round" /\ phase' = "round"
      BY <1>0, <1>4, KernelFrame
    <2>2. RoundCounts'
      BY <1>4, <2>1, CountKernel DEF CountInv
    <2> QED BY <2>1, <2>2 DEF CountInv
  <1>5. CASE Decide
    <2>1. iter' = iter + 1 /\ label' = label /\ phase' # "round" /\ (phase' = "loop" => frontier' = next)
      BY <1>5 DEF Decide, device
    <2> QED BY <1>0, <1>5, <2>1, CountDecide DEF CountInv
  <1>6. CASE UNCHANGED vars
    <2>1. UNCHANGED <<dyn, label, phase, iter, frontier, next, minNext, pc, epos, from, low>>
      BY <1>6 DEF vars, device, host, round, threads
    <2>2. RoundCounts' <=> RoundCounts
      BY <2>1 DEF RoundCounts, Pending, Held, Candidate
    <2> QED BY <2>1, <2>2 DEF CountInv
  <1> QED BY <1>1, <1>2, <1>3, <1>4, <1>5, <1>6 DEF Next, Work

EveryRoundChecked == \A r \in Queries : r.maxIters < 0 => r.interval = 1

\* The round that uses up the default budget finds every label final.
LEMMA LastRoundFinal ==
  ASSUME ListsInv, SettleInv, CountInv, Decide, query.maxIters < 0, query.interval = 1, iter + 1 >= Budget
  PROVE  StopReason \in {"converged", "target"}
  <1>0. /\ iter \in Nat /\ label \in [Vertex -> Cost] /\ minNext \in Cost /\ next \subseteq Vertex
        /\ nextCount = Cardinality(next) /\ query.targets \subseteq Vertex
    <2>1. \A q \in Queries : q.targets \subseteq Vertex
      BY QueryAssumption
    <2> QED BY <2>1 DEF Decide, ListsInv, MarkInv, TypeInv, TypeOK
  <1> SUFFICES ASSUME nextCount # 0 PROVE StopReason = "target"
    BY DEF StopReason
  <1>1. next # {}
    BY <1>0, FS_EmptySet
  <1>2. Below(label, minNext) >= iter + 2 /\ minNext # Inf
    BY <1>1, CountDecide
  <1> DEFINE G == {x \in Vertex : label[x] <= minNext}
  <1>3. G \in SUBSET Vertex /\ Cardinality(G) = Below(label, minNext)
    BY DEF Below
  <1>4. G = Vertex
    <2>1. Cardinality(G) \in Nat /\ Cardinality(G) <= Rows /\ IsFiniteSet(Vertex) /\ Cardinality(Vertex) = Rows
      <3> HIDE DEF G
      <3> QED BY <1>3, FiniteNodes
    <2>2. Rows - 1 <= iter + 1
      BY <1>0 DEF Budget
    <2>3. Cardinality(G) = Cardinality(Vertex)
      BY <1>0, <1>2, <1>3, <2>1, <2>2, GraphTypes
    <2> HIDE DEF G
    <2> QED BY <1>3, <2>1, <2>3, FS_Subset
  <1>5. \A x \in Vertex : label[x] <= minNext /\ label[x] # Inf
    BY <1>0, <1>2, <1>4, CostEnds
  <1>6. TargetsReached /\ LabelsFinal
    BY <1>0, <1>5 DEF TargetsReached, LabelsFinal
  <1>7. CheckDue
    BY <1>0 DEF CheckDue
  <1> QED BY <1>6, <1>7 DEF StopReason

\* When default-budget queries check every round, a step that uses the last
\* round finds the answer certified.
LEMMA BudgetStep ==
  ASSUME EveryRoundChecked
  PROVE  ListsInv /\ TreeInv /\ SettleInv /\ CountInv /\ BudgetInv /\ [Next]_vars => BudgetInv'
  <1> SUFFICES ASSUME ListsInv, TreeInv, SettleInv, CountInv, BudgetInv, [Next]_vars, query'.maxIters < 0
               PROVE  /\ phase' = "loop" /\ iter' # 0 => iter' < Budget'
                      /\ phase' \in {"stopped", "done"} => Certified'
    BY DEF BudgetInv
  <1>0. iter \in Nat /\ query \in Queries
    BY DEF ListsInv, TypeInv, TypeOK
  <1>1. CASE UpdateCosts \/ Begin \/ DenseReset \/ Arm \/ RunUnbounded \/ Return \/ Abort \/ StartRound
    <2>1. phase' \notin {"loop", "stopped", "done"}
      BY <1>1 DEF UpdateCosts, Begin, DenseReset, Arm, RunUnbounded, Return, Abort, StartRound, host
    <2> QED BY <2>1
  <1>2. CASE ResetAndSeed
    BY <1>2 DEF ResetAndSeed, ListsInv, PhaseInv
  <1>3. CASE NoRounds
    <2>1. phase = "loop" /\ query' = query /\ iter >= Budget /\ phase' = "stopped"
      BY <1>3 DEF NoRounds, asked
    <2>2. query.maxIters < 0 /\ Budget = Rows - 1 /\ iter = 0
      BY <1>0, <2>1, GraphTypes DEF BudgetInv, Budget
    <2>3. Vertex = {0}
      BY <2>1, <2>2, GraphTypes DEF Vertex
    <2>4. query.targets \subseteq query.sources
      <3>1. \A q \in Queries : q.sources # {} /\ q.sources \subseteq Vertex /\ q.targets \subseteq Vertex
        BY QueryAssumption
      <3>2. query.sources # {} /\ query.sources \subseteq {0} /\ query.targets \subseteq {0}
        BY <1>0, <2>3, <3>1
      <3> QED BY <3>2
    <2> QED BY <1>3, <2>1, <2>4 DEF NoRounds, Certified
  <1>4. ASSUME NEW u \in Vertex, Kernel(u) PROVE phase' = "round"
    BY <1>4, KernelFrame DEF ListsInv
  <1>5. CASE Decide
    <2>1. query' = query /\ iter' = iter + 1 /\ query.maxIters < 0 /\ query.interval = 1
          /\ Budget' = Budget /\ phase' # "done" /\ Budget = Rows - 1
      BY <1>0, <1>5 DEF Decide, asked, EveryRoundChecked, Budget
    <2>2. phase' = "loop" => ~(iter + 1 >= Budget)
      BY <1>5, <2>1, LastRoundFinal DEF Decide
    <2>3. phase' = "loop" => iter + 1 < Budget
      BY <1>0, <2>1, <2>2, GraphTypes
    <2>4. phase' = "stopped" => StopReason \in {"converged", "target"} /\ stop' = StopReason
      <3>1. phase' = "stopped" => stop' = StopReason /\ StopReason # "none"
        BY <1>5 DEF Decide
      <3>2. StopReason = "maxIters" => iter + 1 >= Budget
        BY DEF StopReason
      <3>3. StopReason \in {"none", "converged", "target", "maxIters"}
        BY DEF StopReason
      <3> QED BY <1>5, <2>1, <3>1, <3>2, <3>3, LastRoundFinal
    <2> QED BY <2>1, <2>3, <2>4 DEF Certified
  <1>6. CASE Reply
    <2>1. phase = "stopped" /\ UNCHANGED <<query, stop>> /\ phase' # "loop"
      BY <1>6 DEF Reply, asked
    <2> QED BY <2>1 DEF BudgetInv, Certified
  <1>7. CASE UNCHANGED vars
    <2>1. UNCHANGED <<query, stop, phase, iter>>
      BY <1>7 DEF vars, host, asked
    <2> QED BY <2>1 DEF BudgetInv, Certified, Budget
  <1> QED BY <1>1, <1>2, <1>3, <1>4, <1>5, <1>6, <1>7 DEF Next, Work

\* A query that leaves max_iterations to the engine, and has its targets checked
\* after every round, ends with a certificate.  (With a larger interval it need
\* not: the interval run shows a query that stops uncertified.)
THEOREM DefaultBudgetSuffices ==
  ASSUME EveryRoundChecked
  PROVE  Spec => []DefaultBudgetCertifies
  <1> DEFINE Inv == AnswerInv /\ CountInv /\ BudgetInv
  <1>1. Init => CountInv /\ BudgetInv
    BY DEF Init, CountInv, BudgetInv
  <1>2. AnswerInv /\ AnswerInv' /\ CountInv /\ BudgetInv /\ [Next]_vars => CountInv' /\ BudgetInv'
    BY CountStep, BudgetStep DEF AnswerInv
  <1>3. AnswerInv /\ BudgetInv => DefaultBudgetCertifies
    <2> SUFFICES ASSUME AnswerInv, BudgetInv, phase = "done", query.maxIters < 0
                 PROVE  result.certified
      BY DEF DefaultBudgetCertifies
    <2>1. result = [certified |-> Certified, dist |-> [t \in query.targets |-> label[t]]]
      BY DEF AnswerInv, SettleInv
    <2> QED BY <2>1 DEF BudgetInv
  <1> QED BY <1>1, <1>2, <1>3, AnswerInvariant, PTL DEF Spec
===============================================================================
