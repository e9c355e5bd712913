----------------------------- MODULE DeltaProofs -----------------------------
(***************************************************************************)
(* Theorems about DeltaStepping for every graph, bucket width, number of   *)
(* buckets, token range and set of queries that satisfy GraphAssumption    *)
(* and DeltaAssumption: its queues and its reset first, then its distances *)
(* and parents, and that it implements SsspOracle.                         *)
(***************************************************************************)
EXTENDS DeltaRefinement, CsrGraphLemmas

-----------------------------------------------------------------------------
(* Buckets, tokens and queries. *)

\* Finite distances have a bucket below NoBucket, infinite ones NoBucket.
LEMMA BucketRange ==
  ASSUME NEW d \in Cost
  PROVE  Bucket(d) \in Nat /\ (Bucket(d) < NoBucket <=> d # Inf)
  <1>1. d \in Nat /\ d \div Delta \in Nat
    BY CostEnds, DeltaAssumption
  <1>2. NoBucket \in Nat /\ NoBucket - 1 \in Nat /\ NoBucket - 1 < NoBucket
    BY DeltaAssumption
  <1> QED BY <1>1, <1>2 DEF Bucket, Min2

\* Truncated division keeps order.
LEMMA DivMonotone ==
  ASSUME NEW a \in Nat, NEW b \in Nat, a <= b
  PROVE  a \div Delta <= b \div Delta
  <1> DEFINE q == a \div Delta
             p == b \div Delta
  <1>0. Delta \in Nat /\ Delta > 0
    BY DeltaAssumption
  <1>1. q \in Nat /\ p \in Nat /\ Delta * q <= a /\ b < Delta * (p + 1)
    BY <1>0
  <1> HIDE DEF q, p
  <1>2. Delta * q < Delta * (p + 1)
    BY <1>0, <1>1
  <1>3. q < p + 1
    BY <1>0, <1>1, <1>2
  <1> QED BY <1>1, <1>3 DEF q, p

\* A larger cost lies in no earlier bucket.
LEMMA BucketMonotone ==
  ASSUME NEW a \in Cost, NEW b \in Cost, a <= b
  PROVE  Bucket(a) <= Bucket(b) /\ Bucket(a) \in Nat /\ Bucket(b) \in Nat
  <1>1. Bucket(a) \in Nat /\ Bucket(b) \in Nat
    BY BucketRange
  <1>2. CASE b = Inf
    BY <1>1, <1>2, BucketRange, DeltaAssumption DEF Bucket
  <1>3. CASE b # Inf
    <2>1. a # Inf /\ a \in Nat /\ b \in Nat
      BY <1>3, CostEnds
    <2>2. a \div Delta <= b \div Delta /\ a \div Delta \in Nat /\ b \div Delta \in Nat
      BY <2>1, DivMonotone, DeltaAssumption
    <2> QED BY <1>3, <2>1, <2>2, DeltaAssumption DEF Bucket, Min2
  <1> QED BY <1>2, <1>3

\* The bucket selected next lies between the one closed and the last one.
LEMMA NextBucketRange ==
  ASSUME TypeOK, Successors # {}
  PROVE  NextBucket \in Nat /\ bucket < NextBucket /\ NextBucket < NoBucket
  <1>1. Successors \in SUBSET Nat
    <2>1. \A v \in pending.nodes \cap inPending : Bucket(dist[v]) \in Nat
      BY BucketRange DEF TypeOK
    <2> QED BY <2>1 DEF Successors
  <1>2. \E m \in Successors : \A k \in Successors : m <= k
    BY <1>1, LeastNat
  <1>3. NextBucket \in Successors
    BY <1>2 DEF NextBucket
  <1> QED BY <1>1, <1>3 DEF Successors

LEMMA QueryTypes ==
  ASSUME NEW r \in Queries
  PROVE  /\ r.sources \in SUBSET Vertex /\ r.targets \in SUBSET Vertex
         /\ r.limit \in Cost /\ r.maxIters \in Int
  BY DeltaAssumption

LEMMA TokenRange ==
  ASSUME generation \in 0 .. MaxGeneration
  PROVE  Token \in 1 .. MaxGeneration
  BY DeltaAssumption DEF Token

\* Queues built from sets of nodes, and an append of one more node.
LEMMA QueueTypes ==
  /\ EmptyQueue \in Queue /\ EmptyQueue.count = Cardinality(EmptyQueue.nodes)
  /\ \A S \in SUBSET Vertex : QueueOf(S) \in Queue
  /\ \A q \in Queue, v \in Vertex : Push(q, v) \in Queue
  BY FiniteNodes, FS_EmptySet DEF EmptyQueue, QueueOf, Push, Queue

-----------------------------------------------------------------------------
(* Type correctness. *)

CursorOK ==
    \A u \in Vertex :
        /\ pc[u] # "off" => phase = "kernel"
        /\ pc[u] = "edge" => rowptr[u] <= epos[u] /\ epos[u] <= rowptr[u + 1]

TypeInv == TypeOK /\ CursorOK

LEMMA TypeInit == Init => TypeInv
  <1> SUFFICES ASSUME Init PROVE TypeInv
    OBVIOUS
  <1>1. costs \in [Vertex -> Costs]
    BY DeltaAssumption DEF Init
  <1>2. dist \in [Vertex -> Cost] /\ from \in [Vertex -> Cost] /\ key \in [Vertex -> Cost \X Nat]
    BY CostEnds DEF Init, IdleThreads, NoKey
  <1>3. epos \in [Vertex -> 0 .. Nnz]
    BY GraphTypes DEF Init, IdleThreads
  <1>4. inCurrent \in [Vertex -> 0 .. MaxGeneration] /\ generation \in 0 .. MaxGeneration /\ bucket \in 0 .. NoBucket - 1
    BY DeltaAssumption DEF Init
  <1>5. TypeOK
    BY <1>1, <1>2, <1>3, <1>4, QueueTypes DEF Init, IdleThreads, TypeOK
  <1>6. CursorOK
    BY DEF Init, IdleThreads, CursorOK
  <1> QED BY <1>5, <1>6 DEF TypeInv

\* What the edge under a thread's cursor is.
LEMMA CursorEdge ==
  ASSUME TypeInv, NEW u \in Vertex, pc[u] = "edge", epos[u] < rowptr[u + 1]
  PROVE  /\ epos[u] \in OutEdges(u) /\ epos[u] \in Edge /\ to[epos[u]] \in Vertex
         /\ SourceForEdge(epos[u]) = u
         /\ Candidate(u) \in Cost /\ Payload(epos[u]) \in Nat
         /\ epos[u] + 1 \in 0 .. Nnz /\ rowptr[u] <= epos[u] + 1 /\ epos[u] + 1 <= rowptr[u + 1]
  <1>1. epos[u] \in 0 .. Nnz /\ rowptr[u] <= epos[u] /\ rowptr[u] \in Int /\ rowptr[u + 1] \in 0 .. Nnz
    BY RowBounds DEF TypeInv, TypeOK, CursorOK
  <1>2. epos[u] \in OutEdges(u)
    BY <1>1 DEF OutEdges
  <1>3. epos[u] \in Edge /\ SourceForEdge(epos[u]) = u
    BY <1>2, EdgesOfRow, SourceOfRowEdge
  <1>4. costs \in [Vertex -> Nat]
    BY DeltaAssumption DEF TypeInv, TypeOK
  <1>5. Weight(epos[u]) \in Nat
    BY <1>3, <1>4, WeightType, CostEnds DEF Weight
  <1>6. from[u] + Weight(epos[u]) \in Nat
    BY <1>5, CostEnds DEF TypeInv, TypeOK
  <1>7. Candidate(u) \in Cost
    BY <1>6, SaturateType DEF Candidate
  <1>8. Payload(epos[u]) \in Nat
    BY <1>3 DEF Payload, Edge, Vertex
  <1>9. epos[u] + 1 \in 0 .. Nnz /\ rowptr[u] <= epos[u] + 1 /\ epos[u] + 1 <= rowptr[u + 1]
    BY <1>1, GraphTypes
  <1> QED BY <1>2, <1>3, <1>7, <1>8, <1>9, GraphTypes

LEMMA TypeKernel ==
  ASSUME TypeInv, NEW u \in Vertex, Kernel(u)
  PROVE  TypeInv'
  <1> USE DEF TypeInv
  <1>0. phase = "kernel" /\ rowptr[u] \in 0 .. Nnz /\ rowptr[u + 1] \in 0 .. Nnz /\ rowptr[u] <= rowptr[u + 1]
    BY RowBounds, GraphAssumption DEF Kernel, Vertex
  <1>1. CASE LoadLabel(u)
    <2>1. TypeOK'
      BY <1>1, <1>0, CostEnds, QueueTypes DEF LoadLabel, host, TypeOK
    <2>2. CursorOK'
      BY <1>1, <1>0 DEF LoadLabel, host, TypeOK, CursorOK
    <2> QED BY <2>1, <2>2
  <1>2. CASE SkipEdge(u)
    <2>0. pc[u] = "edge" /\ epos[u] < rowptr[u + 1]
      BY <1>2 DEF SkipEdge
    <2>1. TypeOK'
      BY <1>2, <2>0, CursorEdge DEF SkipEdge, arrays, host, queues, TypeOK
    <2>2. CursorOK'
      BY <1>2, <2>0, CursorEdge DEF SkipEdge, host, TypeOK, CursorOK
    <2> QED BY <2>1, <2>2
  <1>3. CASE RelaxEdge(u)
    <2> DEFINE v == to[epos[u]]
               c == Candidate(u)
    <2>0. pc[u] = "edge" /\ epos[u] < rowptr[u + 1]
      BY <1>3 DEF RelaxEdge
    <2>1. v \in Vertex /\ c \in Cost /\ <<c, Payload(epos[u])>> \in Cost \X Nat /\ epos[u] + 1 \in 0 .. Nnz
      BY <2>0, CursorEdge
    <2>2. dist' \in [Vertex -> Cost]
      BY <1>3, <2>1 DEF RelaxEdge, TypeOK, Min2
    <2>3. key' \in [Vertex -> Cost \X Nat]
      BY <1>3, <2>1 DEF RelaxEdge, TypeOK
    <2>4. inCurrent' \in [Vertex -> 0 .. MaxGeneration]
      BY <1>3, <2>1, DeltaAssumption DEF RelaxEdge, TypeOK, Claim
    <2>5. touched' \in Queue /\ next' \in Queue /\ pending' \in Queue /\ inPending' \subseteq Vertex
      BY <1>3, <2>1, QueueTypes DEF RelaxEdge, TypeOK
    <2>6. epos' \in [Vertex -> 0 .. Nnz]
      BY <1>3, <2>1 DEF RelaxEdge, TypeOK
    <2>7. TypeOK'
      BY <1>3, <2>2, <2>3, <2>4, <2>5, <2>6 DEF RelaxEdge, host, TypeOK
    <2>8. CursorOK'
      BY <1>3, <2>0, CursorEdge DEF RelaxEdge, host, TypeOK, CursorOK
    <2> QED BY <2>7, <2>8
  <1>4. CASE FinishThread(u)
    <2>1. TypeOK'
      BY <1>4, CostEnds, GraphTypes DEF FinishThread, host, queues, TypeOK
    <2>2. CursorOK'
      BY <1>4 DEF FinishThread, host, TypeOK, CursorOK
    <2> QED BY <2>1, <2>2
  <1> QED BY <1>1, <1>2, <1>3, <1>4 DEF Kernel

LEMMA TypeStep == TypeInv /\ [Next]_vars => TypeInv'
  <1> SUFFICES ASSUME TypeInv, [Next]_vars PROVE TypeInv'
    OBVIOUS
  <1> USE DEF TypeInv
  <1>a. NowSettled \subseteq Vertex
    BY QueryTypes DEF NowSettled, TypeOK
  <1>0. Token \in 0 .. MaxGeneration /\ CurrentMarks \in [Vertex -> 0 .. MaxGeneration]
    BY TokenRange, DeltaAssumption DEF TypeOK, CurrentMarks
  <1>1. CASE UpdateCosts
    BY <1>1 DEF UpdateCosts, arrays, host, queues, threads, TypeOK, CursorOK
  <1>2. CASE Begin
    <2>1. PICK r \in Queries : Begin!(r)
      BY <1>2 DEF Begin
    <2>2. r.sources \in SUBSET Vertex /\ r.targets \in SUBSET Vertex
      BY QueryTypes
    <2>3. dist' \in [Vertex -> Cost] /\ inCurrent' \in [Vertex -> 0 .. MaxGeneration] /\ generation' \in 0 .. MaxGeneration
      BY <2>1, <1>0, CostEnds DEF AcquireToken, TypeOK
    <2>4. \A q \in {touched', current', next', pending', heavy'} : q \in Queue
      BY <2>1, <2>2, QueueTypes
    <2>5. settled' \subseteq Vertex /\ stop' \in {"target", "none"} /\ 0 \in 0 .. NoBucket - 1
      BY <2>1, <2>2, DeltaAssumption
    <2>6. TypeOK'
      BY <2>1, <2>3, <2>4, <2>5 DEF threads, TypeOK
    <2>7. CursorOK'
      BY <2>1 DEF threads, TypeOK, CursorOK
    <2> QED BY <2>6, <2>7
  <1>3. CASE StartBucket
    BY <1>3, QueueTypes DEF StartBucket, arrays, threads, TypeOK, CursorOK
  <1>4. CASE LeaveLoop
    BY <1>4 DEF LeaveLoop, arrays, queues, threads, TypeOK, CursorOK
  <1>5. CASE StartLight
    <2>a. inCurrent' \in [Vertex -> 0 .. MaxGeneration] /\ generation' \in 0 .. MaxGeneration
      BY <1>5, <1>0, DeltaAssumption DEF StartLight, AcquireToken, ClearedFlags, TypeOK
    <2>b. pc' \in [Vertex -> {"off", "load", "edge"}]
      BY <1>5 DEF StartLight, Launch
    <2>1. TypeOK'
      BY <1>5, <2>a, <2>b, QueueTypes DEF StartLight, Launch, TypeOK
    <2>2. CursorOK'
      BY <1>5 DEF StartLight, Launch, TypeOK, CursorOK
    <2> QED BY <2>1, <2>2
  <1>6. CASE StartHeavy
    <2>1. TypeOK'
      BY <1>6 DEF StartHeavy, Launch, arrays, queues, TypeOK
    <2>2. CursorOK'
      BY <1>6 DEF StartHeavy, Launch, TypeOK, CursorOK
    <2> QED BY <2>1, <2>2
  <1>7. CASE SkipHeavyPhase
    BY <1>7 DEF SkipHeavyPhase, arrays, queues, threads, TypeOK, CursorOK
  <1>8. CASE EndKernel
    BY <1>8 DEF EndKernel, arrays, TypeOK, CursorOK
  <1>9. ASSUME NEW u \in Vertex, Kernel(u) PROVE TypeInv'
    BY <1>9, TypeKernel
  <1>10. CASE StopAfterBucket
    BY <1>10, <1>a DEF StopAfterBucket, StopReason, arrays, queues, threads, TypeOK, CursorOK
  <1>11. CASE AdvanceBucket
    <2>1. NextBucket \in 0 .. NoBucket - 1
      <3>1. Successors # {}
        BY <1>11 DEF AdvanceBucket, StopReason
      <3> QED BY <3>1, NextBucketRange, DeltaAssumption
    <2>2. inPending' \subseteq Vertex
      BY <1>11 DEF AdvanceBucket, TypeOK
    <2>3. inCurrent' \in [Vertex -> 0 .. MaxGeneration] /\ generation' \in 0 .. MaxGeneration
      BY <1>11, <1>0 DEF AdvanceBucket, AcquireToken, TypeOK
    <2>4. current' \in Queue /\ pending' \in Queue
      BY <1>11, QueueTypes DEF AdvanceBucket, TypeOK
    <2>5. TypeOK'
      BY <1>11, <1>a, <2>1, <2>2, <2>3, <2>4 DEF AdvanceBucket, threads, TypeOK
    <2>6. CursorOK'
      BY <1>11 DEF AdvanceBucket, threads, TypeOK, CursorOK
    <2> QED BY <2>5, <2>6
  <1>12. CASE CallbackThrows
    BY <1>12, <1>a DEF CallbackThrows, arrays, queues, threads, TypeOK, CursorOK
  <1>13. CASE Extract
    BY <1>13 DEF Extract, arrays, queues, threads, TypeOK, CursorOK
  <1>14. CASE Reset
    BY <1>14, CostEnds, QueueTypes, DeltaAssumption DEF Reset, KeysAfterReset, NoKey, queues, threads, TypeOK, CursorOK
  <1>15. CASE Return
    BY <1>15 DEF Return, arrays, queues, threads, TypeOK, CursorOK
  <1>16. CASE UNCHANGED vars
    BY <1>16 DEF vars, arrays, host, queues, threads, TypeOK, CursorOK
  <1> QED BY <1>1, <1>2, <1>3, <1>4, <1>5, <1>6, <1>7, <1>8, <1>9, <1>10, <1>11, <1>12, <1>13, <1>14, <1>15, <1>16
          DEF Next, Work, Begin

\* Every cost below a positive limit lies in an allowed bucket.
LEMMA BelowLimit ==
  ASSUME TypeInv, NEW d \in Cost, d < query.limit
  PROVE  Bucket(d) <= LastAllowed /\ LastAllowed \in Int
  <1> DEFINE Below == {c \in Cost : c < query.limit}
             Gaps  == {query.limit - c : c \in Below}
  <1>1. query.limit \in Nat /\ d \in Nat /\ d \in Below /\ query.limit # 0 /\ \A c \in Cost : c \in Nat
    BY QueryTypes, CostEnds DEF TypeInv, TypeOK
  <1>2. Gaps \in SUBSET Nat /\ Gaps # {}
    <2>1. \A c \in Below : c \in Nat /\ c < query.limit
      BY <1>1
    <2>2. query.limit - d \in Gaps
      BY <1>1
    <2> HIDE DEF Below
    <2> QED BY <1>1, <2>1, <2>2
  <1>3. PICK m \in Gaps : \A k \in Gaps : m <= k
    BY <1>2, LeastNat
  <1>4. PICK top \in Below : m = query.limit - top
    BY <1>3
  <1>5. \A c \in Below : c <= top
    <2>1. ASSUME NEW c \in Below PROVE c <= top
      <3>1. m <= query.limit - c
        BY <1>3
      <3>2. c \in Nat /\ top \in Nat
        BY <1>1
      <3> QED BY <1>1, <1>4, <3>1, <3>2
    <2> QED BY <2>1
  <1> DEFINE last == CHOOSE c \in Cost : c < query.limit /\ \A b \in Cost : b < query.limit => b <= c
  <1>6. last \in Cost /\ last < query.limit /\ \A b \in Cost : b < query.limit => b <= last
    <2>1. \E c \in Cost : c < query.limit /\ \A b \in Cost : b < query.limit => b <= c
      BY <1>4, <1>5
    <2> QED BY <2>1
  <1>7. LastAllowed = Bucket(last)
    BY <1>1 DEF LastAllowed
  <1> HIDE DEF last
  <1> QED BY <1>6, <1>7, BucketMonotone

\* The last allowed bucket is a bucket, or none.
LEMMA LimitRange ==
  ASSUME TypeInv
  PROVE  LastAllowed \in Int
  <1>1. query.limit \in Cost /\ query.limit \in Nat /\ 0 \in Cost
    BY QueryTypes, CostEnds DEF TypeInv, TypeOK
  <1>2. CASE query.limit = 0
    BY <1>2 DEF LastAllowed
  <1>3. CASE query.limit # 0
    BY <1>1, <1>3, BelowLimit
  <1> QED BY <1>2, <1>3

\* Distances stay costs, buckets and tokens stay in range, cursors stay offsets
\* of the edge array and queues list nodes only.
THEOREM DeltaTypeCorrect == Spec => []TypeOK
  <1>1. Spec => []TypeInv
    BY TypeInit, TypeStep, PTL DEF Spec
  <1> QED BY <1>1, PTL DEF TypeInv

-----------------------------------------------------------------------------
(* The queues and the flags that guard them.                               *)

Busy == phase \notin {"idle", "done"}

\* Whatever a query leaves behind, it leaves at nodes it has reached, and the
\* touched queue names those.
TouchedInv ==
    \A v \in Vertex :
        /\ dist[v] = Inf => /\ key[v] = NoKey /\ v \notin inPending
                            /\ ~Generations => inCurrent[v] = 0
        /\ Busy => (v \in touched.nodes <=> dist[v] # Inf)
        /\ ~Busy => dist[v] = Inf

\* A heavy flag is set from the light kernel that queues the node to the heavy
\* kernel's thread that clears it.
HeavyInv ==
    /\ phase \notin {"closure", "kernel"} => inHeavy = {}
    /\ phase = "closure" \/ (phase = "kernel" /\ kernel = "light")
          => inHeavy = heavy.nodes /\ (AllLight => inHeavy = {})
    /\ phase = "kernel" => kernel \in {"light", "heavy"}
    /\ phase = "kernel" /\ kernel = "heavy" => \A u \in inHeavy : pc[u] # "off"

PendingInv == phase \in {"bucket", "closure", "kernel", "settle"} => pending.nodes = inPending

\* No token is newer than the counter, and a set flag means that the node is on
\* the queue being filled or about to be processed: tokens and flags handed out
\* next are new.  During a round the claimed nodes are those of the next queue.
ClaimInv ==
    /\ Generations => \A v \in Vertex : inCurrent[v] <= generation
    /\ ~Generations /\ phase \in {"bucket", "closure"}
          => \A v \in Vertex : inCurrent[v] # 0 => v \in current.nodes
    /\ ~Generations /\ (phase = "settle" \/ (phase = "kernel" /\ kernel = "heavy"))
          => \A v \in Vertex : inCurrent[v] = 0
    /\ phase = "kernel" /\ kernel = "light"
          => \A v \in Vertex : ~Unclaimed(v) <=> v \in next.nodes

QueueInv == TouchedInv /\ HeavyInv /\ PendingInv /\ ClaimInv /\ QueuesFit

\* A queue whose counter is the number of its nodes.
Fits(q) == q \in Queue /\ q.count = Cardinality(q.nodes)

LEMMA FitsOf ==
  /\ Fits(EmptyQueue)
  /\ \A S \in SUBSET Vertex : Fits(QueueOf(S))
  /\ \A q \in Queue, v \in Vertex : Fits(q) /\ v \notin q.nodes => Fits(Push(q, v))
  /\ \A q \in Queue : Fits(q) /\ q.count = 0 => q.nodes = {}
  <1>1. Fits(EmptyQueue) /\ \A S \in SUBSET Vertex : Fits(QueueOf(S))
    BY QueueTypes DEF Fits, QueueOf
  <1>2. ASSUME NEW q \in Queue, NEW v \in Vertex, Fits(q), v \notin q.nodes
        PROVE  Fits(Push(q, v))
    <2>1. q.nodes \in SUBSET Vertex
      BY DEF Queue
    <2>2. Cardinality(q.nodes \cup {v}) = Cardinality(q.nodes) + 1
      BY <2>1, <1>2, FiniteNodes
    <2> QED BY <1>2, <2>2, QueueTypes DEF Fits, Push
  <1>3. ASSUME NEW q \in Queue, Fits(q), q.count = 0
        PROVE  q.nodes = {}
    <2>1. IsFiniteSet(q.nodes)
      BY FiniteNodes DEF Queue
    <2> QED BY <1>3, <2>1, FS_EmptySet DEF Fits
  <1> QED BY <1>1, <1>2, <1>3

LEMMA QueuesFitFits ==
  ASSUME TypeOK
  PROVE  QueuesFit <=> Fits(touched) /\ Fits(current) /\ Fits(next) /\ Fits(pending) /\ Fits(heavy)
  BY DEF TypeOK, QueuesFit, Fits

LEMMA QueueInit == Init => QueueInv
  <1> SUFFICES ASSUME Init PROVE QueueInv
    OBVIOUS
  <1>1. QueuesFit
    BY QueueTypes DEF Init, QueuesFit
  <1>2. TouchedInv /\ HeavyInv /\ PendingInv
    BY DEF Init, TouchedInv, HeavyInv, PendingInv, Busy
  <1>3. ClaimInv
    BY DEF Init, ClaimInv
  <1> QED BY <1>1, <1>2, <1>3 DEF QueueInv

LEMMA QueueLoad ==
  ASSUME TypeInv, TypeInv', QueueInv, NEW u \in Vertex, phase = "kernel", LoadLabel(u)
  PROVE  QueueInv'
  <1> USE DEF TypeInv, QueueInv
  <1>1. UNCHANGED <<costs, hasCosts, dist, key, inCurrent, generation, inPending, touched, host,
                    current, next, pending, kernel>>
    BY DEF LoadLabel
  <1>2. TouchedInv' /\ PendingInv' /\ ClaimInv'
    BY <1>1 DEF TouchedInv, PendingInv, ClaimInv, Unclaimed, Busy, host
  <1>3. pc'[u] # "off" /\ \A w \in Vertex : w # u => pc'[w] = pc[w]
    BY DEF LoadLabel, TypeOK
  <1>4. AllLight' = AllLight
    BY <1>1 DEF AllLight, Terminal, SkipHeavy, host
  <1>5. CASE inHeavy' = inHeavy /\ heavy' = heavy
    <2>1. HeavyInv'
      BY <1>1, <1>3, <1>4, <1>5 DEF HeavyInv, host, TypeOK
    <2>2. QueuesFit'
      BY <1>1, <1>5 DEF QueuesFit
    <2> QED BY <1>2, <2>1, <2>2
  <1>6. CASE /\ kernel = "light" /\ ~AllLight /\ u \notin inHeavy
             /\ inHeavy' = inHeavy \cup {u} /\ heavy' = Push(heavy, u)
    <2>1. HeavyInv'
      BY <1>1, <1>4, <1>6 DEF HeavyInv, host, Push
    <2>2. u \notin heavy.nodes
      BY <1>6 DEF HeavyInv
    <2>3. Fits(heavy')
      BY <1>6, <2>2, FitsOf, QueuesFitFits DEF TypeOK
    <2>4. QueuesFit'
      BY <1>1, <2>3, QueuesFitFits DEF Fits, QueuesFit
    <2> QED BY <1>2, <2>1, <2>4
  <1> QED BY <1>5, <1>6 DEF LoadLabel

LEMMA QueueFinish ==
  ASSUME TypeInv, TypeInv', QueueInv, NEW u \in Vertex, phase = "kernel", FinishThread(u)
  PROVE  QueueInv'
  <1> USE DEF TypeInv, QueueInv
  <1>1. UNCHANGED <<costs, hasCosts, dist, key, inCurrent, generation, inPending, touched, host,
                    queues, kernel>>
    BY DEF FinishThread
  <1>2. TouchedInv' /\ PendingInv' /\ ClaimInv' /\ QueuesFit'
    BY <1>1 DEF TouchedInv, PendingInv, ClaimInv, QueuesFit, Unclaimed, Busy, host, queues
  <1>3. \A w \in Vertex : w # u => pc'[w] = pc[w]
    BY DEF FinishThread, TypeOK
  <1>4. AllLight' = AllLight
    BY <1>1 DEF AllLight, Terminal, SkipHeavy, host
  <1>5. HeavyInv'
    BY <1>1, <1>3, <1>4 DEF HeavyInv, FinishThread, host, queues, TypeOK
  <1> QED BY <1>2, <1>5

LEMMA QueueRelax ==
  ASSUME TypeInv, TypeInv', QueueInv, NEW u \in Vertex, phase = "kernel", RelaxEdge(u)
  PROVE  QueueInv'
  <1> USE DEF TypeInv, QueueInv
  <1> DEFINE v == to[epos[u]]
             c == Candidate(u)
             k == <<c, Payload(epos[u])>>
             decreased == c < dist[v]
             same  == decreased /\ Bucket(c) = bucket /\ Unclaimed(v)
             later == decreased /\ Bucket(c) > bucket /\ v \notin inPending
  <1>1. /\ v \in Vertex /\ c \in Cost /\ dist[v] \in Cost /\ c # Inf
        /\ Bucket(c) \in Nat /\ bucket \in Nat
    <2>1. v \in Vertex /\ c \in Cost /\ dist[v] \in Cost
      BY CursorEdge DEF RelaxEdge, TypeOK
    <2>2. c < query.limit /\ query.limit \in Cost
      BY QueryTypes DEF RelaxEdge, Eligible, TypeOK
    <2> QED BY <2>1, <2>2, CostEnds, BucketRange DEF TypeOK
  <1>2. /\ dist' = [dist EXCEPT ![v] = Min2(@, c)]
        /\ key' = [key EXCEPT ![v] = IF PublishesParent(c, v) /\ KeyLess(k, @) THEN k ELSE @]
        /\ touched' = IF decreased /\ dist[v] = Inf THEN Push(touched, v) ELSE touched
        /\ inCurrent' = IF same THEN [inCurrent EXCEPT ![v] = Claim] ELSE inCurrent
        /\ next' = IF same THEN Push(next, v) ELSE next
        /\ inPending' = IF later THEN inPending \cup {v} ELSE inPending
        /\ pending' = IF later THEN Push(pending, v) ELSE pending
        /\ UNCHANGED <<costs, hasCosts, generation, inHeavy, host, current, heavy, kernel, pc>>
    BY DEF RelaxEdge
  <1>3. same => kernel = "light"
    <2>1. IF kernel = "light" THEN IsLight(epos[u], c) ELSE IsHeavy(epos[u], c)
      BY DEF RelaxEdge, Eligible
    <2> QED BY <2>1, <1>1 DEF IsHeavy
  <1> HIDE DEF v, c, k, same, later, decreased
  <1>4. dist'[v] # Inf /\ (\A w \in Vertex : w # v => dist'[w] = dist[w])
    BY <1>1, <1>2, CostEnds DEF Min2, TypeOK
  <1>5. \A w \in Vertex : w # v => key'[w] = key[w] /\ inCurrent'[w] = inCurrent[w]
    BY <1>2 DEF TypeOK
  <1>6. dist[v] = Inf => decreased
    BY <1>1, CostEnds DEF decreased
  <1>7. TouchedInv'
    <2>1. touched'.nodes = IF dist[v] = Inf THEN touched.nodes \cup {v} ELSE touched.nodes
      BY <1>2, <1>6 DEF Push
    <2>2. phase' = phase
      BY <1>2 DEF host
    <2>3. \A w \in Vertex : w # v => (w \in inPending' <=> w \in inPending)
      BY <1>2
    <2> QED BY <1>1, <1>4, <1>5, <2>1, <2>2, <2>3 DEF TouchedInv, Busy
  <1>8. AllLight' = AllLight
    BY <1>2 DEF AllLight, Terminal, SkipHeavy, host
  <1>9. HeavyInv'
    BY <1>2, <1>8 DEF HeavyInv, host
  <1>10. PendingInv'
    BY <1>2 DEF PendingInv, Push, host
  <1>11. ClaimInv'
    <2>1. CASE same
      <3>1. next'.nodes = next.nodes \cup {v} /\ inCurrent'[v] = Claim /\ kernel = "light"
        BY <2>1, <1>1, <1>2, <1>3 DEF Push, TypeOK
      <3> QED BY <1>1, <1>2, <1>5, <3>1 DEF ClaimInv, Claim, Unclaimed, host, TypeOK
    <2>2. CASE ~same
      BY <1>2, <2>2 DEF ClaimInv, Unclaimed, host
    <2> QED BY <2>1, <2>2
  <1>12. QueuesFit'
    <2>0. Fits(touched) /\ Fits(current) /\ Fits(next) /\ Fits(pending) /\ Fits(heavy)
      BY QueuesFitFits
    <2>1. Fits(touched')
      BY <1>1, <1>2, <2>0, FitsOf DEF TouchedInv, Busy, TypeOK
    <2>2. Fits(next')
      BY <1>1, <1>2, <1>3, <2>0, FitsOf DEF ClaimInv, TypeOK, same
    <2>3. Fits(pending')
      BY <1>1, <1>2, <2>0, FitsOf DEF PendingInv, TypeOK, later
    <2> QED BY <1>2, <2>0, <2>1, <2>2, <2>3, QueuesFitFits DEF Fits, QueuesFit
  <1> QED BY <1>7, <1>9, <1>10, <1>11, <1>12

\* No node carries the token handed out next.
LEMMA TokenIsNew ==
  ASSUME TypeInv, ClaimInv, Generations, NEW v \in Vertex
  PROVE  CurrentMarks[v] < Token
  BY DeltaAssumption DEF TypeInv, TypeOK, ClaimInv, CurrentMarks, Wraps, Token

LEMMA QueueStep == TypeInv /\ TypeInv' /\ QueueInv /\ [Next]_vars => QueueInv'
  <1> SUFFICES ASSUME TypeInv, TypeInv', QueueInv, [Next]_vars PROVE QueueInv'
    OBVIOUS
  <1> USE DEF TypeInv, QueueInv
  <1>0. Fits(touched) /\ Fits(current) /\ Fits(next) /\ Fits(pending) /\ Fits(heavy)
    BY QueuesFitFits
  <1>1. CASE UpdateCosts
    BY <1>1 DEF UpdateCosts, TouchedInv, HeavyInv, PendingInv, ClaimInv, QueuesFit, Unclaimed, Busy,
                arrays, host, queues, threads
  <1>2. CASE Begin
    <2>1. PICK r \in Queries : Begin!(r)
      BY <1>2 DEF Begin
    <2>2. r.sources \in SUBSET Vertex
      BY QueryTypes
    <2>3. phase = "idle" /\ phase' = "bucket" /\ \A v \in Vertex : dist[v] = Inf
      BY <2>1 DEF TouchedInv, Busy
    <2>4. QueuesFit'
      BY <2>1, <2>2, FitsOf DEF QueuesFit, Fits
    <2>5. TouchedInv'
      <3>1. \A v \in Vertex : dist'[v] = (IF v \in r.sources THEN 0 ELSE Inf) /\ key'[v] = NoKey
        BY <2>1, <2>3 DEF TouchedInv, TypeOK
      <3>2. touched'.nodes = r.sources /\ inPending' = inPending
        BY <2>1 DEF QueueOf
      <3>3. \A v \in Vertex : ~Generations /\ v \notin r.sources => inCurrent'[v] = 0
        BY <2>1, <2>3 DEF TouchedInv, CurrentMarks, Wraps
      <3>4. 0 # Inf
        BY GraphTypes DEF Inf
      <3> QED BY <2>3, <3>1, <3>2, <3>3, <3>4 DEF TouchedInv, Busy
    <2>6. HeavyInv'
      BY <2>1, <2>3 DEF HeavyInv
    <2>7. PendingInv'
      BY <2>1, <2>3 DEF PendingInv, EmptyQueue, TouchedInv, TypeOK
    <2>8. ClaimInv'
      <3>1. CASE Generations
        <4>1. generation' = Token /\ \A v \in Vertex : inCurrent'[v] \in {Token, CurrentMarks[v]}
          BY <2>1, <3>1 DEF AcquireToken
        <4> QED BY <2>3, <3>1, <4>1, TokenIsNew, TokenRange DEF ClaimInv, TypeOK
      <3>2. CASE ~Generations
        <4>1. \A v \in Vertex : inCurrent'[v] # 0 => v \in current'.nodes
          BY <2>1, <2>3, <3>2 DEF TouchedInv, CurrentMarks, Wraps, QueueOf
        <4> QED BY <2>3, <3>2, <4>1 DEF ClaimInv
      <3> QED BY <3>1, <3>2
    <2> QED BY <2>4, <2>5, <2>6, <2>7, <2>8
  <1>3. CASE StartBucket
    <2>1. TouchedInv' /\ PendingInv' /\ ClaimInv'
      BY <1>3 DEF StartBucket, TouchedInv, PendingInv, ClaimInv, Unclaimed, Busy, arrays
    <2>2. HeavyInv'
      BY <1>3 DEF StartBucket, HeavyInv, EmptyQueue, arrays
    <2>3. QueuesFit'
      BY <1>3, FitsOf DEF StartBucket, QueuesFit, Fits, arrays
    <2> QED BY <2>1, <2>2, <2>3
  <1>4. CASE LeaveLoop
    BY <1>4 DEF LeaveLoop, TouchedInv, HeavyInv, PendingInv, ClaimInv, QueuesFit, Unclaimed, Busy,
                arrays, queues, threads
  <1>5. CASE StartLight
    <2>1. TouchedInv'
      BY <1>5 DEF StartLight, Launch, TouchedInv, Busy, ClearedFlags
    <2>2. AllLight' = AllLight
      BY <1>5 DEF StartLight, AllLight, Terminal, SkipHeavy
    <2>3. HeavyInv' /\ PendingInv'
      BY <1>5, <2>2 DEF StartLight, Launch, HeavyInv, PendingInv
    <2>4. QueuesFit'
      BY <1>5, FitsOf DEF StartLight, QueuesFit, Fits
    <2>5. phase' = "kernel" /\ kernel' = "light" /\ next'.nodes = {}
      BY <1>5 DEF StartLight, Launch, EmptyQueue
    <2>6. CASE Generations
      <3>1. generation' = Token /\ inCurrent' = CurrentMarks
        BY <1>5, <2>6 DEF StartLight, AcquireToken, ClearedFlags
      <3>2. \A v \in Vertex : inCurrent'[v] < generation'
        BY <3>1, <2>6, TokenIsNew
      <3>3. ClaimInv'
        BY <2>5, <2>6, <3>2 DEF ClaimInv, Unclaimed, TypeOK
      <3> QED BY <2>1, <2>3, <2>4, <3>3
    <2>7. CASE ~Generations
      <3>1. \A v \in Vertex : inCurrent'[v] = 0
        BY <1>5, <2>7 DEF StartLight, ClearedFlags, ClaimInv
      <3>2. ClaimInv'
        BY <2>5, <2>7, <3>1 DEF ClaimInv, Unclaimed
      <3> QED BY <2>1, <2>3, <2>4, <3>2
    <2> QED BY <2>6, <2>7
  <1>6. CASE StartHeavy
    <2>1. TouchedInv' /\ PendingInv' /\ QueuesFit'
      BY <1>6 DEF StartHeavy, Launch, TouchedInv, PendingInv, QueuesFit, Busy, arrays, queues
    <2>2. HeavyInv'
      BY <1>6 DEF StartHeavy, Launch, HeavyInv, arrays, queues, TypeOK
    <2>3. current.nodes = {}
      BY <1>6, <1>0, FitsOf DEF StartHeavy, TypeOK
    <2>4. ClaimInv'
      BY <1>6, <2>3 DEF StartHeavy, Launch, ClaimInv, arrays
    <2> QED BY <2>1, <2>2, <2>4
  <1>7. CASE SkipHeavyPhase
    <2>1. TouchedInv' /\ PendingInv' /\ QueuesFit'
      BY <1>7 DEF SkipHeavyPhase, TouchedInv, PendingInv, QueuesFit, Busy, arrays, queues
    <2>2. HeavyInv'
      BY <1>7 DEF SkipHeavyPhase, HeavyInv, HeavyPhase, AllLight, arrays
    <2>3. current.nodes = {}
      BY <1>7, <1>0, FitsOf DEF SkipHeavyPhase, TypeOK
    <2>4. ClaimInv'
      BY <1>7, <2>3 DEF SkipHeavyPhase, ClaimInv, arrays
    <2> QED BY <2>1, <2>2, <2>4
  <1>8. CASE EndKernel
    <2>1. TouchedInv' /\ PendingInv'
      BY <1>8 DEF EndKernel, TouchedInv, PendingInv, Busy, arrays
    <2>2. AllLight' = AllLight
      BY <1>8 DEF EndKernel, AllLight, Terminal, SkipHeavy
    <2>3. HeavyInv'
      BY <1>8, <2>2 DEF EndKernel, HeavyInv, arrays, TypeOK
    <2>4. ClaimInv'
      BY <1>8 DEF EndKernel, ClaimInv, HeavyInv, Unclaimed, arrays
    <2>5. QueuesFit'
      BY <1>8 DEF EndKernel, QueuesFit, arrays
    <2> QED BY <2>1, <2>3, <2>4, <2>5
  <1>9. ASSUME NEW u \in Vertex, Kernel(u) PROVE QueueInv'
    <2>1. CASE SkipEdge(u)
      BY <1>9, <2>1 DEF SkipEdge, TouchedInv, HeavyInv, PendingInv, ClaimInv, QueuesFit, Unclaimed, Busy,
                        AllLight, Terminal, SkipHeavy, arrays, host, queues
    <2> QED BY <1>9, <2>1, QueueLoad, QueueRelax, QueueFinish DEF Kernel
  <1>10. CASE StopAfterBucket
    BY <1>10 DEF StopAfterBucket, TouchedInv, HeavyInv, PendingInv, ClaimInv, QueuesFit, Unclaimed, Busy,
                 arrays, queues, threads
  <1>11. CASE AdvanceBucket
    <2> DEFINE b        == NextBucket
               active   == pending.nodes \cap inPending
               selected == {v \in active : Bucket(dist[v]) = b}
               kept     == {v \in active : b < Bucket(dist[v]) /\ Bucket(dist[v]) < NoBucket}
               free     == {v \in selected : Generations \/ CurrentMarks[v] = 0}
    <2>1. /\ inCurrent' = [v \in Vertex |-> IF v \in free THEN Token ELSE CurrentMarks[v]]
          /\ current' = QueueOf(free) /\ pending' = QueueOf(kept)
          /\ inPending' = inPending \ (active \ kept)
          /\ phase = "settle" /\ phase' = "bucket"
          /\ UNCHANGED <<dist, key, inHeavy, touched, next, heavy>>
      BY <1>11 DEF AdvanceBucket
    <2>2. generation' = IF Generations THEN Token ELSE generation
      BY <1>11 DEF AdvanceBucket, AcquireToken
    <2>3. active = inPending /\ inPending \subseteq Vertex /\ kept \in SUBSET Vertex /\ free \in SUBSET inPending
      BY <2>1 DEF PendingInv, TypeOK
    <2> HIDE DEF active, selected, kept, free
    <2>4. QueuesFit'
      BY <2>1, <2>3, FitsOf DEF QueuesFit, Fits
    <2>5. PendingInv' /\ HeavyInv'
      BY <2>1, <2>3 DEF PendingInv, HeavyInv, QueueOf, kept
    <2>6. TouchedInv'
      <3>1. \A v \in Vertex : dist[v] = Inf /\ ~Generations => inCurrent'[v] = 0
        BY <2>1, <2>3 DEF TouchedInv, CurrentMarks, Wraps
      <3> QED BY <2>1, <3>1 DEF TouchedInv, Busy
    <2>7. ClaimInv'
      <3>1. CASE Generations
        <4>1. \A v \in Vertex : inCurrent'[v] \in {Token, CurrentMarks[v]}
          BY <2>1
        <4> QED BY <2>1, <2>2, <3>1, <4>1, TokenIsNew, TokenRange DEF ClaimInv, TypeOK
      <3>2. CASE ~Generations
        <4>1. \A v \in Vertex : inCurrent'[v] # 0 => v \in current'.nodes
          BY <2>1, <3>2 DEF ClaimInv, CurrentMarks, Wraps, QueueOf
        <4> QED BY <2>1, <3>2, <4>1 DEF ClaimInv
      <3> QED BY <3>1, <3>2
    <2> QED BY <2>4, <2>5, <2>6, <2>7
  <1>12. CASE CallbackThrows
    BY <1>12 DEF CallbackThrows, TouchedInv, HeavyInv, PendingInv, ClaimInv, QueuesFit, Unclaimed, Busy,
                 arrays, queues, threads
  <1>13. CASE Extract
    BY <1>13 DEF Extract, TouchedInv, HeavyInv, PendingInv, ClaimInv, QueuesFit, Unclaimed, Busy,
                 arrays, queues, threads
  <1>14. CASE Reset
    <2>1. phase = "reset" /\ phase' \in {"idle", "done"}
      BY <1>14 DEF Reset
    <2>2. \A v \in Vertex : v \in touched.nodes <=> dist[v] # Inf
      BY <2>1 DEF TouchedInv, Busy
    <2>3. TouchedInv'
      <3>1. \A v \in Vertex : dist'[v] = Inf /\ key'[v] = NoKey
        BY <1>14, <2>2 DEF Reset, KeysAfterReset, TouchedInv
      <3>2. \A v \in Vertex : v \notin inPending'
        BY <1>14, <2>2 DEF Reset, TouchedInv
      <3>3. ~Generations => \A v \in Vertex : inCurrent'[v] = 0
        BY <1>14, <2>2 DEF Reset, TouchedInv
      <3> QED BY <2>1, <3>1, <3>2, <3>3 DEF TouchedInv, Busy
    <2>4. HeavyInv'
      BY <1>14, <2>1 DEF Reset, HeavyInv
    <2>5. PendingInv' /\ QueuesFit'
      BY <1>14, <2>1, FitsOf DEF Reset, PendingInv, QueuesFit, Fits, queues
    <2>6. ClaimInv'
      BY <1>14, <2>1 DEF Reset, ClaimInv
    <2> QED BY <2>3, <2>4, <2>5, <2>6
  <1>15. CASE Return
    BY <1>15 DEF Return, TouchedInv, HeavyInv, PendingInv, ClaimInv, QueuesFit, Unclaimed, Busy,
                 arrays, queues, threads
  <1>16. CASE UNCHANGED vars
    BY <1>16 DEF vars, TouchedInv, HeavyInv, PendingInv, ClaimInv, QueuesFit, Unclaimed, Busy,
                 AllLight, Terminal, SkipHeavy, arrays, host, queues, threads
  <1> QED BY <1>1, <1>2, <1>3, <1>4, <1>5, <1>6, <1>7, <1>8, <1>9, <1>10, <1>11, <1>12, <1>13, <1>14, <1>15, <1>16
          DEF Next, Work

-----------------------------------------------------------------------------
WorkspaceInv == TypeInv /\ QueueInv

LEMMA WorkspaceInvariant == Spec => []WorkspaceInv
  <1>1. Init => WorkspaceInv
    BY TypeInit, QueueInit DEF WorkspaceInv
  <1>2. WorkspaceInv /\ [Next]_vars => WorkspaceInv'
    BY TypeStep, QueueStep DEF WorkspaceInv
  <1> QED BY <1>1, <1>2, PTL DEF Spec

\* No queue ever lists a node twice, however threads race for it and however
\* often the token counter has wrapped, so no append is dropped at Rows slots.
THEOREM QueuesListOnce == Spec => []QueuesFit
  BY WorkspaceInvariant, PTL DEF WorkspaceInv, QueueInv

\* A query finds the arrays as its predecessor found them: the touched queue
\* names all that the sparse reset must undo, after an exception as well.
THEOREM WorkspaceClean == Spec => []CleanWhenIdle
  <1>1. WorkspaceInv => CleanWhenIdle
    BY DEF WorkspaceInv, QueueInv, TypeInv, TypeOK, TouchedInv, HeavyInv, CleanWhenIdle, Busy
  <1> QED BY <1>1, WorkspaceInvariant, PTL
-----------------------------------------------------------------------------
\* The phases of the bucket loop, and those in which dist answers the query.
Looping   == phase \in {"bucket", "closure", "kernel", "settle"}
Measuring == Looping \/ phase = "extract"

Offer(u, e) == Saturate(dist[u] + Weight(e))

\* Every distance is a source's zero or lies below the limit, and no feasible
\* potential exceeds it.
ReachInv ==
    Measuring =>
        /\ \A s \in query.sources : dist[s] = 0
        /\ \A v \in Vertex : dist[v] # Inf => v \in query.admit /\ (dist[v] < query.limit \/ dist[v] = 0)
        /\ phase \in {"closure", "kernel", "settle"} => query.limit # 0
        /\ \A v \in Vertex : BoundsDistance(dist[v], v, query.sources, query.admit, costs)

\* A key holds its node's present distance and stands for an edge that offers
\* no more than that.
KeyInv ==
    Measuring =>
        \A v \in Vertex :
            \/ key[v] = NoKey /\ (dist[v] = Inf \/ v \in query.sources)
            \/ /\ key[v][1] = dist[v]
               /\ \E e \in Edge : /\ to[e] = v /\ Payload(e) = key[v][2]
                                  /\ Offer(SourceForEdge(e), e) <= dist[v]

\* The queues of a bucket list nodes of this bucket, and threads relax from
\* distances of this bucket: in the heavy kernel, from the final ones.
BucketInv ==
    /\ phase \in {"bucket", "closure"} => \A v \in current.nodes : Bucket(dist[v]) = bucket
    /\ phase \in {"closure", "kernel"} => \A v \in heavy.nodes : Bucket(dist[v]) = bucket
    /\ phase = "kernel" =>
          /\ kernel = "light" => \A v \in next.nodes : Bucket(dist[v]) = bucket
          /\ \A u \in Vertex : pc[u] # "off" => Bucket(dist[u]) = bucket
          /\ \A u \in Vertex : pc[u] = "edge" =>
                /\ dist[u] <= from[u] /\ Bucket(from[u]) = bucket
                /\ kernel = "heavy" => from[u] = dist[u]

\* Relaxing edge e once more would change neither a distance nor a key.
Done(u, e) ==
    to[e] \in query.admit /\ Offer(u, e) < query.limit =>
        /\ dist[to[e]] <= Offer(u, e)
        /\ dist[to[e]] = Offer(u, e) => key[to[e]][1] = dist[to[e]] /\ key[to[e]][2] <= Payload(e)

\* Thread u will still look at edge e, with u's present distance.
Ahead(u, e) == pc[u] = "load" \/ (pc[u] = "edge" /\ from[u] = dist[u] /\ epos[u] <= e)

LightDone(u) == \A e \in OutEdges(u) : IsLight(e, Offer(u, e)) => Done(u, e)

\* What is left of the bucket being closed at node u.
BucketWork(u) ==
    /\ phase = "bucket" => u \in current.nodes
    /\ phase = "closure" => u \in current.nodes \/ (LightDone(u) /\ (AllLight \/ u \in heavy.nodes))
    /\ phase = "kernel" /\ kernel = "light" =>
          \/ u \in next.nodes
          \/ /\ \A e \in OutEdges(u) : IsLight(e, Offer(u, e)) => Done(u, e) \/ Ahead(u, e)
             /\ AllLight \/ u \in heavy.nodes \/ pc[u] = "load"
    /\ phase = "kernel" /\ kernel = "heavy" =>
          LightDone(u) /\ \A e \in OutEdges(u) : Done(u, e) \/ Ahead(u, e)
    /\ phase = "settle" => \A e \in OutEdges(u) : Done(u, e)

\* Nothing is left to do below the bucket, what is left in it is queued or still
\* ahead of a thread, and whatever lies beyond it is pending.
WorkInv ==
    Looping =>
        \A u \in Vertex :
            /\ Bucket(dist[u]) < bucket => \A e \in OutEdges(u) : Done(u, e)
            /\ Bucket(dist[u]) = bucket => BucketWork(u)
            /\ dist[u] # Inf /\ bucket < Bucket(dist[u]) => u \in inPending

\* Distances below M are final.
Horizon(M) == /\ M <= query.limit
              /\ \A u \in Vertex : dist[u] < M => \A e \in OutEdges(u) : Done(u, e)

\* The settled targets are those of closed buckets; when the loop is left they,
\* and whatever the reason for leaving covers, are final.
TargetInv ==
    /\ Looping =>
          /\ \A t \in query.targets : Bucket(dist[t]) < bucket => t \in settled
          /\ \A t \in settled : t \in query.targets /\ (Bucket(dist[t]) < bucket \/ dist[t] = 0)
          /\ stop \in {"none", "target"} /\ (stop = "target" => query.targets \subseteq settled)
    /\ phase = "extract" =>
          /\ \A t \in settled : t \in query.targets /\ Horizon(dist[t])
          /\ stop = "target" => query.targets \subseteq settled
          /\ stop = "converged" => Horizon(Inf)
          /\ stop = "limit" => /\ Horizon(query.limit)
                               /\ \A t \in query.targets \ settled : query.limit <= dist[t]

\* What the caller will be given.
Answer ==
    /\ result \in [certified : BOOLEAN, dist : [query.targets -> Cost]]
    /\ \A t \in query.targets :
          LET d == result.dist[t] IN
          /\ result.certified \/ d # Inf => IsDistance(d, t, query.sources, query.admit, costs)
          /\ stop = "limit" /\ d = Inf
             => \E f \in [Vertex -> Cost] :
                   Feasible(f, query.sources, query.admit, costs) /\ f[t] >= query.limit

ResultInv == phase = "done" \/ (phase = "reset" /\ stop # "threw") => Answer

-----------------------------------------------------------------------------
(* Costs, buckets and single steps. *)

\* What an edge offers now is a cost no smaller than its source's distance.
LEMMA OfferFacts ==
  ASSUME TypeOK, NEW u \in Vertex, NEW e \in Edge
  PROVE  /\ dist[u] \in Cost /\ dist[u] \in Nat /\ to[e] \in Vertex
         /\ Weight(e) \in Nat /\ Payload(e) \in Nat
         /\ Offer(u, e) \in Cost /\ Offer(u, e) \in Nat /\ dist[u] <= Offer(u, e)
  <1>1. costs \in [Vertex -> Nat] /\ dist[u] \in Cost
    BY DeltaAssumption DEF TypeOK
  <1>2. Weight(e) \in Nat
    BY <1>1, WeightType, CostEnds DEF Weight
  <1>3. Payload(e) \in Nat
    BY SourceIsVertex DEF Payload, Edge, Vertex
  <1> QED BY <1>1, <1>2, <1>3, SaturateSum, CostEnds, GraphTypes DEF Offer

\* A relaxation offers its edge's end the candidate of its thread.
LEMMA RelaxFacts ==
  ASSUME TypeInv, NEW u \in Vertex, RelaxEdge(u)
  PROVE  /\ pc[u] = "edge" /\ from[u] # Inf /\ from[u] \in Cost /\ epos[u] < rowptr[u + 1]
         /\ epos[u] \in OutEdges(u) /\ epos[u] \in Edge /\ SourceForEdge(epos[u]) = u
         /\ Weight(epos[u]) \in Nat /\ Payload(epos[u]) \in Nat
         /\ Candidate(u) = Saturate(from[u] + Weight(epos[u]))
         /\ Candidate(u) \in Cost /\ Candidate(u) \in Nat /\ from[u] <= Candidate(u)
         /\ Candidate(u) < query.limit /\ Candidate(u) # Inf /\ query.limit \in Nat
         /\ Bucket(from[u]) <= Bucket(Candidate(u)) /\ Bucket(Candidate(u)) < NoBucket
         /\ Bucket(Candidate(u)) \in Nat /\ Bucket(from[u]) \in Nat
         /\ to[epos[u]] \in Vertex /\ to[epos[u]] \in query.admit
         /\ UNCHANGED <<costs, hasCosts, query, phase, bucket, settled, stop, result, current, heavy, kernel, pc, from>>
  <1>1. /\ pc[u] = "edge" /\ from[u] # Inf /\ epos[u] < rowptr[u + 1] /\ Eligible(u)
        /\ UNCHANGED <<costs, hasCosts, host, current, heavy, kernel, pc, from>>
    BY DEF RelaxEdge
  <1>2. /\ epos[u] \in OutEdges(u) /\ epos[u] \in Edge /\ to[epos[u]] \in Vertex
        /\ SourceForEdge(epos[u]) = u /\ Candidate(u) \in Cost /\ Payload(epos[u]) \in Nat
    BY <1>1, CursorEdge
  <1>3. from[u] \in Cost /\ Weight(epos[u]) \in Nat
    BY <1>2, OfferFacts DEF TypeInv, TypeOK
  <1>4. Candidate(u) = Saturate(from[u] + Weight(epos[u])) /\ from[u] <= Candidate(u)
    BY <1>3, SaturateSum DEF Candidate
  <1>5. /\ Candidate(u) < query.limit /\ query.limit \in Cost /\ query.limit \in Nat /\ query.limit <= Inf
        /\ Candidate(u) \in Nat
    BY <1>1, <1>2, QueryTypes, CostEnds DEF Eligible, TypeInv, TypeOK
  <1>6. Candidate(u) # Inf
    BY <1>5, GraphTypes
  <1>7. Bucket(from[u]) <= Bucket(Candidate(u)) /\ Bucket(Candidate(u)) < NoBucket
        /\ Bucket(Candidate(u)) \in Nat /\ Bucket(from[u]) \in Nat
    BY <1>2, <1>3, <1>4, <1>6, BucketMonotone, BucketRange
  <1>8. to[epos[u]] \in query.admit
    BY <1>1 DEF Eligible
  <1> QED BY <1>1, <1>2, <1>3, <1>4, <1>5, <1>6, <1>7, <1>8 DEF host

\* What the relaxation writes, told by cases.
LEMMA RelaxWrites ==
  ASSUME TypeInv, NEW u \in Vertex, RelaxEdge(u)
  PROVE  LET v == to[epos[u]]
             c == Candidate(u)
         IN /\ \A w \in Vertex : w # v => dist'[w] = dist[w] /\ key'[w] = key[w]
            /\ c < dist[v] => dist'[v] = c
            /\ ~(c < dist[v]) => dist'[v] = dist[v]
            /\ c <= dist[v] /\ KeyLess(<<c, Payload(epos[u])>>, key[v]) => key'[v] = <<c, Payload(epos[u])>>
            /\ ~(c <= dist[v] /\ KeyLess(<<c, Payload(epos[u])>>, key[v])) => key'[v] = key[v]
            /\ epos' = [epos EXCEPT ![u] = @ + 1]
            /\ next.nodes \subseteq next'.nodes /\ next'.nodes \subseteq next.nodes \cup {v}
            /\ inPending \subseteq inPending'
            /\ v \in next'.nodes /\ v \notin next.nodes => c < dist[v] /\ Bucket(c) = bucket
            /\ c < dist[v] /\ Bucket(c) = bucket /\ Unclaimed(v) => v \in next'.nodes
            /\ c < dist[v] /\ Bucket(c) > bucket => v \in inPending'
  <1> DEFINE v == to[epos[u]]
             c == Candidate(u)
             k == <<c, Payload(epos[u])>>
             same  == c < dist[v] /\ Bucket(c) = bucket /\ Unclaimed(v)
             later == c < dist[v] /\ Bucket(c) > bucket /\ v \notin inPending
  <1>1. v \in Vertex /\ dist \in [Vertex -> Cost] /\ key \in [Vertex -> Cost \X Nat]
    BY RelaxFacts DEF TypeInv, TypeOK
  <1>2. /\ dist' = [dist EXCEPT ![v] = Min2(@, c)]
        /\ key' = [key EXCEPT ![v] = IF c <= dist[v] /\ KeyLess(k, @) THEN k ELSE @]
        /\ next' = IF same THEN Push(next, v) ELSE next
        /\ inPending' = IF later THEN inPending \cup {v} ELSE inPending
        /\ epos' = [epos EXCEPT ![u] = @ + 1]
    BY DEF RelaxEdge, PublishesParent
  <1>3. Push(next, v).nodes = next.nodes \cup {v}
    BY DEF Push
  <1>4. dist[v] \in Nat /\ c \in Nat
    BY <1>1, RelaxFacts, CostEnds
  <1> HIDE DEF v, c, k
  <1>5. /\ \A w \in Vertex : w # v => dist'[w] = dist[w] /\ key'[w] = key[w]
        /\ c < dist[v] => dist'[v] = c
        /\ ~(c < dist[v]) => dist'[v] = dist[v]
    BY <1>1, <1>2, <1>4 DEF Min2
  <1>6. /\ c <= dist[v] /\ KeyLess(k, key[v]) => key'[v] = k
        /\ ~(c <= dist[v] /\ KeyLess(k, key[v])) => key'[v] = key[v]
    BY <1>1, <1>2
  <1>7. /\ next.nodes \subseteq next'.nodes /\ next'.nodes \subseteq next.nodes \cup {v}
        /\ inPending \subseteq inPending'
        /\ v \in next'.nodes /\ v \notin next.nodes => c < dist[v] /\ Bucket(c) = bucket
        /\ c < dist[v] /\ Bucket(c) = bucket /\ Unclaimed(v) => v \in next'.nodes
        /\ c < dist[v] /\ Bucket(c) > bucket => v \in inPending'
    BY <1>2, <1>3
  <1> QED BY <1>2, <1>5, <1>6, <1>7 DEF v, c, k

\* A relaxation of the heavy kernel takes a node to a later bucket: as long as it
\* runs, a bucket that waits keeps company, and an append makes one wait.
LEMMA SuccessorsStay ==
  ASSUME WorkspaceInv, NEW u \in Vertex, Kernel(u), kernel = "heavy"
  PROVE  /\ Successors # {} => Successors' # {}
         /\ pending'.count # pending.count => Successors' # {}
  <1>0. TypeInv
    BY DEF WorkspaceInv
  <1>1. CASE LoadLabel(u) \/ SkipEdge(u) \/ FinishThread(u)
    <2>1. UNCHANGED <<dist, inPending, pending, bucket>>
      BY <1>1 DEF LoadLabel, SkipEdge, FinishThread, arrays, host, queues
    <2> QED BY <2>1 DEF Successors
  <1>2. CASE RelaxEdge(u)
    <2> DEFINE v == to[epos[u]]
               c == Candidate(u)
               later == c < dist[v] /\ Bucket(c) > bucket /\ v \notin inPending
    <2>1. /\ Bucket(c) \in Nat /\ Bucket(c) < NoBucket /\ bucket' = bucket
          /\ \A w : dist'[w] = dist[w] \/ (w = v /\ c < dist[v] /\ dist'[w] = c) \/ w \notin Vertex
      <3>1. \A w \in Vertex : dist'[w] = dist[w] \/ (w = v /\ c < dist[v] /\ dist'[w] = c)
        BY <1>0, <1>2, RelaxWrites
      <3> QED BY <1>0, <1>2, <3>1, RelaxFacts
    <2>2. Bucket(c) > bucket
      BY <1>2 DEF RelaxEdge, Eligible, IsHeavy
    <2>3. /\ inPending' = IF later THEN inPending \cup {v} ELSE inPending
          /\ pending' = IF later THEN Push(pending, v) ELSE pending
      BY <1>2 DEF RelaxEdge
    <2>4. pending.nodes \in SUBSET Vertex
      BY <1>0 DEF TypeInv, TypeOK, Queue
    <2>5. v \in Vertex /\ (c < dist[v] => dist'[v] = c)
      BY <1>0, <1>2, RelaxFacts, RelaxWrites
    <2> HIDE DEF v, c
    <2>6. \A w \in pending'.nodes \cap inPending' : dist'[w] = c => Bucket(c) \in Successors'
      BY <2>1, <2>2 DEF Successors
    <2>7. ASSUME later PROVE Successors' # {}
      <3>1. v \in pending'.nodes \cap inPending' /\ dist'[v] = c
        BY <2>3, <2>5, <2>7 DEF Push
      <3> QED BY <2>6, <3>1
    <2>8. ASSUME ~later, Successors # {} PROVE Successors' # {}
      <3>1. pending' = pending /\ inPending' = inPending
        BY <2>3, <2>8
      <3>2. PICK w \in pending.nodes \cap inPending : bucket < Bucket(dist[w]) /\ Bucket(dist[w]) < NoBucket
        BY <2>8 DEF Successors
      <3>3. CASE dist'[w] = dist[w]
        BY <2>1, <3>1, <3>2, <3>3 DEF Successors
      <3>4. CASE dist'[w] = c
        BY <2>6, <3>1, <3>2, <3>4
      <3> QED BY <2>1, <2>4, <3>2, <3>3, <3>4
    <2> QED BY <2>3, <2>7, <2>8
  <1> QED BY <1>1, <1>2 DEF Kernel

-----------------------------------------------------------------------------
(* What a step may do to the query under way and to the distances. *)

\* While a query is measured its terms and costs do not change.
LEMMA QueryFrozen ==
  ASSUME [Next]_vars, Measuring', ~Begin
  PROVE  Measuring /\ UNCHANGED <<costs, hasCosts, query>>
  <1>1. CASE UpdateCosts \/ CallbackThrows \/ Return
    BY <1>1 DEF UpdateCosts, CallbackThrows, Return, Measuring, Looping, host
  <1>2. CASE StartBucket \/ LeaveLoop \/ StartLight \/ StartHeavy \/ SkipHeavyPhase \/ EndKernel
    BY <1>2 DEF StartBucket, LeaveLoop, StartLight, StartHeavy, SkipHeavyPhase, EndKernel, Launch, Measuring, Looping
  <1>3. CASE StopAfterBucket \/ AdvanceBucket \/ Extract \/ Reset
    BY <1>3 DEF StopAfterBucket, AdvanceBucket, Extract, Reset, Measuring, Looping
  <1>4. ASSUME NEW u \in Vertex, Kernel(u) PROVE Measuring /\ UNCHANGED <<costs, hasCosts, query>>
    BY <1>4 DEF Kernel, LoadLabel, SkipEdge, RelaxEdge, FinishThread, host, Measuring, Looping
  <1>5. CASE UNCHANGED vars
    BY <1>5 DEF vars, host, Measuring, Looping
  <1> QED BY <1>1, <1>2, <1>3, <1>4, <1>5 DEF Next, Work

\* Only a relaxation changes distances and keys.
LEMMA DistFrame ==
  ASSUME [Next]_vars, Measuring', ~Begin, \A u \in Vertex : ~(Kernel(u) /\ RelaxEdge(u))
  PROVE  UNCHANGED <<dist, key>>
  <1>1. CASE UpdateCosts \/ CallbackThrows \/ Return
    BY <1>1 DEF UpdateCosts, CallbackThrows, Return, arrays
  <1>2. CASE StartBucket \/ LeaveLoop \/ StartLight \/ StartHeavy \/ SkipHeavyPhase \/ EndKernel
    BY <1>2 DEF StartBucket, LeaveLoop, StartLight, StartHeavy, SkipHeavyPhase, EndKernel, arrays
  <1>3. CASE StopAfterBucket \/ AdvanceBucket \/ Extract \/ Reset
    BY <1>3 DEF StopAfterBucket, AdvanceBucket, Extract, Reset, Measuring, Looping, arrays
  <1>4. ASSUME NEW u \in Vertex, Kernel(u) PROVE UNCHANGED <<dist, key>>
    BY <1>4 DEF Kernel, LoadLabel, SkipEdge, FinishThread, arrays
  <1>5. CASE UNCHANGED vars
    BY <1>5 DEF vars, arrays
  <1> QED BY <1>1, <1>2, <1>3, <1>4, <1>5 DEF Next, Work

\* What a query starts from.
LEMMA BeginFacts ==
  ASSUME TypeInv, QueueInv, Begin
  PROVE  /\ phase' = "bucket" /\ bucket' = 0 /\ query' \in Queries
         /\ \A v \in Vertex : dist'[v] = (IF v \in query'.sources THEN 0 ELSE Inf) /\ key'[v] = NoKey
         /\ current'.nodes = query'.sources
         /\ settled' \subseteq query'.targets \cap query'.sources
         /\ stop' \in {"none", "target"} /\ (stop' = "target" => query'.targets \subseteq settled')
  <1>1. PICK r \in Queries : Begin!(r)
    BY DEF Begin
  <1>2. \A v \in Vertex : dist[v] = Inf /\ key[v] = NoKey
    BY <1>1 DEF QueueInv, TouchedInv, Busy
  <1> QED BY <1>1, <1>2 DEF QueueOf, TypeInv, TypeOK

-----------------------------------------------------------------------------
(* The queues and threads of a bucket stay inside it. *)

\* A relaxation lowers distances only, never below the bucket being closed; the
\* heavy kernel leaves the bucket's own distances alone.
LEMMA RelaxInBucket ==
  ASSUME TypeInv, BucketInv, phase = "kernel", kernel \in {"light", "heavy"}, NEW u \in Vertex, RelaxEdge(u),
         NEW w \in Vertex
  PROVE  /\ dist'[w] \in Cost /\ dist[w] \in Cost /\ dist'[w] \in Nat /\ dist[w] \in Nat /\ dist'[w] <= dist[w]
         /\ bucket <= Bucket(Candidate(u))
         /\ Bucket(dist[w]) = bucket => Bucket(dist'[w]) = bucket
         /\ kernel = "heavy" /\ Bucket(dist[w]) = bucket => dist'[w] = dist[w]
         /\ Bucket(dist[w]) < bucket => dist'[w] = dist[w]
         /\ Bucket(dist'[w]) \in Nat /\ Bucket(dist[w]) \in Nat /\ Bucket(dist'[w]) <= Bucket(dist[w])
         /\ bucket \in Nat
  <1> DEFINE v == to[epos[u]]
             c == Candidate(u)
  <1>1. /\ c \in Cost /\ c \in Nat /\ Bucket(from[u]) <= Bucket(c) /\ Bucket(c) \in Nat /\ Bucket(from[u]) \in Nat
        /\ pc[u] = "edge"
    BY RelaxFacts
  <1>2. /\ w # v => dist'[w] = dist[w]
        /\ w = v /\ c < dist[w] => dist'[w] = c
        /\ w = v /\ ~(c < dist[w]) => dist'[w] = dist[w]
    BY RelaxWrites
  <1>3. dist[w] \in Cost /\ dist[w] \in Nat /\ bucket \in Nat
    BY CostEnds, DeltaAssumption DEF TypeInv, TypeOK
  <1>4. bucket <= Bucket(c)
    BY <1>1, <1>3 DEF BucketInv
  <1>5. kernel = "heavy" => bucket < Bucket(c)
    BY <1>1 DEF RelaxEdge, Eligible, IsHeavy
  <1> HIDE DEF v, c
  <1>6. dist'[w] \in Cost /\ dist'[w] \in Nat /\ dist'[w] <= dist[w]
    BY <1>1, <1>2, <1>3
  <1>7. Bucket(dist'[w]) <= Bucket(dist[w]) /\ Bucket(dist'[w]) \in Nat /\ Bucket(dist[w]) \in Nat
    BY <1>3, <1>6, BucketMonotone
  <1>8. dist'[w] # dist[w] => dist'[w] = c
    BY <1>2
  <1> QED BY <1>1, <1>3, <1>4, <1>5, <1>6, <1>7, <1>8 DEF c

\* No step of a relaxing thread takes a node queued for a bucket, or the
\* distance a thread relaxes from, out of that bucket.
LEMMA BucketKernel ==
  ASSUME WorkspaceInv, BucketInv, NEW u \in Vertex, Kernel(u)
  PROVE  BucketInv'
  <1>0. /\ TypeInv /\ phase = "kernel" /\ phase' = "kernel" /\ kernel' = kernel /\ bucket' = bucket
        /\ kernel \in {"light", "heavy"}
    BY DEF Kernel, LoadLabel, SkipEdge, RelaxEdge, FinishThread, host, WorkspaceInv, QueueInv, HeavyInv
  <1>1. dist \in [Vertex -> Cost] /\ from \in [Vertex -> Cost] /\ bucket \in Nat /\ bucket < NoBucket
        /\ pc \in [Vertex -> {"off", "load", "edge"}] /\ heavy.nodes \subseteq Vertex /\ next.nodes \subseteq Vertex
    BY <1>0, DeltaAssumption DEF TypeInv, TypeOK, Queue
  <1>2. CASE LoadLabel(u)
    <2>1. pc[u] = "load" /\ Bucket(dist[u]) = bucket
      BY <1>0, <1>2 DEF LoadLabel, BucketInv
    <2>2. dist[u] # Inf
      BY <1>1, <2>1, BucketRange
    <2>3. /\ from' = [from EXCEPT ![u] = dist[u]] /\ pc' = [pc EXCEPT ![u] = "edge"]
          /\ heavy' \in {heavy, Push(heavy, u)} /\ UNCHANGED <<dist, next>>
      BY <1>0, <1>2, <2>1, <2>2 DEF LoadLabel
    <2>4. \A v \in heavy'.nodes : Bucket(dist[v]) = bucket
      BY <1>0, <2>1, <2>3 DEF BucketInv, Push
    <2>5. dist[u] <= dist[u]
      BY <1>1, CostEnds
    <2> QED BY <1>0, <1>1, <2>1, <2>3, <2>4, <2>5 DEF BucketInv
  <1>3. CASE SkipEdge(u)
    BY <1>0, <1>3 DEF SkipEdge, BucketInv, arrays, host, queues
  <1>4. CASE RelaxEdge(u)
    <2>1. UNCHANGED <<pc, from, heavy>>
      BY <1>4 DEF RelaxEdge
    <2>2. \A w \in Vertex : /\ Bucket(dist[w]) = bucket => Bucket(dist'[w]) = bucket
                            /\ kernel = "heavy" /\ Bucket(dist[w]) = bucket => dist'[w] = dist[w]
                            /\ dist'[w] <= dist[w] /\ dist'[w] \in Nat /\ dist[w] \in Nat
      BY <1>0, <1>4, RelaxInBucket
    <2>3. \A w \in Vertex : from[w] \in Nat
      BY <1>1, CostEnds
    <2>4. ASSUME kernel = "light", NEW w \in next'.nodes
          PROVE  Bucket(dist'[w]) = bucket
      <3>1. CASE w \in next.nodes
        BY <1>0, <1>1, <2>2, <2>4, <3>1 DEF BucketInv
      <3>2. CASE w \notin next.nodes
        BY <1>0, <1>4, <3>2, RelaxFacts, RelaxWrites
      <3> QED BY <3>1, <3>2
    <2> QED BY <1>0, <1>1, <2>1, <2>2, <2>3, <2>4 DEF BucketInv
  <1>5. CASE FinishThread(u)
    BY <1>0, <1>1, <1>5 DEF FinishThread, BucketInv, host, queues
  <1> QED BY <1>2, <1>3, <1>4, <1>5 DEF Kernel

\* Every step keeps queues and threads in the bucket being closed.
LEMMA BucketStep == WorkspaceInv /\ BucketInv /\ [Next]_vars => BucketInv'
  <1> SUFFICES ASSUME WorkspaceInv, BucketInv, [Next]_vars PROVE BucketInv'
    OBVIOUS
  <1>0. TypeInv /\ QueueInv
    BY DEF WorkspaceInv
  <1>1. CASE UpdateCosts \/ CallbackThrows \/ Return
    BY <1>1 DEF UpdateCosts, CallbackThrows, Return, BucketInv, host, arrays, queues, threads
  <1>2. CASE Begin
    <2>1. phase' = "bucket" /\ bucket' = 0 /\ query' \in Queries /\ current'.nodes = query'.sources
          /\ \A v \in Vertex : dist'[v] = (IF v \in query'.sources THEN 0 ELSE Inf)
      BY <1>0, <1>2, BeginFacts
    <2>2. Bucket(0) = 0
      BY CostEnds, GraphTypes, DeltaAssumption DEF Bucket, Min2, Inf
    <2>3. query'.sources \subseteq Vertex
      BY <2>1, QueryTypes
    <2> QED BY <2>1, <2>2, <2>3 DEF BucketInv
  <1>3. CASE StartBucket \/ LeaveLoop \/ StopAfterBucket \/ Extract \/ Reset
    BY <1>3 DEF StartBucket, LeaveLoop, StopAfterBucket, Extract, Reset, EmptyQueue, BucketInv, arrays, queues
  <1>4. CASE StartLight \/ StartHeavy \/ SkipHeavyPhase
    BY <1>4 DEF StartLight, StartHeavy, SkipHeavyPhase, Launch, EmptyQueue, BucketInv, arrays, queues
  <1>5. CASE EndKernel
    BY <1>0, <1>5 DEF EndKernel, BucketInv, QueueInv, HeavyInv, arrays
  <1>6. ASSUME NEW u \in Vertex, Kernel(u) PROVE BucketInv'
    BY <1>6, BucketKernel
  <1>7. CASE AdvanceBucket
    <2>1. \A v \in current'.nodes : Bucket(dist'[v]) = bucket'
      BY <1>7 DEF AdvanceBucket, QueueOf
    <2> QED BY <1>7, <2>1 DEF AdvanceBucket, BucketInv
  <1>8. CASE UNCHANGED vars
    BY <1>8 DEF vars, BucketInv, host, arrays, queues, threads
  <1> QED BY <1>1, <1>2, <1>3, <1>4, <1>5, <1>6, <1>7, <1>8 DEF Next, Work

-----------------------------------------------------------------------------
(* Distances bound the true ones from above. *)

\* A bucket is only started below the limit.
LEMMA LimitPositive ==
  ASSUME TypeInv, ReachInv, [Next]_vars, Measuring', ~Begin, phase' \in {"closure", "kernel", "settle"}
  PROVE  query'.limit # 0
  <1>1. Measuring /\ query' = query
    BY QueryFrozen
  <1>2. CASE StartBucket
    <2>1. ASSUME query.limit = 0 PROVE FALSE
      <3>1. Limited /\ LastAllowed = -1
        BY <2>1, GraphTypes DEF Limited, LastAllowed, Inf
      <3>2. bucket <= -1
        BY <1>2, <3>1 DEF StartBucket
      <3> QED BY <3>2, DeltaAssumption DEF TypeInv, TypeOK
    <2> QED BY <1>1, <2>1
  <1>3. CASE phase \in {"closure", "kernel", "settle"}
    BY <1>1, <1>3 DEF ReachInv
  <1>4. ASSUME ~StartBucket PROVE phase \in {"closure", "kernel", "settle"}
    <2>1. CASE UpdateCosts \/ CallbackThrows \/ Return \/ LeaveLoop \/ StopAfterBucket \/ AdvanceBucket \/ Extract \/ Reset
      BY <2>1 DEF UpdateCosts, CallbackThrows, Return, LeaveLoop, StopAfterBucket, AdvanceBucket, Extract, Reset, host
    <2>2. CASE StartLight \/ StartHeavy \/ SkipHeavyPhase \/ EndKernel \/ UNCHANGED vars
      BY <2>2 DEF StartLight, StartHeavy, SkipHeavyPhase, EndKernel, vars, host
    <2>3. ASSUME NEW u \in Vertex, Kernel(u) PROVE phase = "kernel"
      BY <2>3 DEF Kernel
    <2> QED BY <1>4, <2>1, <2>2, <2>3 DEF Next, Work
  <1> QED BY <1>2, <1>3, <1>4

\* The sources' zeros are what a query begins with.
LEMMA ReachBegin ==
  ASSUME TypeInv, QueueInv, Begin
  PROVE  ReachInv'
  <1>1. /\ phase' = "bucket" /\ query' \in Queries
        /\ \A v \in Vertex : dist'[v] = (IF v \in query'.sources THEN 0 ELSE Inf)
    BY BeginFacts
  <1>2. query'.sources \subseteq Vertex /\ query'.sources \subseteq query'.admit
    BY <1>1, QueryTypes, DeltaAssumption
  <1>3. ASSUME NEW v \in Vertex, NEW f \in [Vertex -> Cost], NEW A, NEW d, Feasible(f, query'.sources, A, d)
        PROVE  f[v] <= dist'[v]
    <2>1. CASE v \in query'.sources
      <3>1. f[v] = 0 /\ dist'[v] = 0
        BY <1>1, <1>3, <2>1 DEF Feasible
      <3> QED BY <3>1
    <2>2. CASE v \notin query'.sources
      BY <1>1, <2>2, CostEnds
    <2> QED BY <2>1, <2>2
  <1> QED BY <1>1, <1>2, <1>3 DEF ReachInv, BoundsDistance

\* A relaxation from a distance the thread's node has or had cannot go below
\* what any feasible potential allows.
LEMMA ReachRelax ==
  ASSUME WorkspaceInv, BucketInv, ReachInv, NEW u \in Vertex, Kernel(u), RelaxEdge(u)
  PROVE  ReachInv'
  <1> DEFINE v == to[epos[u]]
             c == Candidate(u)
  <1>0. TypeInv /\ phase = "kernel" /\ kernel \in {"light", "heavy"} /\ Measuring
    BY DEF WorkspaceInv, QueueInv, HeavyInv, Kernel, Measuring, Looping
  <1>1. /\ v \in Vertex /\ v \in query.admit /\ epos[u] \in OutEdges(u) /\ pc[u] = "edge"
        /\ c = Saturate(from[u] + Weight(epos[u])) /\ Weight(epos[u]) \in Nat /\ from[u] \in Cost
        /\ c \in Nat /\ c < query.limit /\ query.limit \in Nat
        /\ UNCHANGED <<costs, query, phase>>
    BY <1>0, RelaxFacts
  <1>2. /\ \A w \in Vertex : w # v => dist'[w] = dist[w]
        /\ c < dist[v] => dist'[v] = c
        /\ ~(c < dist[v]) => dist'[v] = dist[v]
    BY <1>0, RelaxWrites
  <1>3. dist[u] <= from[u] /\ \A w \in Vertex : dist[w] \in Cost /\ dist[w] \in Nat
    BY <1>0, <1>1, CostEnds DEF BucketInv, TypeInv, TypeOK
  <1>4. query.sources \subseteq Vertex
    BY <1>0, QueryTypes DEF TypeInv, TypeOK
  <1> HIDE DEF v, c
  <1>5. ASSUME NEW s \in query.sources PROVE dist'[s] = 0
    <2>1. dist[s] = 0 /\ s \in Vertex
      BY <1>0, <1>4 DEF ReachInv
    <2> QED BY <1>1, <1>2, <2>1
  <1>6. ASSUME NEW w \in Vertex, dist'[w] # Inf
        PROVE  w \in query.admit /\ (dist'[w] < query.limit \/ dist'[w] = 0)
    BY <1>0, <1>1, <1>2, <1>6 DEF ReachInv
  <1>7. ASSUME NEW w \in Vertex, NEW f \in [Vertex -> Cost], Feasible(f, query.sources, query.admit, costs)
        PROVE  f[w] <= dist'[w]
    <2>0. \A x \in Vertex : f[x] <= dist[x] /\ f[x] \in Cost /\ f[x] \in Nat
      BY <1>0, <1>7, CostEnds DEF ReachInv, BoundsDistance
    <2>1. CASE dist'[w] = dist[w]
      BY <2>0, <2>1
    <2>2. CASE dist'[w] # dist[w]
      <3>1. w = v /\ dist'[w] = c /\ v \notin query.sources
        BY <1>0, <1>1, <1>2, <2>2 DEF ReachInv
      <3>2. f[v] <= Saturate(f[u] + Weight(epos[u]))
        BY <1>1, <1>7, <3>1 DEF Feasible, Relaxable, Weight, v
      <3>3. f[u] <= from[u]
        BY <1>1, <1>3, <2>0, CostEnds
      <3>4. Saturate(f[u] + Weight(epos[u])) <= c /\ Saturate(f[u] + Weight(epos[u])) \in Nat
        BY <1>1, <2>0, <3>3, SaturateSum, CostEnds
      <3> QED BY <1>1, <2>0, <3>1, <3>2, <3>4
    <2> QED BY <2>1, <2>2
  <1> QED BY <1>0, <1>1, <1>5, <1>6, <1>7 DEF ReachInv, BoundsDistance

\* Every step keeps distances above the feasible potentials and below the
\* limit.
LEMMA ReachStep == WorkspaceInv /\ BucketInv /\ ReachInv /\ [Next]_vars => ReachInv'
  <1> SUFFICES ASSUME WorkspaceInv, BucketInv, ReachInv, [Next]_vars, Measuring' PROVE ReachInv'
    BY DEF ReachInv
  <1>0. TypeInv /\ QueueInv
    BY DEF WorkspaceInv
  <1>1. CASE Begin
    BY <1>0, <1>1, ReachBegin
  <1>2. ASSUME NEW u \in Vertex, Kernel(u), RelaxEdge(u) PROVE ReachInv'
    BY <1>2, ReachRelax
  <1>3. CASE ~Begin /\ \A u \in Vertex : ~(Kernel(u) /\ RelaxEdge(u))
    <2>1. Measuring /\ UNCHANGED <<costs, query, dist>>
      BY <1>3, QueryFrozen, DistFrame
    <2>2. phase' \in {"closure", "kernel", "settle"} => query'.limit # 0
      BY <1>0, <1>3, LimitPositive
    <2> QED BY <2>1, <2>2 DEF ReachInv
  <1> QED BY <1>1, <1>2, <1>3

-----------------------------------------------------------------------------
(* Parent keys explain the distances. *)

LEMMA KeyRelax ==
  ASSUME WorkspaceInv, BucketInv, KeyInv, NEW u \in Vertex, Kernel(u), RelaxEdge(u)
  PROVE  KeyInv'
  <1> DEFINE v == to[epos[u]]
             c == Candidate(u)
             p == Payload(epos[u])
             NewOffer(x, e) == Saturate(dist'[x] + Weight(e))
  <1>0. TypeInv /\ phase = "kernel" /\ kernel \in {"light", "heavy"} /\ Measuring
    BY DEF WorkspaceInv, QueueInv, HeavyInv, Kernel, Measuring, Looping
  <1>1. /\ v \in Vertex /\ epos[u] \in Edge /\ SourceForEdge(epos[u]) = u /\ pc[u] = "edge"
        /\ c = Saturate(from[u] + Weight(epos[u])) /\ Weight(epos[u]) \in Nat /\ from[u] \in Cost
        /\ c \in Nat /\ c # Inf /\ p \in Nat
        /\ UNCHANGED <<costs, query, phase>>
    BY <1>0, RelaxFacts
  <1>2. /\ \A w \in Vertex : w # v => dist'[w] = dist[w] /\ key'[w] = key[w]
        /\ c < dist[v] => dist'[v] = c
        /\ ~(c < dist[v]) => dist'[v] = dist[v]
        /\ c <= dist[v] /\ KeyLess(<<c, p>>, key[v]) => key'[v] = <<c, p>>
        /\ ~(c <= dist[v] /\ KeyLess(<<c, p>>, key[v])) => key'[v] = key[v]
    BY <1>0, RelaxWrites
  <1>3. \A w \in Vertex : /\ dist'[w] <= dist[w] /\ dist'[w] \in Cost /\ dist[w] \in Cost
                          /\ dist'[w] \in Nat /\ dist[w] \in Nat
    BY <1>0, RelaxInBucket
  <1>4. dist[u] <= from[u] /\ from[u] \in Nat
    BY <1>0, <1>1, CostEnds DEF BucketInv
  <1>5. ASSUME NEW e \in Edge
        PROVE  NewOffer(SourceForEdge(e), e) <= Offer(SourceForEdge(e), e)
               /\ NewOffer(SourceForEdge(e), e) \in Nat /\ Offer(SourceForEdge(e), e) \in Nat
    <2> DEFINE x == SourceForEdge(e)
    <2>1. x \in Vertex /\ Weight(e) \in Nat
      BY <1>0, SourceIsVertex, OfferFacts DEF TypeInv
    <2> HIDE DEF x
    <2>2. dist'[x] \in Cost /\ dist[x] \in Cost /\ dist'[x] <= dist[x]
      BY <1>3, <2>1
    <2>3. NewOffer(x, e) <= Offer(x, e) /\ NewOffer(x, e) \in Cost /\ Offer(x, e) \in Cost
      BY <2>1, <2>2, SaturateSum DEF Offer
    <2> QED BY <2>3, CostEnds DEF x
  <1>6. NewOffer(u, epos[u]) <= c /\ NewOffer(u, epos[u]) \in Nat
    <2>1. dist'[u] <= from[u] /\ dist'[u] \in Cost
      BY <1>3, <1>4
    <2> QED BY <1>1, <2>1, SaturateSum, CostEnds
  <1>7. KeyInv' <=> \A w \in Vertex :
                       \/ key'[w] = NoKey /\ (dist'[w] = Inf \/ w \in query.sources)
                       \/ /\ key'[w][1] = dist'[w]
                          /\ \E e \in Edge : /\ to[e] = w /\ Payload(e) = key'[w][2]
                                             /\ NewOffer(SourceForEdge(e), e) <= dist'[w]
    <2>1. Measuring'
      BY <1>0, <1>1 DEF Measuring, Looping
    <2> QED BY <1>1, <2>1 DEF KeyInv, Offer, Weight, EffectiveWeight
  <1> HIDE DEF v, c, p, NewOffer
  <1>8. ASSUME NEW w \in Vertex
        PROVE  \/ key'[w] = NoKey /\ (dist'[w] = Inf \/ w \in query.sources)
               \/ /\ key'[w][1] = dist'[w]
                  /\ \E e \in Edge : /\ to[e] = w /\ Payload(e) = key'[w][2]
                                     /\ NewOffer(SourceForEdge(e), e) <= dist'[w]
    <2>0. \/ key[w] = NoKey /\ (dist[w] = Inf \/ w \in query.sources)
          \/ /\ key[w][1] = dist[w]
             /\ \E e \in Edge : /\ to[e] = w /\ Payload(e) = key[w][2]
                                /\ Offer(SourceForEdge(e), e) <= dist[w]
      BY <1>0 DEF KeyInv
    <2>1. CASE key'[w] = key[w] /\ dist'[w] = dist[w]
      BY <1>3, <1>5, <2>0, <2>1
    <2>2. CASE w = v /\ c <= dist[v] /\ KeyLess(<<c, p>>, key[v])
      <3>1. key'[w] = <<c, p>> /\ dist'[w] = c
        BY <1>1, <1>2, <1>3, <2>2
      <3>2. key'[w][1] = dist'[w] /\ Payload(epos[u]) = key'[w][2] /\ to[epos[u]] = w
        BY <2>2, <3>1 DEF v, p
      <3> QED BY <1>1, <1>6, <3>1, <3>2
    <2>3. CASE w = v /\ c < dist[v] /\ ~KeyLess(<<c, p>>, key[v])
      <3>1. key[v][1] = dist[v] \/ key[v] = NoKey
        BY <2>0, <2>3
      <3>2. key[v][1] \in Nat /\ c < key[v][1]
        BY <1>1, <1>3, <2>3, <3>1, CostEnds, SaturateType, GraphTypes DEF NoKey
      <3> QED BY <2>3, <3>2 DEF KeyLess
    <2> QED BY <1>1, <1>2, <1>3, <2>1, <2>2, <2>3
  <1> QED BY <1>7, <1>8

\* Every step keeps each parent key an edge that explains its distance.
LEMMA KeyStep == WorkspaceInv /\ BucketInv /\ KeyInv /\ [Next]_vars => KeyInv'
  <1> SUFFICES ASSUME WorkspaceInv, BucketInv, KeyInv, [Next]_vars, Measuring' PROVE KeyInv'
    BY DEF KeyInv
  <1>0. TypeInv /\ QueueInv
    BY DEF WorkspaceInv
  <1>1. CASE Begin
    BY <1>0, <1>1, BeginFacts DEF KeyInv
  <1>2. ASSUME NEW u \in Vertex, Kernel(u), RelaxEdge(u) PROVE KeyInv'
    BY <1>2, KeyRelax
  <1>3. CASE ~Begin /\ \A u \in Vertex : ~(Kernel(u) /\ RelaxEdge(u))
    BY <1>3, QueryFrozen, DistFrame DEF KeyInv, Offer, Weight
  <1> QED BY <1>1, <1>2, <1>3

-----------------------------------------------------------------------------
(* No work is forgotten. *)

\* What is done depends on the distances, the keys and the query only.
LEMMA SameWork ==
  ASSUME UNCHANGED <<dist, key, costs, hasCosts, query>>
  PROVE  /\ \A u, e : Offer(u, e)' = Offer(u, e) /\ (Done(u, e)' <=> Done(u, e))
         /\ bucket' = bucket =>
               /\ AllLight' <=> AllLight
               /\ \A e, c : IsLight(e, c)' <=> IsLight(e, c)
               /\ \A u : LightDone(u)' <=> LightDone(u)
  <1>1. \A u, e : Offer(u, e)' = Offer(u, e)
    BY DEF Offer, Weight
  <1>2. \A u, e : Done(u, e)' <=> Done(u, e)
    BY <1>1 DEF Done
  <1>3. ASSUME bucket' = bucket
        PROVE  (AllLight' <=> AllLight) /\ \A e, c : IsLight(e, c)' <=> IsLight(e, c)
    BY <1>3 DEF AllLight, Terminal, SkipHeavy, IsLight, Weight
  <1>4. ASSUME bucket' = bucket, NEW u
        PROVE  LightDone(u)' <=> LightDone(u)
    <2>1. \A e : IsLight(e, Offer(u, e))' <=> IsLight(e, Offer(u, e))
      BY <1>1, <1>3, <1>4 DEF IsLight, Weight, AllLight, Terminal, SkipHeavy
    <2> QED BY <1>2, <2>1 DEF LightDone
  <1> QED BY <1>1, <1>2, <1>3, <1>4

\* A relaxation of another edge undoes nothing at a node whose distance stays.
LEMMA DoneStays ==
  ASSUME WorkspaceInv, BucketInv, NEW x \in Vertex, Kernel(x), RelaxEdge(x),
         NEW u \in Vertex, NEW e \in OutEdges(u), dist'[u] = dist[u]
  PROVE  /\ Offer(u, e)' = Offer(u, e)
         /\ IsLight(e, Offer(u, e))' <=> IsLight(e, Offer(u, e))
         /\ Done(u, e) => Done(u, e)'
  <1> DEFINE v == to[epos[x]]
             c == Candidate(x)
             p == Payload(epos[x])
             w == to[e]
  <1>0. TypeInv /\ phase = "kernel" /\ kernel \in {"light", "heavy"}
    BY DEF WorkspaceInv, QueueInv, HeavyInv, Kernel
  <1>1. /\ UNCHANGED <<costs, hasCosts, query, bucket>> /\ c \in Nat /\ p \in Nat
    BY <1>0, RelaxFacts
  <1>2. Offer(u, e)' = Offer(u, e)
    BY <1>1 DEF Offer, Weight
  <1>3. IsLight(e, Offer(u, e))' <=> IsLight(e, Offer(u, e))
    BY <1>1, <1>2 DEF IsLight, Weight, AllLight, Terminal, SkipHeavy
  <1>4. e \in Edge /\ w \in Vertex /\ Offer(u, e) \in Nat
    BY <1>0, EdgesOfRow, OfferFacts DEF TypeInv
  <1>5. /\ w # v => dist'[w] = dist[w] /\ key'[w] = key[w]
        /\ c < dist[v] => dist'[v] = c
        /\ ~(c < dist[v]) => dist'[v] = dist[v]
        /\ c <= dist[v] /\ KeyLess(<<c, p>>, key[v]) => key'[v] = <<c, p>>
        /\ ~(c <= dist[v] /\ KeyLess(<<c, p>>, key[v])) => key'[v] = key[v]
    BY <1>0, <1>4, RelaxWrites
  <1>6. /\ dist'[w] <= dist[w] /\ dist'[w] \in Nat /\ dist[w] \in Nat
        /\ key[w][1] \in Nat /\ key[w][2] \in Nat
    BY <1>0, <1>4, RelaxInBucket, CostEnds DEF TypeInv, TypeOK
  <1> HIDE DEF v, c, p
  <1>7. ASSUME Done(u, e) PROVE Done(u, e)'
    <2> SUFFICES ASSUME w \in query.admit, Offer(u, e) < query.limit
                 PROVE  /\ dist'[w] <= Offer(u, e)
                        /\ dist'[w] = Offer(u, e) => key'[w][1] = dist'[w] /\ key'[w][2] <= Payload(e)
      BY <1>1, <1>2 DEF Done, Payload
    <2>1. dist[w] <= Offer(u, e) /\ (dist[w] = Offer(u, e) => key[w][1] = dist[w] /\ key[w][2] <= Payload(e))
      BY <1>7 DEF Done
    <2>2. dist'[w] <= Offer(u, e)
      BY <1>4, <1>6, <2>1
    <2>3. ASSUME dist'[w] = Offer(u, e) PROVE key'[w][1] = dist'[w] /\ key'[w][2] <= Payload(e)
      <3>1. dist'[w] = dist[w] /\ key[w][1] = dist[w] /\ key[w][2] <= Payload(e)
        BY <1>4, <1>6, <2>1, <2>3
      <3>2. CASE key'[w] = key[w]
        BY <3>1, <3>2
      <3>3. CASE key'[w] # key[w]
        <4>1. w = v /\ c <= dist[v] /\ KeyLess(<<c, p>>, key[v]) /\ key'[w] = <<c, p>>
          BY <1>5, <3>3
        <4>2. c = dist[w]
          BY <1>1, <1>5, <1>6, <3>1, <4>1
        <4>3. p < key[w][2]
          BY <1>1, <1>6, <3>1, <4>1, <4>2 DEF KeyLess
        <4>4. Payload(e) \in Nat
          BY <1>0, <1>4, OfferFacts DEF TypeInv
        <4> QED BY <1>1, <1>6, <3>1, <4>1, <4>2, <4>3, <4>4
      <3> QED BY <3>2, <3>3
    <2> QED BY <2>2, <2>3
  <1> QED BY <1>2, <1>3, <1>7

\* A relaxation from the present distance leaves its edge done.
LEMMA DoneAfterRelax ==
  ASSUME WorkspaceInv, BucketInv, KeyInv, NEW x \in Vertex, Kernel(x), RelaxEdge(x),
         from[x] = dist[x], dist'[x] = dist[x]
  PROVE  \A d : d = epos[x] => Done(x, d)'
  <1> DEFINE e == epos[x]
             v == to[e]
             c == Candidate(x)
             p == Payload(e)
  <1>0. TypeInv /\ phase = "kernel" /\ Measuring
    BY DEF WorkspaceInv, Kernel, Measuring, Looping
  <1>1. /\ UNCHANGED <<costs, query>> /\ c \in Nat /\ p \in Nat /\ v \in Vertex /\ c # Inf
        /\ e \in Edge /\ c = Saturate(from[x] + Weight(e))
    BY <1>0, RelaxFacts
  <1>2. ASSUME NEW d, d = e PROVE Offer(x, d)' = c
    BY <1>1, <1>2 DEF Offer, Weight
  <1>3. /\ c < dist[v] => dist'[v] = c
        /\ ~(c < dist[v]) => dist'[v] = dist[v]
        /\ c <= dist[v] /\ KeyLess(<<c, p>>, key[v]) => key'[v] = <<c, p>>
        /\ ~(c <= dist[v] /\ KeyLess(<<c, p>>, key[v])) => key'[v] = key[v]
    BY <1>0, RelaxWrites
  <1>4. dist[v] \in Nat /\ key[v][1] \in Nat /\ key[v][2] \in Nat /\ c <= Inf /\ dist[v] <= Inf
    BY <1>0, <1>1, CostEnds, SaturateType, RelaxFacts DEF TypeInv, TypeOK
  <1>5. key[v][1] = dist[v] \/ key[v] = <<Inf, 0>>
    BY <1>0, <1>1 DEF KeyInv, NoKey
  <1> HIDE DEF v, c, p
  <1>6. dist'[v] <= c
    BY <1>1, <1>3, <1>4
  <1>7. ASSUME dist'[v] = c PROVE key'[v][1] = c /\ key'[v][2] <= p
    <2>1. c <= dist[v]
      BY <1>1, <1>3, <1>4, <1>7
    <2>2. CASE KeyLess(<<c, p>>, key[v])
      BY <1>1, <1>3, <2>1, <2>2
    <2>3. CASE ~KeyLess(<<c, p>>, key[v])
      <3>1. ~(c < key[v][1]) /\ ~(c = key[v][1] /\ p < key[v][2])
        BY <2>3 DEF KeyLess
      <3>2. Inf \in Nat
        BY GraphTypes
      <3>3. key[v] # <<Inf, 0>>
        BY <1>1, <1>4, <3>1, <3>2
      <3> QED BY <1>1, <1>3, <1>4, <1>5, <2>1, <2>3, <3>1, <3>3
    <2> QED BY <2>2, <2>3
  <1>8. ASSUME NEW d, d = e PROVE Done(x, d)'
    <2>1. Offer(x, d)' = c /\ to[d] = v /\ Payload(d) = p
      BY <1>2, <1>8 DEF v, p
    <2> QED BY <1>6, <1>7, <2>1 DEF Done, Payload
  <1> QED BY <1>8

\* A relaxation loses no work: whatever it lowers becomes pending.
LEMMA WorkRelax ==
  ASSUME WorkspaceInv, BucketInv, KeyInv, WorkInv, NEW x \in Vertex, Kernel(x), RelaxEdge(x)
  PROVE  WorkInv'
  <1> DEFINE v == to[epos[x]]
             c == Candidate(x)
  <1>0. TypeInv /\ phase = "kernel" /\ kernel \in {"light", "heavy"} /\ Looping
    BY DEF WorkspaceInv, QueueInv, HeavyInv, Kernel, Looping
  <1>1. /\ UNCHANGED <<costs, hasCosts, query, phase, bucket, kernel, pc, from, heavy>>
        /\ v \in Vertex /\ c \in Cost /\ c # Inf
    BY <1>0, RelaxFacts
  <1>2. /\ \A w \in Vertex : w # v => dist'[w] = dist[w]
        /\ c < dist[v] => dist'[v] = c
        /\ ~(c < dist[v]) => dist'[v] = dist[v]
        /\ epos' = [epos EXCEPT ![x] = @ + 1]
        /\ next.nodes \subseteq next'.nodes /\ inPending \subseteq inPending'
        /\ c < dist[v] /\ Bucket(c) = bucket /\ Unclaimed(v) => v \in next'.nodes
        /\ c < dist[v] /\ Bucket(c) > bucket => v \in inPending'
    BY <1>0, RelaxWrites
  <1>3. \A w \in Vertex : /\ Bucket(dist[w]) < bucket => dist'[w] = dist[w]
                          /\ bucket <= Bucket(c) /\ bucket \in Nat
                          /\ kernel = "heavy" /\ Bucket(dist[w]) = bucket => dist'[w] = dist[w]
                          /\ Bucket(dist'[w]) \in Nat
    BY <1>0, RelaxInBucket
  <1>4. kernel = "heavy" => Bucket(c) > bucket
    BY DEF RelaxEdge, Eligible, IsHeavy
  <1>5. \A w \in Vertex : kernel = "light" /\ ~Unclaimed(w) => w \in next.nodes
    BY <1>0 DEF WorkspaceInv, QueueInv, ClaimInv
  <1>a. AllLight' <=> AllLight
    BY <1>1 DEF AllLight, Terminal, SkipHeavy
  <1>b. epos \in [Vertex -> 0 .. Nnz] /\ Bucket(c) \in Nat
    BY <1>0, <1>1, BucketRange DEF TypeInv, TypeOK
  <1> SUFFICES ASSUME NEW y \in Vertex
               PROVE  /\ Bucket(dist'[y]) < bucket => \A e \in OutEdges(y) : Done(y, e)'
                      /\ Bucket(dist'[y]) = bucket => BucketWork(y)'
                      /\ dist'[y] # Inf /\ bucket < Bucket(dist'[y]) => y \in inPending'
    BY <1>1 DEF WorkInv
  <1>6. CASE dist'[y] # dist[y]
    <2>1. y = v /\ c < dist[v] /\ dist'[y] = c
      BY <1>2, <1>6
    <2>2. ~(Bucket(dist'[y]) < bucket)
      BY <1>1, <1>3, <1>b, <2>1
    <2>3. ASSUME Bucket(dist'[y]) = bucket PROVE BucketWork(y)'
      <3>1. kernel = "light"
        BY <1>0, <1>3, <1>4, <1>b, <2>1, <2>3
      <3>2. y \in next'.nodes
        BY <1>1, <1>2, <1>5, <2>1, <2>3, <3>1
      <3> QED BY <1>0, <1>1, <3>1, <3>2 DEF BucketWork
    <2>4. bucket < Bucket(dist'[y]) => y \in inPending'
      BY <1>2, <1>3, <1>b, <2>1
    <2> QED BY <2>2, <2>3, <2>4
  <1>7. CASE dist'[y] = dist[y]
    <2>1. \A e \in OutEdges(y) : /\ IsLight(e, Offer(y, e))' <=> IsLight(e, Offer(y, e))
                                 /\ Done(y, e) => Done(y, e)'
      BY <1>7, DoneStays
    <2>2. \A e \in OutEdges(y) : Done(y, e) \/ Ahead(y, e) => Done(y, e)' \/ Ahead(y, e)'
      <3> SUFFICES ASSUME NEW e \in OutEdges(y), Ahead(y, e), ~Done(y, e)' PROVE Ahead(y, e)'
        BY <2>1
      <3>1. CASE pc[y] = "load"
        BY <1>1, <3>1 DEF Ahead
      <3>2. CASE pc[y] = "edge" /\ from[y] = dist[y] /\ epos[y] <= e
        <4>1. CASE y # x
          BY <1>1, <1>2, <1>7, <3>2, <4>1 DEF Ahead
        <4>2. CASE y = x
          <5>1. e # epos[x]
            BY <1>7, <3>2, <4>2, DoneAfterRelax
          <5>2. epos[x] \in Int /\ e \in Int /\ epos'[y] = epos[x] + 1
            BY <1>2, <1>b, <4>2, EdgesOfRow, GraphTypes
          <5> QED BY <1>1, <1>7, <3>2, <4>2, <5>1, <5>2 DEF Ahead
        <4> QED BY <4>1, <4>2
      <3> QED BY <3>1, <3>2 DEF Ahead
    <2>3. Bucket(dist[y]) < bucket => \A e \in OutEdges(y) : Done(y, e)'
      BY <1>0, <2>1 DEF WorkInv
    <2>4. ASSUME Bucket(dist[y]) = bucket PROVE BucketWork(y)'
      <3>0. BucketWork(y)
        BY <1>0, <2>4 DEF WorkInv
      <3>1. CASE kernel = "light"
        <4>1. CASE y \in next.nodes
          BY <1>0, <1>1, <1>2, <3>1, <4>1 DEF BucketWork
        <4>2. CASE y \notin next.nodes
          <5>1. /\ \A e \in OutEdges(y) : IsLight(e, Offer(y, e)) => Done(y, e) \/ Ahead(y, e)
                /\ AllLight \/ y \in heavy.nodes \/ pc[y] = "load"
            BY <1>0, <3>0, <3>1, <4>2 DEF BucketWork
          <5>2. \A e \in OutEdges(y) : IsLight(e, Offer(y, e))' => Done(y, e)' \/ Ahead(y, e)'
            BY <2>1, <2>2, <5>1
          <5> QED BY <1>0, <1>1, <1>a, <3>1, <5>1, <5>2 DEF BucketWork
        <4> QED BY <4>1, <4>2
      <3>2. CASE kernel = "heavy"
        <4>1. LightDone(y) /\ \A e \in OutEdges(y) : Done(y, e) \/ Ahead(y, e)
          BY <1>0, <3>0, <3>2 DEF BucketWork
        <4>2. LightDone(y)'
          BY <2>1, <4>1 DEF LightDone
        <4>3. \A e \in OutEdges(y) : Done(y, e)' \/ Ahead(y, e)'
          BY <2>2, <4>1
        <4> QED BY <1>0, <1>1, <3>2, <4>2, <4>3 DEF BucketWork
      <3> QED BY <1>0, <3>1, <3>2
    <2>5. dist[y] # Inf /\ bucket < Bucket(dist[y]) => y \in inPending'
      BY <1>0, <1>2 DEF WorkInv
    <2> QED BY <1>7, <2>3, <2>4, <2>5
  <1> QED BY <1>6, <1>7

\* The steps of a thread that leave distances alone only move its cursor, past
\* an edge that it need not relax or that is done.
LEMMA WorkCursor ==
  ASSUME WorkspaceInv, BucketInv, WorkInv, NEW x \in Vertex, Kernel(x), ~RelaxEdge(x)
  PROVE  WorkInv'
  <1>0. /\ TypeInv /\ phase = "kernel" /\ kernel \in {"light", "heavy"} /\ Looping
        /\ LoadLabel(x) \/ SkipEdge(x) \/ FinishThread(x)
    BY DEF WorkspaceInv, QueueInv, HeavyInv, Kernel, Looping
  <1>1. UNCHANGED <<costs, hasCosts, query, phase, bucket, kernel, dist, key, inPending, next>>
    BY <1>0 DEF LoadLabel, SkipEdge, FinishThread, arrays, host, queues
  <1>2. /\ \A u, e : Offer(u, e)' = Offer(u, e) /\ (Done(u, e)' <=> Done(u, e))
        /\ AllLight' <=> AllLight
        /\ \A u, e : IsLight(e, Offer(u, e))' <=> IsLight(e, Offer(u, e))
        /\ \A u : LightDone(u)' <=> LightDone(u)
    <2>1. /\ \A u, e : Offer(u, e)' = Offer(u, e) /\ (Done(u, e)' <=> Done(u, e))
          /\ AllLight' <=> AllLight
          /\ \A u : LightDone(u)' <=> LightDone(u)
      BY <1>1, SameWork
    <2>2. \A u, e : IsLight(e, Offer(u, e))' <=> IsLight(e, Offer(u, e))
      BY <1>1, <2>1 DEF IsLight, Weight, AllLight, Terminal, SkipHeavy
    <2> QED BY <2>1, <2>2
  <1>3. /\ pc \in [Vertex -> {"off", "load", "edge"}] /\ epos \in [Vertex -> 0 .. Nnz]
        /\ from \in [Vertex -> Cost] /\ bucket \in Nat /\ bucket < NoBucket
        /\ rowptr[x] \in Nat /\ rowptr[x + 1] \in Nat
    BY <1>0, RowBounds, DeltaAssumption DEF TypeInv, TypeOK
  <1>4. \A y \in Vertex : y # x => pc'[y] = pc[y] /\ epos'[y] = epos[y] /\ from'[y] = from[y]
    BY <1>0, <1>3 DEF LoadLabel, SkipEdge, FinishThread
  <1>5. heavy.nodes \subseteq heavy'.nodes
    BY <1>0 DEF LoadLabel, SkipEdge, FinishThread, queues, Push
  <1>6. ASSUME NEW y \in Vertex, Bucket(dist[y]) = bucket, NEW e \in OutEdges(y), Ahead(y, e),
               kernel = "light" => IsLight(e, Offer(y, e)), kernel = "heavy" => LightDone(y)
        PROVE  Done(y, e) \/ Ahead(y, e)'
    <2>0. e \in Edge /\ e \in Nat /\ rowptr[y] <= e /\ e < rowptr[y + 1]
      BY <1>6, EdgesOfRow
    <2>1. CASE y # x
      BY <1>1, <1>4, <1>6, <2>1 DEF Ahead
    <2>2. CASE y = x /\ LoadLabel(x)
      <3>1. dist[x] # Inf
        BY <1>0, <1>3, <1>6, <2>2, BucketRange DEF TypeInv, TypeOK
      <3>2. pc'[x] = "edge" /\ from'[x] = dist[x] /\ epos'[x] = rowptr[x]
        BY <1>0, <1>3, <1>6, <2>2, <3>1 DEF LoadLabel
      <3> QED BY <1>1, <2>0, <2>2, <3>2 DEF Ahead
    <2>3. CASE y = x /\ SkipEdge(x)
      <3>1. pc[x] = "edge" /\ from[x] = dist[x] /\ epos[x] <= e /\ ~Eligible(x)
        BY <1>6, <2>3 DEF Ahead, SkipEdge
      <3>2. CASE epos[x] = e
        <4>1. Candidate(x) = Offer(x, e)
          BY <3>1, <3>2 DEF Candidate, Offer
        <4>2. \/ to[e] \notin query.admit \/ ~(Offer(x, e) < query.limit)
              \/ kernel = "heavy" /\ ~IsHeavy(e, Offer(x, e))
          BY <1>0, <1>6, <2>3, <3>1, <3>2, <4>1 DEF Eligible
        <4>3. ASSUME kernel = "heavy", ~IsHeavy(e, Offer(x, e)) PROVE Done(x, e)
          <5>1. Weight(e) \in Nat /\ Offer(x, e) \in Cost /\ dist[x] \in Cost /\ dist[x] <= Offer(x, e)
            BY <1>0, <2>0, OfferFacts DEF TypeInv
          <5>2. bucket <= Bucket(Offer(x, e)) /\ Bucket(Offer(x, e)) \in Nat
            BY <1>6, <2>3, <5>1, BucketMonotone
          <5>3. IsLight(e, Offer(x, e))
            BY <1>3, <4>3, <5>1, <5>2, DeltaAssumption DEF IsHeavy, IsLight
          <5> QED BY <1>6, <2>3, <4>3, <5>3 DEF LightDone
        <4> QED BY <2>3, <4>2, <4>3 DEF Done
      <3>3. CASE epos[x] # e
        <4>1. pc'[x] = "edge" /\ from'[x] = from[x] /\ epos'[x] = epos[x] + 1
          BY <1>3, <2>3, <3>1 DEF SkipEdge
        <4>2. epos[x] \in Int /\ e \in Int
          BY <1>3, <2>0, GraphTypes
        <4> QED BY <1>1, <2>3, <3>1, <3>3, <4>1, <4>2 DEF Ahead
      <3> QED BY <3>2, <3>3
    <2>4. CASE y = x /\ FinishThread(x)
      <3>1. pc[x] = "edge" /\ epos[x] <= e /\ Bucket(from[x]) = bucket
        BY <1>0, <1>6, <2>4 DEF Ahead, FinishThread, BucketInv
      <3>2. epos[x] >= rowptr[x + 1]
        BY <1>3, <2>4, <3>1, BucketRange DEF FinishThread
      <3>3. epos[x] \in Int
        BY <1>3, GraphTypes
      <3> QED BY <1>3, <2>0, <2>4, <3>1, <3>2, <3>3
    <2> QED BY <1>0, <2>1, <2>2, <2>3, <2>4
  <1>7. ASSUME NEW y \in Vertex, Bucket(dist[y]) = bucket PROVE BucketWork(y)'
    <2>0. BucketWork(y)
      BY <1>0, <1>7 DEF WorkInv
    <2>1. CASE kernel = "light"
      <3>1. CASE y \in next.nodes
        BY <1>0, <1>1, <2>1, <3>1 DEF BucketWork
      <3>2. CASE y \notin next.nodes
        <4>1. /\ \A e \in OutEdges(y) : IsLight(e, Offer(y, e)) => Done(y, e) \/ Ahead(y, e)
              /\ AllLight \/ y \in heavy.nodes \/ pc[y] = "load"
          BY <1>0, <2>0, <2>1, <3>2 DEF BucketWork
        <4>2. \A e \in OutEdges(y) : IsLight(e, Offer(y, e))' => Done(y, e)' \/ Ahead(y, e)'
          BY <1>2, <1>6, <1>7, <2>1, <4>1
        <4>3. AllLight \/ y \in heavy'.nodes \/ pc'[y] = "load"
          <5>1. CASE pc[y] = "load" /\ y = x
            <6>1. LoadLabel(x)
              BY <1>0, <5>1 DEF SkipEdge, FinishThread
            <6>2. inHeavy = heavy.nodes
              BY <1>0, <2>1 DEF WorkspaceInv, QueueInv, HeavyInv
            <6> QED BY <1>7, <2>1, <5>1, <6>1, <6>2 DEF LoadLabel, Push
          <5>2. CASE ~(pc[y] = "load" /\ y = x)
            BY <1>4, <1>5, <4>1, <5>2
          <5> QED BY <5>1, <5>2
        <4> QED BY <1>0, <1>1, <1>2, <2>1, <4>2, <4>3 DEF BucketWork
      <3> QED BY <3>1, <3>2
    <2>2. CASE kernel = "heavy"
      <3>1. LightDone(y) /\ \A e \in OutEdges(y) : Done(y, e) \/ Ahead(y, e)
        BY <1>0, <2>0, <2>2 DEF BucketWork
      <3>2. \A e \in OutEdges(y) : Done(y, e)' \/ Ahead(y, e)'
        BY <1>2, <1>6, <1>7, <2>2, <3>1
      <3> QED BY <1>0, <1>1, <1>2, <2>2, <3>1, <3>2 DEF BucketWork
    <2> QED BY <1>0, <2>1, <2>2
  <1> QED BY <1>0, <1>1, <1>2, <1>7 DEF WorkInv

\* A pending node beyond the bucket is a candidate for the bucket closed next.
LEMMA PendingBuckets ==
  ASSUME WorkspaceInv, WorkInv, phase = "settle", NEW u \in Vertex, dist[u] # Inf, bucket < Bucket(dist[u])
  PROVE  /\ u \in pending.nodes \cap inPending
         /\ Bucket(dist[u]) \in Successors /\ NextBucket <= Bucket(dist[u])
  <1>1. TypeInv /\ u \in inPending /\ inPending = pending.nodes
    BY DEF WorkInv, Looping, WorkspaceInv, QueueInv, PendingInv
  <1>2. dist[u] \in Cost /\ Bucket(dist[u]) < NoBucket
    BY <1>1, BucketRange DEF TypeInv, TypeOK
  <1>3. Bucket(dist[u]) \in Successors
    BY <1>1, <1>2 DEF Successors
  <1>4. Successors \in SUBSET Nat
    <2>1. \A v \in pending.nodes \cap inPending : Bucket(dist[v]) \in Nat
      BY <1>1, BucketRange DEF TypeInv, TypeOK
    <2> QED BY <2>1 DEF Successors
  <1>5. \E m \in Successors : \A k \in Successors : m <= k
    BY <1>3, <1>4, LeastNat
  <1>6. \A k \in Successors : NextBucket <= k
    BY <1>5 DEF NextBucket
  <1> QED BY <1>1, <1>3, <1>6

\* The next bucket is the least pending one: no work lies between.
LEMMA WorkAdvance ==
  ASSUME WorkspaceInv, WorkInv, AdvanceBucket
  PROVE  WorkInv'
  <1> DEFINE b        == NextBucket
             active   == pending.nodes \cap inPending
             selected == {v \in active : Bucket(dist[v]) = b}
             kept     == {v \in active : b < Bucket(dist[v]) /\ Bucket(dist[v]) < NoBucket}
             free     == {v \in selected : Generations \/ CurrentMarks[v] = 0}
  <1>0. TypeInv /\ phase = "settle" /\ Looping /\ Successors # {}
    BY DEF WorkspaceInv, AdvanceBucket, Looping, StopReason
  <1>1. /\ UNCHANGED <<dist, key, costs, hasCosts, query>> /\ bucket' = b /\ phase' = "bucket"
        /\ current'.nodes = free /\ inPending' = inPending \ (active \ kept)
    BY DEF AdvanceBucket, QueueOf
  <1>2. \A u, e : Done(u, e)' <=> Done(u, e)
    BY <1>1, SameWork
  <1>3. b \in Nat /\ bucket < b /\ bucket \in Nat
    BY <1>0, NextBucketRange, DeltaAssumption DEF TypeInv, TypeOK
  <1>4. \A v \in Vertex : Generations \/ CurrentMarks[v] = 0
    BY <1>0 DEF WorkspaceInv, QueueInv, ClaimInv, CurrentMarks, Wraps
  <1> SUFFICES ASSUME NEW u \in Vertex
               PROVE  /\ Bucket(dist[u]) < b => \A e \in OutEdges(u) : Done(u, e)
                      /\ Bucket(dist[u]) = b => u \in current'.nodes
                      /\ dist[u] # Inf /\ b < Bucket(dist[u]) => u \in inPending'
    BY <1>1, <1>2 DEF WorkInv, BucketWork
  <1>5. Bucket(dist[u]) \in Nat /\ (Bucket(dist[u]) < NoBucket <=> dist[u] # Inf)
    BY <1>0, BucketRange DEF TypeInv, TypeOK
  <1>6. ASSUME Bucket(dist[u]) <= bucket PROVE \A e \in OutEdges(u) : Done(u, e)
    <2>1. Bucket(dist[u]) < bucket \/ Bucket(dist[u]) = bucket
      BY <1>3, <1>5, <1>6
    <2> QED BY <1>0, <2>1 DEF WorkInv, BucketWork
  <1>7. ASSUME dist[u] # Inf, bucket < Bucket(dist[u]) PROVE u \in active /\ b <= Bucket(dist[u])
    BY <1>0, <1>7, PendingBuckets
  <1> HIDE DEF active, selected, b
  <1>8. ASSUME Bucket(dist[u]) < b PROVE Bucket(dist[u]) <= bucket
    <2>1. b < NoBucket
      BY <1>0, NextBucketRange DEF TypeInv, b
    <2>2. dist[u] # Inf
      BY <1>3, <1>5, <1>8, <2>1, DeltaAssumption
    <2> QED BY <1>3, <1>5, <1>7, <1>8, <2>2
  <1>9. ASSUME Bucket(dist[u]) = b PROVE u \in current'.nodes
    <2>1. b < NoBucket
      BY <1>0, NextBucketRange DEF TypeInv, b
    <2>2. u \in active
      BY <1>3, <1>5, <1>7, <1>9, <2>1
    <2> QED BY <1>1, <1>4, <1>9, <2>2 DEF selected
  <1>10. ASSUME dist[u] # Inf, b < Bucket(dist[u]) PROVE u \in inPending'
    <2>1. u \in active /\ u \in kept
      BY <1>3, <1>5, <1>7, <1>10
    <2> QED BY <1>1, <2>1 DEF active
  <1> QED BY <1>6, <1>8, <1>9, <1>10

\* Every step keeps the account of what is done and what lies ahead.
LEMMA WorkStep == WorkspaceInv /\ BucketInv /\ KeyInv /\ WorkInv /\ [Next]_vars => WorkInv'
  <1> SUFFICES ASSUME WorkspaceInv, BucketInv, KeyInv, WorkInv, [Next]_vars PROVE WorkInv'
    OBVIOUS
  <1>0. /\ TypeInv /\ QueueInv
        /\ Fits(current) /\ current \in Queue
    BY QueuesFitFits DEF WorkspaceInv, QueueInv, TypeInv, TypeOK
  <1>1. CASE UpdateCosts \/ CallbackThrows \/ Return \/ LeaveLoop \/ StopAfterBucket \/ Extract \/ Reset
    BY <1>1 DEF UpdateCosts, CallbackThrows, Return, LeaveLoop, StopAfterBucket, Extract, Reset, WorkInv, Looping, host
  <1>2. CASE Begin
    <2>1. /\ phase' = "bucket" /\ bucket' = 0 /\ current'.nodes = query'.sources
          /\ \A v \in Vertex : dist'[v] = (IF v \in query'.sources THEN 0 ELSE Inf)
      BY <1>0, <1>2, BeginFacts
    <2>2. Bucket(0) = 0 /\ Bucket(Inf) = NoBucket
      BY CostEnds, GraphTypes, DeltaAssumption DEF Bucket, Min2, Inf
    <2>3. NoBucket \in Nat \ {0}
      BY DeltaAssumption
    <2>4. ASSUME NEW u \in Vertex
          PROVE  /\ ~(Bucket(dist'[u]) < bucket')
                 /\ Bucket(dist'[u]) = bucket' => u \in current'.nodes
                 /\ dist'[u] # Inf => ~(bucket' < Bucket(dist'[u]))
      BY <2>1, <2>2, <2>3
    <2> QED BY <2>1, <2>4 DEF WorkInv, BucketWork
  <1>3. CASE StartBucket
    <2>1. /\ phase = "bucket" /\ phase' = "closure" /\ Looping
          /\ UNCHANGED <<dist, key, costs, hasCosts, query, bucket, current, inPending>>
      BY <1>3 DEF StartBucket, arrays, Looping
    <2>2. \A u, e : Done(u, e)' <=> Done(u, e)
      BY <2>1, SameWork
    <2>3. \A u \in Vertex : Bucket(dist[u]) = bucket => u \in current.nodes
      BY <2>1 DEF WorkInv, BucketWork
    <2> QED BY <2>1, <2>2, <2>3 DEF WorkInv, BucketWork
  <1>4. CASE StartLight
    <2>1. /\ phase = "closure" /\ phase' = "kernel" /\ kernel' = "light" /\ Looping
          /\ pc' = [v \in Vertex |-> IF v \in current.nodes THEN "load" ELSE "off"]
          /\ UNCHANGED <<dist, key, costs, hasCosts, query, bucket, heavy, inPending>>
      BY <1>4 DEF StartLight, Launch, Looping
    <2>2. /\ \A u, e : Offer(u, e)' = Offer(u, e) /\ (Done(u, e)' <=> Done(u, e))
          /\ AllLight' <=> AllLight
      BY <2>1, SameWork
    <2>3. \A u, e : IsLight(e, Offer(u, e))' <=> IsLight(e, Offer(u, e))
      BY <2>1, <2>2 DEF IsLight, Weight, AllLight, Terminal, SkipHeavy
    <2>4. ASSUME NEW u \in Vertex, Bucket(dist[u]) = bucket PROVE BucketWork(u)'
      <3>1. u \in current.nodes \/ (LightDone(u) /\ (AllLight \/ u \in heavy.nodes))
        BY <2>1, <2>4 DEF WorkInv, BucketWork
      <3>2. u \in current.nodes => pc'[u] = "load"
        BY <2>1
      <3>3. \A e \in OutEdges(u) : IsLight(e, Offer(u, e))' => Done(u, e)' \/ Ahead(u, e)'
        BY <2>2, <2>3, <3>1, <3>2 DEF LightDone, Ahead
      <3> QED BY <2>1, <2>2, <3>1, <3>2, <3>3 DEF BucketWork
    <2> QED BY <2>1, <2>2, <2>4 DEF WorkInv
  <1>5. CASE StartHeavy
    <2>1. /\ phase = "closure" /\ phase' = "kernel" /\ kernel' = "heavy" /\ Looping /\ ~AllLight
          /\ pc' = [v \in Vertex |-> IF v \in heavy.nodes THEN "load" ELSE "off"] /\ current.count = 0
          /\ UNCHANGED <<dist, key, costs, hasCosts, query, bucket, heavy, inPending>>
      BY <1>5 DEF StartHeavy, Launch, Looping, HeavyPhase, AllLight, arrays, queues
    <2>2. /\ \A u, e : Done(u, e)' <=> Done(u, e)
          /\ \A u : LightDone(u)' <=> LightDone(u)
      BY <2>1, SameWork
    <2>3. current.nodes = {}
      BY <1>0, <2>1, FitsOf
    <2>4. ASSUME NEW u \in Vertex, Bucket(dist[u]) = bucket PROVE BucketWork(u)'
      <3>1. LightDone(u) /\ u \in heavy.nodes
        BY <2>1, <2>3, <2>4 DEF WorkInv, BucketWork
      <3>2. pc'[u] = "load"
        BY <2>1, <3>1
      <3> QED BY <2>1, <2>2, <3>1, <3>2 DEF BucketWork, Ahead
    <2> QED BY <2>1, <2>2, <2>4 DEF WorkInv
  <1>6. CASE SkipHeavyPhase
    <2>1. /\ phase = "closure" /\ phase' = "settle" /\ Looping /\ AllLight /\ current.count = 0
          /\ UNCHANGED <<dist, key, costs, hasCosts, query, bucket, inPending>>
      BY <1>6 DEF SkipHeavyPhase, Looping, HeavyPhase, AllLight, arrays
    <2>2. \A u, e : Done(u, e)' <=> Done(u, e)
      BY <2>1, SameWork
    <2>3. current.nodes = {}
      BY <1>0, <2>1, FitsOf
    <2>4. ASSUME NEW u \in Vertex, Bucket(dist[u]) = bucket PROVE BucketWork(u)'
      <3>1. LightDone(u)
        BY <2>1, <2>3, <2>4 DEF WorkInv, BucketWork
      <3>2. \A e \in OutEdges(u) : Done(u, e)
        BY <2>1, <3>1 DEF LightDone, IsLight
      <3> QED BY <2>1, <2>2, <3>2 DEF BucketWork
    <2> QED BY <2>1, <2>2, <2>4 DEF WorkInv
  <1>7. CASE EndKernel
    <2>1. /\ phase = "kernel" /\ Looping /\ \A v \in Vertex : pc[v] = "off"
          /\ phase' = (IF kernel = "light" THEN "closure" ELSE "settle")
          /\ current' = (IF kernel = "light" THEN next ELSE current)
          /\ UNCHANGED <<dist, key, costs, hasCosts, query, bucket, heavy, inPending>>
      BY <1>7 DEF EndKernel, Looping, arrays
    <2>2. /\ \A u, e : Done(u, e)' <=> Done(u, e)
          /\ AllLight' <=> AllLight
          /\ \A u : LightDone(u)' <=> LightDone(u)
      BY <2>1, SameWork
    <2>3. kernel \in {"light", "heavy"}
      BY <1>0, <2>1 DEF QueueInv, HeavyInv
    <2>4. ASSUME NEW u \in Vertex, Bucket(dist[u]) = bucket PROVE BucketWork(u)'
      <3>0. BucketWork(u) /\ \A e : ~Ahead(u, e)
        BY <2>1, <2>4 DEF WorkInv, Ahead
      <3>1. CASE kernel = "light"
        <4>1. u \in next.nodes \/ (LightDone(u) /\ (AllLight \/ u \in heavy.nodes))
          BY <2>1, <3>0, <3>1 DEF BucketWork, LightDone
        <4> QED BY <2>1, <2>2, <3>1, <4>1 DEF BucketWork
      <3>2. CASE kernel = "heavy"
        <4>1. \A e \in OutEdges(u) : Done(u, e)
          BY <2>1, <3>0, <3>2 DEF BucketWork
        <4> QED BY <2>1, <2>2, <3>2, <4>1 DEF BucketWork
      <3> QED BY <2>3, <3>1, <3>2
    <2> QED BY <2>1, <2>2, <2>4 DEF WorkInv
  <1>8. ASSUME NEW x \in Vertex, Kernel(x) PROVE WorkInv'
    BY <1>8, WorkRelax, WorkCursor
  <1>9. CASE AdvanceBucket
    BY <1>9, WorkAdvance
  <1>10. CASE UNCHANGED vars
    <2>1. UNCHANGED <<dist, key, costs, hasCosts, query, bucket, phase, kernel, current, next, heavy, inPending,
                      pc, epos, from>>
      BY <1>10 DEF vars, arrays, host, queues, threads
    <2>2. /\ \A u, e : Offer(u, e)' = Offer(u, e) /\ (Done(u, e)' <=> Done(u, e))
          /\ AllLight' <=> AllLight
          /\ \A u : LightDone(u)' <=> LightDone(u)
      BY <2>1, SameWork
    <2>3. \A u, e : /\ IsLight(e, Offer(u, e))' <=> IsLight(e, Offer(u, e))
                    /\ Ahead(u, e)' <=> Ahead(u, e)
      BY <2>1, <2>2 DEF IsLight, Weight, AllLight, Terminal, SkipHeavy, Ahead
    <2>4. \A u \in Vertex : BucketWork(u)' <=> BucketWork(u)
      BY <2>1, <2>2, <2>3 DEF BucketWork
    <2> QED BY <2>1, <2>2, <2>4 DEF WorkInv, Looping
  <1> QED BY <1>1, <1>2, <1>3, <1>4, <1>5, <1>6, <1>7, <1>8, <1>9, <1>10 DEF Next, Work

-----------------------------------------------------------------------------
(* Leaving the loop. *)

\* A distance that is final or zero bounds a horizon.
LEMMA DistanceHorizon ==
  ASSUME WorkspaceInv, ReachInv, WorkInv, Looping, NEW t \in Vertex,
         \/ Bucket(dist[t]) < bucket
         \/ phase = "settle" /\ Bucket(dist[t]) <= bucket
         \/ dist[t] = 0
  PROVE  Horizon(dist[t])
  <1>0. TypeInv /\ dist \in [Vertex -> Cost] /\ bucket \in Nat /\ bucket < NoBucket
        /\ query.limit \in Nat /\ \A u \in Vertex : dist[u] \in Nat
    BY QueryTypes, CostEnds, DeltaAssumption DEF WorkspaceInv, TypeInv, TypeOK
  <1>1. dist[t] <= query.limit
    <2>1. Bucket(dist[t]) \in Nat /\ (Bucket(dist[t]) < NoBucket <=> dist[t] # Inf)
      BY <1>0, BucketRange
    <2>2. NoBucket \in Nat /\ Inf # 0
      BY DeltaAssumption, GraphTypes
    <2>3. dist[t] # Inf
      BY <1>0, <2>1, <2>2
    <2> QED BY <1>0, <2>3 DEF ReachInv, Measuring
  <1>2. ASSUME NEW u \in Vertex, dist[u] < dist[t], NEW e \in OutEdges(u) PROVE Done(u, e)
    <2>1. Bucket(dist[u]) <= Bucket(dist[t]) /\ Bucket(dist[u]) \in Nat /\ Bucket(dist[t]) \in Nat
      BY <1>0, <1>2, BucketMonotone
    <2>2. dist[t] # 0
      BY <1>0, <1>2
    <2>3. Bucket(dist[u]) < bucket \/ (phase = "settle" /\ Bucket(dist[u]) = bucket)
      BY <1>0, <2>1, <2>2
    <2> QED BY <2>3 DEF WorkInv, BucketWork
  <1> QED BY <1>1, <1>2 DEF Horizon

\* A horizon depends on the distances, the keys and the query only.
LEMMA SameHorizon ==
  ASSUME UNCHANGED <<dist, key, costs, hasCosts, query>>
  PROVE  \A M : Horizon(M)' <=> Horizon(M)
  <1>1. \A u, e : Done(u, e)' <=> Done(u, e)
    BY SameWork
  <1> QED BY <1>1 DEF Horizon

\* However the loop is left, what it settles is final.
LEMMA TargetLeave ==
  ASSUME WorkspaceInv, ReachInv, WorkInv, TargetInv, LeaveLoop
  PROVE  TargetInv'
  <1>0. /\ TypeInv /\ phase = "bucket" /\ phase' = "extract" /\ Looping
        /\ UNCHANGED <<dist, key, costs, hasCosts, query, settled>>
        /\ bucket \in Nat /\ dist \in [Vertex -> Cost] /\ query.targets \subseteq Vertex /\ query.limit \in Nat
        /\ \A u \in Vertex : dist[u] \in Nat
    BY QueryTypes, CostEnds, DeltaAssumption DEF LeaveLoop, arrays, WorkspaceInv, TypeInv, TypeOK, Looping
  <1>1. \A M : Horizon(M)' <=> Horizon(M)
    BY <1>0, SameHorizon
  <1>2. \A t \in settled : t \in query.targets /\ Horizon(dist[t])
    BY <1>0, DistanceHorizon DEF TargetInv
  <1>3. ASSUME stop' = "limit"
        PROVE  Horizon(query.limit) /\ \A t \in query.targets \ settled : query.limit <= dist[t]
    <2>1. bucket > LastAllowed
      BY <1>0, <1>3 DEF LeaveLoop, TargetInv
    <2>2. ASSUME NEW u \in Vertex, dist[u] < query.limit PROVE Bucket(dist[u]) < bucket
      <3>1. Bucket(dist[u]) <= LastAllowed /\ LastAllowed \in Int /\ Bucket(dist[u]) \in Nat
        BY <1>0, <2>2, BelowLimit, BucketRange
      <3> QED BY <1>0, <2>1, <3>1
    <2>3. Horizon(query.limit)
      BY <1>0, <2>2 DEF Horizon, WorkInv
    <2>4. \A t \in query.targets \ settled : query.limit <= dist[t]
      BY <1>0, <2>2 DEF TargetInv
    <2> QED BY <2>3, <2>4
  <1>4. stop' \in {"target", "maxIters", "limit"} /\ (stop' = "target" => query.targets \subseteq settled)
    BY <1>0 DEF LeaveLoop, TargetInv
  <1>5. \A t \in settled : Horizon(dist[t])' <=> Horizon(dist[t])
    BY <1>0, <1>1 DEF Horizon
  <1> QED BY <1>0, <1>1, <1>2, <1>3, <1>4, <1>5 DEF TargetInv, Looping

\* Closing a bucket makes its targets, and what the limit covers, final.
LEMMA TargetStop ==
  ASSUME WorkspaceInv, ReachInv, WorkInv, TargetInv, StopAfterBucket
  PROVE  TargetInv'
  <1>0. /\ TypeInv /\ phase = "settle" /\ phase' = "extract" /\ Looping
        /\ UNCHANGED <<dist, key, costs, hasCosts, query>>
        /\ settled' = NowSettled /\ stop' = StopReason /\ StopReason # "none"
        /\ bucket \in Nat /\ dist \in [Vertex -> Cost] /\ query.targets \subseteq Vertex /\ query.limit \in Nat
        /\ query.limit <= Inf /\ Inf \in Nat
        /\ \A u \in Vertex : dist[u] \in Nat
    BY QueryTypes, CostEnds, DeltaAssumption
       DEF StopAfterBucket, arrays, WorkspaceInv, TypeInv, TypeOK, Looping
  <1>1. \A M : Horizon(M)' <=> Horizon(M)
    BY <1>0, SameHorizon
  <1>2. \A t \in NowSettled : t \in query.targets /\ Horizon(dist[t])
    BY <1>0, DistanceHorizon DEF TargetInv, NowSettled
  <1>3. \A u \in Vertex : Bucket(dist[u]) \in Nat
    BY <1>0, BucketRange
  <1>4. ASSUME NEW M \in Nat, M <= query.limit,
               \A u \in Vertex : dist[u] < M => Bucket(dist[u]) <= bucket
        PROVE  Horizon(M)
    <2>1. ASSUME NEW u \in Vertex, Bucket(dist[u]) <= bucket, NEW e \in OutEdges(u) PROVE Done(u, e)
      <3>1. Bucket(dist[u]) < bucket \/ Bucket(dist[u]) = bucket
        BY <1>0, <1>3, <2>1
      <3> QED BY <1>0, <3>1 DEF WorkInv, BucketWork
    <2> QED BY <1>4, <2>1 DEF Horizon
  <1>5. ASSUME stop' \in {"limit", "converged"}, NEW u \in Vertex, dist[u] < query.limit
        PROVE  Bucket(dist[u]) <= bucket
    <2> SUFFICES ASSUME bucket < Bucket(dist[u]) PROVE FALSE
      BY <1>0, <1>3
    <2>1. dist[u] # Inf
      BY <1>0, <1>5
    <2>2. Bucket(dist[u]) \in Successors /\ NextBucket <= Bucket(dist[u])
      BY <1>0, <2>1, PendingBuckets
    <2>3. NextBucket > LastAllowed
      BY <1>0, <1>5, <2>2 DEF StopReason
    <2>4. NextBucket \in Nat
      BY <1>0, <2>2, NextBucketRange DEF TypeInv
    <2>5. Bucket(dist[u]) <= LastAllowed /\ LastAllowed \in Int
      BY <1>0, <1>5, BelowLimit
    <2> QED BY <1>3, <2>2, <2>3, <2>4, <2>5
  <1>6. ASSUME stop' \in {"limit", "converged"} PROVE Horizon(query.limit)
    BY <1>0, <1>4, <1>5, <1>6
  <1>7. stop' = "converged" => query.limit = Inf
    BY <1>0 DEF StopReason, Limited
  <1>8. ASSUME stop' = "limit", NEW t \in query.targets \ NowSettled PROVE query.limit <= dist[t]
    <2>1. t \in Vertex
      BY <1>0
    <2>2. dist[t] = Inf \/ ~(Bucket(dist[t]) <= bucket)
      BY <1>8 DEF NowSettled
    <2> QED BY <1>0, <1>5, <1>8, <2>1, <2>2
  <1>9. stop' = "target" => query.targets \subseteq NowSettled
    BY <1>0 DEF StopReason
  <1>10. \A t \in NowSettled : Horizon(dist[t])' <=> Horizon(dist[t])
    BY <1>0, <1>1 DEF Horizon
  <1>11. stop' = "converged" => Horizon(Inf)
    BY <1>6, <1>7
  <1>12. /\ (Horizon(Inf)' <=> Horizon(Inf))
         /\ (Horizon(query.limit)' <=> Horizon(query.limit))
    BY <1>0, <1>1 DEF Horizon
  <1> QED BY <1>0, <1>2, <1>6, <1>8, <1>9, <1>10, <1>11, <1>12 DEF TargetInv, Looping

\* The next bucket is the least pending one: no target lies between.
LEMMA TargetAdvance ==
  ASSUME WorkspaceInv, WorkInv, TargetInv, AdvanceBucket
  PROVE  TargetInv'
  <1>0. /\ TypeInv /\ phase = "settle" /\ phase' = "bucket" /\ Looping
        /\ UNCHANGED <<dist, query, stop>> /\ settled' = NowSettled /\ bucket' = NextBucket
    BY DEF AdvanceBucket, WorkspaceInv, Looping
  <1>1. NextBucket \in Nat /\ bucket < NextBucket /\ NextBucket < NoBucket /\ bucket \in Nat /\ NoBucket \in Nat
    BY <1>0, NextBucketRange, DeltaAssumption DEF AdvanceBucket, StopReason, TypeInv, TypeOK
  <1>2. \A t \in query.targets : /\ t \in Vertex /\ Bucket(dist[t]) \in Nat
                                 /\ Bucket(dist[t]) < NoBucket <=> dist[t] # Inf
    BY <1>0, QueryTypes, BucketRange DEF TypeInv, TypeOK
  <1>3. ASSUME NEW t \in query.targets, Bucket(dist[t]) < NextBucket PROVE t \in NowSettled
    <2>1. dist[t] # Inf
      BY <1>1, <1>2, <1>3
    <2>2. Bucket(dist[t]) <= bucket
      <3> SUFFICES ASSUME bucket < Bucket(dist[t]) PROVE FALSE
        BY <1>1, <1>2
      <3>1. NextBucket <= Bucket(dist[t])
        BY <1>0, <1>2, <2>1, PendingBuckets
      <3> QED BY <1>1, <1>2, <1>3, <3>1
    <2> QED BY <2>1, <2>2 DEF NowSettled
  <1>4. ASSUME NEW t \in NowSettled
        PROVE  t \in query.targets /\ (Bucket(dist[t]) < NextBucket \/ dist[t] = 0)
    <2>1. t \in query.targets /\ (Bucket(dist[t]) <= bucket \/ Bucket(dist[t]) < bucket \/ dist[t] = 0)
      BY <1>0 DEF NowSettled, TargetInv
    <2> QED BY <1>1, <1>2, <2>1
  <1>5. stop \in {"none", "target"} /\ (stop = "target" => query.targets \subseteq NowSettled)
    BY <1>0 DEF TargetInv, NowSettled
  <1> QED BY <1>0, <1>3, <1>4, <1>5 DEF TargetInv, Looping

\* Every step keeps the account of which targets are settled.
LEMMA TargetStep ==
  WorkspaceInv /\ BucketInv /\ ReachInv /\ WorkInv /\ TargetInv /\ [Next]_vars => TargetInv'
  <1> SUFFICES ASSUME WorkspaceInv, BucketInv, ReachInv, WorkInv, TargetInv, [Next]_vars PROVE TargetInv'
    OBVIOUS
  <1>0. TypeInv /\ QueueInv /\ query.targets \subseteq Vertex
    BY QueryTypes DEF WorkspaceInv, TypeInv, TypeOK
  <1>1. CASE UpdateCosts \/ CallbackThrows \/ Return \/ Extract \/ Reset
    BY <1>1 DEF UpdateCosts, CallbackThrows, Return, Extract, Reset, TargetInv, Looping, host
  <1>2. CASE Begin
    <2>1. /\ phase' = "bucket" /\ bucket' = 0 /\ query' \in Queries
          /\ \A v \in Vertex : dist'[v] = (IF v \in query'.sources THEN 0 ELSE Inf)
          /\ settled' \subseteq query'.targets \cap query'.sources
          /\ stop' \in {"none", "target"} /\ (stop' = "target" => query'.targets \subseteq settled')
      BY <1>0, <1>2, BeginFacts
    <2>2. query'.targets \subseteq Vertex
      BY <2>1, QueryTypes
    <2>3. \A d \in Cost : ~(Bucket(d) < 0)
      BY BucketRange
    <2>4. \A t \in query'.targets : dist'[t] \in Cost
      BY <2>1, <2>2, CostEnds
    <2> QED BY <2>1, <2>2, <2>3, <2>4 DEF TargetInv, Looping
  <1>3. CASE StartBucket \/ StartLight \/ StartHeavy \/ SkipHeavyPhase \/ EndKernel
    BY <1>3 DEF StartBucket, StartLight, StartHeavy, SkipHeavyPhase, EndKernel, Launch, TargetInv, Looping, arrays
  <1>4. ASSUME NEW u \in Vertex, Kernel(u) PROVE TargetInv'
    <2>1. /\ phase = "kernel" /\ phase' = "kernel" /\ UNCHANGED <<query, bucket, settled, stop>>
          /\ kernel \in {"light", "heavy"}
      BY <1>0, <1>4 DEF Kernel, LoadLabel, SkipEdge, RelaxEdge, FinishThread, host, QueueInv, HeavyInv
    <2>2. CASE ~RelaxEdge(u)
      BY <1>4, <2>1, <2>2 DEF Kernel, LoadLabel, SkipEdge, FinishThread, arrays, TargetInv, Looping
    <2>3. CASE RelaxEdge(u)
      <3>1. ASSUME NEW t \in query.targets
            PROVE  /\ Bucket(dist[t]) < bucket <=> Bucket(dist'[t]) < bucket
                   /\ dist[t] = 0 => dist'[t] = 0
        <4>1. /\ dist'[t] \in Nat /\ dist[t] \in Nat /\ dist'[t] <= dist[t]
              /\ Bucket(dist[t]) = bucket => Bucket(dist'[t]) = bucket
              /\ Bucket(dist[t]) < bucket => dist'[t] = dist[t]
              /\ Bucket(dist'[t]) \in Nat /\ Bucket(dist[t]) \in Nat /\ bucket \in Nat
              /\ bucket <= Bucket(Candidate(u)) /\ Bucket(Candidate(u)) \in Nat
          BY <1>0, <2>1, <2>3, RelaxInBucket, RelaxFacts
        <4>2. dist'[t] = dist[t] \/ dist'[t] = Candidate(u)
          BY <1>0, <2>3, RelaxWrites
        <4> QED BY <4>1, <4>2
      <3> QED BY <2>1, <3>1 DEF TargetInv, Looping
    <2> QED BY <2>2, <2>3
  <1>5. CASE LeaveLoop \/ StopAfterBucket \/ AdvanceBucket
    BY <1>5, TargetLeave, TargetStop, TargetAdvance
  <1>6. CASE UNCHANGED vars
    <2>1. UNCHANGED <<dist, key, costs, hasCosts, query, phase, bucket, settled, stop>>
      BY <1>6 DEF vars, arrays, host
    <2>2. \A M : Horizon(M)' <=> Horizon(M)
      BY <2>1, SameHorizon
    <2>3. \A t : Horizon(dist[t])' <=> Horizon(dist[t])
      BY <2>1, <2>2 DEF Horizon
    <2>4. (Horizon(query.limit)' <=> Horizon(query.limit)) /\ (Horizon(Inf)' <=> Horizon(Inf))
      BY <2>1, <2>2 DEF Horizon
    <2> QED BY <2>1, <2>3, <2>4 DEF TargetInv, Looping
  <1> QED BY <1>1, <1>2, <1>3, <1>4, <1>5, <1>6 DEF Next, Work

-----------------------------------------------------------------------------
(* What is handed out. *)

\* Cutting the distances off at a horizon gives a feasible potential, so a
\* distance up to the horizon is exact.
LEMMA HorizonExact ==
  ASSUME TypeInv, ReachInv, Measuring, NEW M \in Cost, Horizon(M), NEW t \in Vertex
  PROVE  /\ \E f \in [Vertex -> Cost] : /\ Feasible(f, query.sources, query.admit, costs)
                                        /\ f[t] = Min2(dist[t], M)
         /\ dist[t] <= M => IsDistance(dist[t], t, query.sources, query.admit, costs)
  <1> DEFINE g == [v \in Vertex |-> Min2(dist[v], M)]
  <1>0. dist \in [Vertex -> Cost] /\ M \in Nat /\ query.limit \in Nat /\ \A v \in Vertex : dist[v] \in Nat
    BY CostEnds, QueryTypes DEF TypeInv, TypeOK
  <1>1. g \in [Vertex -> Cost] /\ \A v \in Vertex : g[v] \in Cost /\ g[v] \in Nat /\ g[v] <= M /\ g[v] <= dist[v]
    BY <1>0 DEF Min2
  <1>2. \A s \in query.sources : g[s] = 0
    <2>1. \A s \in query.sources : s \in Vertex /\ dist[s] = 0
      BY QueryTypes DEF ReachInv, TypeInv, TypeOK
    <2> QED BY <1>0, <2>1 DEF Min2
  <1>3. ASSUME NEW u \in Vertex, NEW e \in OutEdges(u), Relaxable(e, query.sources, query.admit)
        PROVE  g[to[e]] <= Saturate(g[u] + EffectiveWeight(e, costs))
    <2>0. e \in Edge
      BY EdgesOfRow
    <2>1. to[e] \in Vertex /\ EffectiveWeight(e, costs) \in Nat /\ Offer(u, e) \in Nat
          /\ Offer(u, e) = Saturate(dist[u] + EffectiveWeight(e, costs))
      BY <2>0, OfferFacts DEF TypeInv, Weight, Offer
    <2>2. CASE dist[u] < M
      <3>1. g[u] = dist[u]
        BY <2>2 DEF Min2
      <3>2. M <= query.limit /\ Done(u, e) /\ to[e] \in query.admit
        BY <1>3, <2>2 DEF Horizon, Relaxable
      <3>3. dist[to[e]] <= Offer(u, e) \/ query.limit <= Offer(u, e)
        BY <1>0, <2>1, <3>2 DEF Done
      <3>4. g[to[e]] <= dist[to[e]] /\ g[to[e]] <= M /\ g[to[e]] \in Nat /\ dist[to[e]] \in Nat
        BY <1>0, <1>1, <2>1
      <3> HIDE DEF g
      <3>5. g[to[e]] <= Offer(u, e)
        BY <1>0, <2>1, <3>2, <3>3, <3>4
      <3> QED BY <2>1, <3>1, <3>5
    <2>3. CASE ~(dist[u] < M)
      <3>1. g[u] = M
        BY <1>0, <2>3 DEF Min2
      <3>2. M <= Saturate(M + EffectiveWeight(e, costs)) /\ Saturate(M + EffectiveWeight(e, costs)) \in Nat
        BY <2>1, SaturateSum, CostEnds
      <3>3. g[to[e]] <= M /\ g[to[e]] \in Nat
        BY <1>1, <2>1
      <3> HIDE DEF g
      <3> QED BY <1>0, <3>1, <3>2, <3>3
    <2> QED BY <2>2, <2>3
  <1>4. g[t] = Min2(dist[t], M)
    OBVIOUS
  <1>5. dist[t] <= M => g[t] = dist[t]
    BY <1>0 DEF Min2
  <1> HIDE DEF g
  <1>6. Feasible(g, query.sources, query.admit, costs)
    BY <1>1, <1>2, <1>3 DEF Feasible
  <1>7. BoundsDistance(dist[t], t, query.sources, query.admit, costs)
    BY DEF ReachInv
  <1> QED BY <1>1, <1>4, <1>5, <1>6, <1>7 DEF IsDistance

\* What extraction hands out is exact wherever it is certified or finite.
LEMMA AnswerGiven ==
  ASSUME WorkspaceInv, ReachInv, TargetInv, Extract, stop' # "threw"
  PROVE  Answer'
  <1> DEFINE given == [t \in query.targets |-> IF t \in Answered THEN dist[t] ELSE Inf]
  <1>0. /\ TypeInv /\ phase = "extract" /\ Measuring /\ stop' = stop
        /\ result' = [certified |-> Certified, dist |-> given]
        /\ UNCHANGED <<query, costs>>
        /\ query.targets \subseteq Vertex /\ query.limit \in Cost /\ dist \in [Vertex -> Cost]
    BY QueryTypes DEF Extract, WorkspaceInv, TypeInv, TypeOK, Measuring
  <1> HIDE DEF given
  <1>1. \A t \in query.targets : given[t] = (IF t \in Answered THEN dist[t] ELSE Inf)
    BY DEF given
  <1>2. given \in [query.targets -> Cost]
    BY <1>0, CostEnds DEF given
  <1>3. Certified \in BOOLEAN
    BY DEF Certified
  <1>4. result'.certified = Certified /\ result'.dist = given
    BY <1>0
  <1>5. \A t \in Vertex : dist[t] \in Cost /\ dist[t] <= dist[t] /\ dist[t] <= Inf
    BY <1>0, CostEnds
  <1>6. ASSUME NEW t \in query.targets, t \in settled
        PROVE  IsDistance(dist[t], t, query.sources, query.admit, costs)
    <2>1. t \in Vertex /\ Horizon(dist[t])
      BY <1>0, <1>6 DEF TargetInv
    <2> QED BY <1>0, <1>5, <2>1, HorizonExact
  <1>7. ASSUME NEW t \in query.targets, Certified
        PROVE  IsDistance(dist[t], t, query.sources, query.admit, costs)
    <2>1. CASE stop = "target"
      BY <1>0, <1>6, <2>1 DEF TargetInv
    <2>2. CASE stop = "converged"
      <3>1. Horizon(Inf) /\ Inf \in Cost
        BY <1>0, <2>2, CostEnds DEF TargetInv
      <3> QED BY <1>0, <1>5, <3>1, HorizonExact
    <2> QED BY <1>7, <2>1, <2>2 DEF Certified
  <1>8. ASSUME NEW t \in query.targets, Certified \/ given[t] # Inf
        PROVE  IsDistance(given[t], t, query.sources, query.admit, costs)
    <2>1. CASE Certified
      BY <1>1, <1>7, <2>1 DEF Answered
    <2>2. CASE ~Certified
      BY <1>1, <1>6, <1>8, <2>2 DEF Answered
    <2> QED BY <2>1, <2>2
  <1>9. ASSUME NEW t \in query.targets, stop = "limit", given[t] = Inf
        PROVE  \E f \in [Vertex -> Cost] :
                  Feasible(f, query.sources, query.admit, costs) /\ f[t] >= query.limit
    <2>1. Horizon(query.limit) /\ t \in Vertex
      BY <1>0, <1>9 DEF TargetInv
    <2>2. query.limit <= dist[t]
      <3>1. CASE t \in settled
        <4>1. given[t] = dist[t]
          BY <1>1, <1>9, <3>1 DEF Answered, Certified
        <4> QED BY <1>0, <1>9, <4>1, CostEnds
      <3>2. CASE t \notin settled
        BY <1>0, <1>9, <3>2 DEF TargetInv
      <3> QED BY <3>1, <3>2
    <2>3. PICK f \in [Vertex -> Cost] : /\ Feasible(f, query.sources, query.admit, costs)
                                        /\ f[t] = Min2(dist[t], query.limit)
      BY <1>0, <2>1, HorizonExact
    <2>4. f[t] >= query.limit
      BY <1>0, <1>5, <2>1, <2>2, <2>3, CostEnds DEF Min2
    <2> QED BY <2>3, <2>4
  <1>10. [certified |-> Certified, dist |-> given] \in [certified : BOOLEAN, dist : [query.targets -> Cost]]
    BY <1>2, <1>3
  <1> QED BY <1>0, <1>4, <1>8, <1>9, <1>10 DEF Answer

\* Every step keeps the result exact until the caller has it.
LEMMA ResultStep == WorkspaceInv /\ ReachInv /\ TargetInv /\ ResultInv /\ [Next]_vars => ResultInv'
  <1> SUFFICES ASSUME WorkspaceInv, ReachInv, TargetInv, ResultInv, [Next]_vars,
                      phase' = "done" \/ (phase' = "reset" /\ stop' # "threw")
               PROVE  Answer'
    BY DEF ResultInv
  <1>1. CASE Extract
    BY <1>1, AnswerGiven DEF Extract
  <1>2. ASSUME UNCHANGED <<costs, query, result, stop>>, Answer PROVE Answer'
    BY <1>2 DEF Answer
  <1>3. CASE Reset
    <2>1. UNCHANGED <<costs, query, result, stop>> /\ Answer
      BY <1>3 DEF Reset, ResultInv
    <2> QED BY <1>2, <2>1
  <1>4. CASE UpdateCosts \/ Begin \/ CallbackThrows \/ Return
    BY <1>4 DEF UpdateCosts, Begin, CallbackThrows, Return, host
  <1>5. CASE StartBucket \/ LeaveLoop \/ StartLight \/ StartHeavy \/ SkipHeavyPhase \/ EndKernel
    BY <1>5 DEF StartBucket, LeaveLoop, StartLight, StartHeavy, SkipHeavyPhase, EndKernel, Launch
  <1>6. CASE StopAfterBucket \/ AdvanceBucket \/ \E u \in Vertex : Kernel(u)
    BY <1>6 DEF StopAfterBucket, AdvanceBucket, Kernel, LoadLabel, SkipEdge, RelaxEdge, FinishThread, host
  <1>7. CASE UNCHANGED vars
    <2>1. UNCHANGED <<costs, query, result, stop, phase>>
      BY <1>7 DEF vars, host
    <2> QED BY <1>2, <2>1 DEF ResultInv
  <1> QED BY <1>1, <1>3, <1>4, <1>5, <1>6, <1>7 DEF Next, Work

-----------------------------------------------------------------------------
(* The theorems. *)

DistanceInv == /\ WorkspaceInv /\ BucketInv /\ ReachInv /\ KeyInv
               /\ WorkInv /\ TargetInv /\ ResultInv

\* Bounds, keys, work, targets and results hold in every reachable state.
LEMMA DistanceInvariant == Spec => []DistanceInv
  <1>1. Init => BucketInv /\ ReachInv /\ KeyInv /\ WorkInv /\ TargetInv /\ ResultInv
    BY DEF Init, BucketInv, ReachInv, KeyInv, WorkInv, TargetInv, ResultInv, Measuring, Looping
  <1>2. WorkspaceInv /\ BucketInv /\ ReachInv /\ KeyInv /\ WorkInv /\ TargetInv /\ ResultInv /\ [Next]_vars
          => BucketInv' /\ ReachInv' /\ KeyInv' /\ WorkInv' /\ TargetInv' /\ ResultInv'
    BY BucketStep, ReachStep, KeyStep, WorkStep, TargetStep, ResultStep
  <1> QED BY <1>1, <1>2, WorkspaceInvariant, PTL DEF Spec, DistanceInv

\* The account of work is what NoWorkLost promises at a settlement.
LEMMA BucketClosed == DistanceInv => NoWorkLost
  <1> SUFFICES ASSUME DistanceInv, phase = "settle" PROVE NoWorkLost
    BY DEF NoWorkLost
  <1>0. TypeInv /\ WorkInv /\ Looping /\ inPending = pending.nodes
    BY DEF DistanceInv, WorkspaceInv, QueueInv, PendingInv, Looping
  <1>1. \A u \in Vertex : Bucket(dist[u]) \in Nat /\ bucket \in Nat
    BY <1>0, BucketRange, DeltaAssumption DEF TypeInv, TypeOK
  <1>2. ASSUME NEW u \in Vertex, NEW e \in OutEdges(u), Bucket(dist[u]) <= bucket,
               to[e] \in query.admit, Saturate(dist[u] + Weight(e)) < query.limit
        PROVE  dist[to[e]] <= Saturate(dist[u] + Weight(e))
    <2>1. Bucket(dist[u]) < bucket \/ Bucket(dist[u]) = bucket
      BY <1>1, <1>2
    <2>2. Done(u, e)
      BY <1>0, <2>1 DEF WorkInv, BucketWork
    <2> QED BY <1>2, <2>2 DEF Done, Offer
  <1>3. \A v \in Vertex : dist[v] # Inf /\ Bucket(dist[v]) > bucket => v \in pending.nodes \cap inPending
    BY <1>0, <1>1 DEF WorkInv
  <1> QED BY <1>2, <1>3 DEF NoWorkLost

\* Closing a bucket loses no work: whatever threads read and whenever they read
\* it, no edge leaving the closed buckets could lower a distance, and all that
\* lies beyond them is on the pending queue.
THEOREM ClosedBucketsFinal == Spec => []NoWorkLost
  BY BucketClosed, DistanceInvariant, PTL

\* Every distance handed out is exact, under a certificate, an iteration budget
\* or a distance limit, for every bucket width and every interleaving.
THEOREM DistancesExact == Spec => []AnswersExact
  <1>1. DistanceInv => AnswersExact
    BY DEF DistanceInv, ResultInv, Answer, AnswersExact
  <1> QED BY <1>1, DistanceInvariant, PTL

\* Keys that explain and that no settled edge undercuts are the least
\* payloads.
LEMMA LeastParents == DistanceInv => DeterministicParents
  <1> SUFFICES ASSUME DistanceInv, phase = "settle", NEW v \in query.admit,
                      Bucket(dist[v]) <= bucket, TightInto(v) # {}
               PROVE  /\ key[v][1] = dist[v]
                      /\ \E e \in TightInto(v) : key[v][2] = Payload(e)
                      /\ \A e \in TightInto(v) : key[v][2] <= Payload(e)
    BY DEF DeterministicParents
  <1>0. TypeInv /\ WorkInv /\ ReachInv /\ KeyInv /\ Looping /\ Measuring /\ NoWorkLost
    BY BucketClosed DEF DistanceInv, WorkspaceInv, Looping, Measuring
  <1>1. v \in Vertex /\ dist[v] \in Cost /\ dist[v] \in Nat /\ bucket \in Nat /\ query.limit \in Nat
    BY <1>0, DeltaAssumption, QueryTypes, CostEnds DEF TypeInv, TypeOK
  <1>2. dist[v] # Inf /\ dist[v] < query.limit
    <2>1. dist[v] # Inf
      <3>1. Bucket(dist[v]) \in Nat /\ (Bucket(dist[v]) < NoBucket <=> dist[v] # Inf)
        BY <1>1, BucketRange
      <3> QED BY <1>0, <3>1, DeltaAssumption DEF TypeInv, TypeOK
    <2> QED BY <1>0, <1>1, <2>1 DEF ReachInv
  <1>3. ASSUME NEW e \in Edge, to[e] = v, Offer(SourceForEdge(e), e) <= dist[v]
        PROVE  /\ e \in TightInto(v)
               /\ key[v][1] = dist[v] /\ key[v][2] <= Payload(e)
    <2> DEFINE u == SourceForEdge(e)
    <2>1. u \in Vertex /\ e \in OutEdges(u)
      BY SourceIsVertex
    <2> HIDE DEF u
    <2>2. dist[u] \in Cost /\ dist[u] <= Offer(u, e) /\ Offer(u, e) \in Nat /\ dist[u] \in Nat
      BY <1>0, <2>1, OfferFacts DEF TypeInv
    <2>3. Offer(u, e) <= dist[v]
      BY <1>3 DEF u
    <2>4. Bucket(dist[u]) <= Bucket(dist[v]) /\ Bucket(dist[u]) \in Nat /\ Bucket(dist[v]) \in Nat
      BY <1>1, <2>2, <2>3, BucketMonotone
    <2>5. Bucket(dist[u]) < bucket \/ Bucket(dist[u]) = bucket
      BY <1>1, <2>4
    <2>6. Done(u, e)
      BY <1>0, <2>1, <2>5 DEF WorkInv, BucketWork
    <2>7. Offer(u, e) < query.limit
      BY <1>1, <1>2, <2>2, <2>3
    <2>8. /\ dist[v] <= Offer(u, e)
          /\ dist[v] = Offer(u, e) => key[v][1] = dist[v] /\ key[v][2] <= Payload(e)
      BY <1>3, <2>6, <2>7 DEF Done
    <2>9. dist[v] = Offer(u, e)
      BY <1>1, <2>2, <2>3, <2>8
    <2>10. dist[u] # Inf
      BY <1>1, <1>2, <2>2, <2>9, CostEnds
    <2> QED BY <1>3, <2>8, <2>9, <2>10 DEF TightInto, u, Offer
  <1>4. \A e \in TightInto(v) : e \in Edge /\ to[e] = v /\ Offer(SourceForEdge(e), e) <= dist[v]
    BY <1>1 DEF TightInto, Offer
  <1>5. key[v][1] = dist[v] /\ \A e \in TightInto(v) : key[v][2] <= Payload(e)
    BY <1>3, <1>4
  <1>6. key[v] # NoKey
    BY <1>2, <1>5 DEF NoKey
  <1>7. PICK e \in Edge : to[e] = v /\ Payload(e) = key[v][2] /\ Offer(SourceForEdge(e), e) <= dist[v]
    BY <1>0, <1>1, <1>6 DEF KeyInv
  <1>8. e \in TightInto(v)
    BY <1>3, <1>7
  <1> QED BY <1>5, <1>7, <1>8

\* Routes do not depend on thread timing: once its bucket is closed, a node's
\* key is the least among all edges that explain its distance.
THEOREM ParentsDeterministic == Spec => []DeterministicParents
  BY LeastParents, DistanceInvariant, PTL

-----------------------------------------------------------------------------
(* The contract with the caller.  The oracle's distances are the workspace's: *)
(* both come from CsrGraph.                                                   *)

\* Nodes and costs are the same sets for the oracle.
LEMMA SameNodes == Oracle!Vertex = Vertex /\ Oracle!Cost = Cost
  BY DEF Oracle!Vertex, Vertex, Oracle!Cost, Cost, Oracle!Inf, Inf

\* The oracle's upper bounds are those of CsrGraph.
LEMMA SameBounds ==
  \A d, t, S, A, c : Oracle!BoundsDistance(d, t, S, A, c) <=> BoundsDistance(d, t, S, A, c)
  BY DEF Oracle!BoundsDistance, BoundsDistance, Oracle!Feasible, Feasible, Oracle!Relaxable, Relaxable,
         Oracle!OutEdges, OutEdges, Oracle!EffectiveWeight, EffectiveWeight, Oracle!Saturate, Saturate,
         Oracle!Vertex, Vertex, Oracle!Cost, Cost, Oracle!Inf, Inf

\* The oracle's exact distances are those of CsrGraph.
LEMMA SameDistance ==
  \A d, t, S, A, c : Oracle!IsDistance(d, t, S, A, c) <=> IsDistance(d, t, S, A, c)
  BY DEF Oracle!IsDistance, IsDistance,
         Oracle!BoundsDistance, BoundsDistance, Oracle!Feasible, Feasible, Oracle!Relaxable, Relaxable,
         Oracle!OutEdges, OutEdges, Oracle!EffectiveWeight, EffectiveWeight, Oracle!Saturate, Saturate,
         Oracle!Vertex, Vertex, Oracle!Cost, Cost, Oracle!Inf, Inf

\* What a workspace reports is a reply a sound engine may give: a target left
\* out is reported at infinity, which bounds every distance.
LEMMA RepliesSound ==
  ASSUME DistanceInv, Answer
  PROVE  result \in Oracle!SoundReplies(query, costs)
  <1>1. query \in Queries /\ result \in [certified : BOOLEAN, dist : [query.targets -> Oracle!Cost]]
    BY SameNodes DEF DistanceInv, WorkspaceInv, TypeInv, TypeOK, Answer
  <1>2. ASSUME NEW t \in query.targets
        PROVE  IF result.certified
               THEN IsDistance(result.dist[t], t, query.sources, query.admit, costs)
               ELSE BoundsDistance(result.dist[t], t, query.sources, query.admit, costs)
    <2>1. CASE result.certified \/ result.dist[t] # Inf
      BY <2>1 DEF Answer, IsDistance
    <2>2. CASE ~result.certified /\ result.dist[t] = Inf
      <3>1. t \in Vertex
        BY <1>1, QueryTypes
      <3>2. \A f \in [Vertex -> Cost] : f[t] <= Inf
        BY <3>1, CostEnds
      <3> QED BY <2>2, <3>2 DEF BoundsDistance
    <2> QED BY <2>1, <2>2
  <1>3. Oracle!SoundWithin(query.admit, result, query, costs)
    BY <1>2, SameBounds, SameDistance DEF Oracle!SoundWithin
  <1> QED BY <1>1, <1>3 DEF Oracle!SoundReplies

\* A workspace starts where the oracle starts.
LEMMA OracleInit == Init => Oracle!Init
  BY SameNodes DEF Init, Oracle!Init, ServedCall, ReadyReply

\* Every step is a step of the oracle or is invisible to the caller.
LEMMA OracleStep == DistanceInv /\ DistanceInv' /\ [Next]_vars => [Oracle!Next]_Oracle!oracleVars
  <1> SUFFICES ASSUME DistanceInv, DistanceInv', [Next]_vars
               PROVE  Oracle!Next \/ UNCHANGED <<costs, ServedCall, ReadyReply>>
    BY DEF Oracle!oracleVars
  <1>0. /\ query \in Queries /\ query' \in Queries /\ query # NoCall /\ query' # NoCall
        /\ phase = "done" => result # NoReply
    <2>1. query \in Queries /\ query' \in Queries
      BY DEF DistanceInv, WorkspaceInv, TypeInv, TypeOK
    <2>2. phase = "done" => result \in [certified : BOOLEAN, dist : [query.targets -> Cost]]
      BY DEF DistanceInv, ResultInv, Answer
    <2> QED BY <2>1, <2>2, MarkerAssumption
  <1>1. CASE UpdateCosts
    <2>1. costs' \in [Vertex -> Costs] /\ phase = "idle" /\ phase' = "idle"
      BY <1>1 DEF UpdateCosts, host
    <2>2. Oracle!SetCosts
      BY <2>1, SameNodes DEF Oracle!SetCosts, ServedCall, ReadyReply
    <2> QED BY <2>2 DEF Oracle!Next
  <1>2. CASE Begin
    <2>1. phase = "idle" /\ phase' = "bucket" /\ UNCHANGED costs
      BY <1>2 DEF Begin
    <2>2. Oracle!Ask
      BY <1>0, <2>1 DEF Oracle!Ask, ServedCall, ReadyReply
    <2> QED BY <2>2 DEF Oracle!Next
  \* A step inside a call.
  <1>a. ASSUME phase \notin {"idle", "done"}, phase' \notin {"idle", "done"}, UNCHANGED <<costs, query>>
        PROVE  UNCHANGED <<costs, ServedCall, ReadyReply>>
    BY <1>a DEF ServedCall, ReadyReply
  <1>3. CASE StartBucket \/ LeaveLoop \/ StartLight \/ StartHeavy \/ SkipHeavyPhase \/ EndKernel
    BY <1>3, <1>a DEF StartBucket, LeaveLoop, StartLight, StartHeavy, SkipHeavyPhase, EndKernel, Launch
  <1>4. ASSUME NEW u \in Vertex, Kernel(u)
        PROVE  UNCHANGED <<costs, ServedCall, ReadyReply>>
    BY <1>4, <1>a DEF Kernel, LoadLabel, SkipEdge, RelaxEdge, FinishThread, host
  <1>5. CASE StopAfterBucket \/ AdvanceBucket \/ CallbackThrows \/ Extract
    BY <1>5, <1>a DEF StopAfterBucket, AdvanceBucket, CallbackThrows, Extract
  <1>6. CASE Reset
    <2>1. /\ phase = "reset" /\ phase' = (IF stop = "threw" THEN "idle" ELSE "done")
          /\ UNCHANGED <<costs, query, result, stop>>
      BY <1>6 DEF Reset
    <2>2. CASE stop = "threw"
      <3>1. Oracle!Fail
        BY <1>0, <2>1, <2>2 DEF Oracle!Fail, ServedCall, ReadyReply
      <3> QED BY <3>1 DEF Oracle!Next
    <2>3. CASE stop # "threw"
      <3>1. result \in Oracle!SoundReplies(query, costs)
        BY <2>1, <2>3, RepliesSound DEF DistanceInv, ResultInv
      <3>2. Oracle!Answer
        BY <1>0, <2>1, <2>3, <3>1 DEF Oracle!Answer, ServedCall, ReadyReply
      <3> QED BY <3>2 DEF Oracle!Next
    <2> QED BY <2>2, <2>3
  <1>7. CASE Return
    <2>1. Oracle!Return
      BY <1>0, <1>7 DEF Return, Oracle!Return, ServedCall, ReadyReply
    <2> QED BY <2>1 DEF Oracle!Next
  <1>8. CASE UNCHANGED vars
    <2>1. UNCHANGED <<costs, phase, query, result>>
      BY <1>8 DEF vars, host
    <2> QED BY <2>1 DEF ServedCall, ReadyReply
  <1> QED BY <1>1, <1>2, <1>3, <1>4, <1>5, <1>6, <1>7, <1>8 DEF Next, Work

\* A Delta-Stepping workspace implements the oracle PathFinder calls: buckets,
\* queues, tokens and the sparse reset are invisible, an answer is given only
\* when it is sound, and a call that throws leaves nothing behind.
THEOREM DeltaIsOracle == Spec => ImplementsOracle
  <1>1. Spec => [][Oracle!Next]_Oracle!oracleVars
    BY OracleStep, DistanceInvariant, PTL DEF Spec
  <1> QED BY <1>1, OracleInit, PTL DEF Spec, ImplementsOracle, Oracle!OracleSpec
=============================================================================
