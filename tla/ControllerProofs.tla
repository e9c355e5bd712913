--------------------------- MODULE ControllerProofs ---------------------------
(***************************************************************************)
(* The reduced-round-trip controller, for every graph and every query.     *)
(*                                                                         *)
(* ReservationSuffices: the generation tokens a batch may use were         *)
(* reserved before its launch.  The other theorems hold as long as the     *)
(* counter of a query's light rounds does not fill up:                     *)
(*   HostAlwaysAccepts            the host refuses no descriptor;          *)
(*   DeviceFollowsModel           the sequential model publishes the same; *)
(*   ControllerImplementsHostLoop the batches behave as the loop in which  *)
(*                                the host decides after every round.      *)
(*                                                                         *)
(* The last one carries the invariant of DeltaProofs over to this          *)
(* controller: every step is one of the host's loop (the ...Maps lemmas),  *)
(* which keeps that invariant, and the controller's own part is kept by    *)
(* each of its actions (the ...Keeps lemmas).                              *)
(***************************************************************************)
EXTENDS ControllerRefinement, CsrGraphLemmas

-----------------------------------------------------------------------------
(* The tokens a batch uses: at most two for each of its rounds. *)

\* The two kinds of phases of a batch: in a round, and after the round that closed
\* a bucket.
LightPart == phase = "closure" \/ (phase = "kernel" /\ kernel = "light")
HeavyPart == phase \in {"boundary", "settle", "compacted"} \/ (phase = "kernel" /\ kernel = "heavy")

\* What is left of the reserved range covers what is left of the batch.
RangeInv ==
    /\ "rounds" \in DOMAIN descriptor
    /\ phase = "kernel" => kernel \in {"light", "heavy"}
    /\ Generations =>
          /\ generation \in 0 .. MaxGeneration /\ inCurrent \in [Vertex -> Nat] /\ cursor \in Nat
          /\ \A v \in Vertex : inCurrent[v] <= generation
          /\ LightPart => /\ descriptor.rounds \in 0 .. BatchSize - 1
                          /\ cursor + 2 * (BatchSize - descriptor.rounds) <= generation + 1
          /\ HeavyPart => /\ descriptor.rounds \in 0 .. BatchSize
                          /\ cursor + 2 * (BatchSize - descriptor.rounds) <= generation

\* No step uses a token beyond the range, and a launch reserves a whole one.
LEMMA RangeStep == RangeInv /\ [ControllerNext]_controllerVars => RangeInv'
  <1> SUFFICES ASSUME RangeInv, [ControllerNext]_controllerVars PROVE RangeInv'
    OBVIOUS
  <1> USE ControllerAssumption, DeltaAssumption
  <1>1. CASE BeginCall
    <2>1. PICK r \in Queries : Begin!(r)
      BY <1>1 DEF BeginCall, Begin
    <2>2. Generations => Token \in 1 .. MaxGeneration /\ generation' = Token
      BY <2>1 DEF AcquireToken, RangeInv, Token
    <2>3. Generations => \A v \in Vertex : CurrentMarks[v] \in Nat /\ CurrentMarks[v] <= Token
      BY DEF CurrentMarks, Wraps, Token, RangeInv
    <2> QED BY <1>1, <2>1, <2>2, <2>3 DEF RangeInv, LightPart, HeavyPart, BeginCall
  <1>2. CASE EnterController
    BY <1>2 DEF EnterController, RangeInv, LightPart, HeavyPart, arrays, Model!Idle
  <1>3. CASE BypassController \/ HostCheck
    BY <1>3 DEF BypassController, HostCheck, RangeInv, LightPart, HeavyPart, arrays, control
  <1>4. CASE LaunchBatch
    <2> DEFINE first == IF TokensRunOut THEN 1 ELSE generation + 1
    <2>1. /\ phase' \in {"closure", "batchEnd"} /\ "rounds" \in DOMAIN descriptor'
          /\ phase' = "closure" => descriptor'.rounds = 0
      BY <1>4 DEF LaunchBatch, RangeInv, Finished
    <2>2. Generations => /\ inCurrent' = IF TokensRunOut THEN [v \in Vertex |-> 0] ELSE inCurrent
                         /\ generation' = first - 1 + TokensPerBatch /\ cursor' = first
      BY <1>4 DEF LaunchBatch
    <2>3. Generations => /\ first \in Nat /\ first - 1 + TokensPerBatch \in 0 .. MaxGeneration
                         /\ ~TokensRunOut => generation <= first - 1
      BY DEF RangeInv, TokensPerBatch, TokensRunOut
    <2>4. Generations => cursor' + 2 * BatchSize = generation' + 1
      BY <2>2, <2>3 DEF TokensPerBatch
    <2>5. Generations => /\ generation' \in 0 .. MaxGeneration /\ inCurrent' \in [Vertex -> Nat] /\ cursor' \in Nat
                         /\ \A v \in Vertex : inCurrent'[v] <= generation'
      BY <2>2, <2>3 DEF RangeInv, TokensPerBatch
    <2> HIDE DEF first
    <2> QED BY <2>1, <2>4, <2>5 DEF RangeInv, LightPart, HeavyPart
  <1>5. CASE StartRound
    BY <1>5 DEF StartRound, RangeInv, LightPart, HeavyPart, Launch, Finished
  <1>6. ASSUME NEW u \in Vertex, LightThread(u) \/ HeavyThread(u) PROVE RangeInv'
    <2>1. /\ Device!Kernel(u) /\ UNCHANGED <<descriptor, cursor, generation>>
      BY <1>6 DEF LightThread, HeavyThread
    <2>2. CASE Device!LoadLabel(u) \/ Device!SkipEdge(u) \/ Device!FinishThread(u)
      BY <2>1, <2>2
         DEF Device!LoadLabel, Device!SkipEdge, Device!FinishThread, Device!arrays, Device!host,
             RangeInv, LightPart, HeavyPart
    <2>3. CASE Device!RelaxEdge(u)
      <3>1. inCurrent' = inCurrent \/ inCurrent' = [inCurrent EXCEPT ![to[epos[u]]] = Device!Claim]
        BY <2>3 DEF Device!RelaxEdge
      <3>2. phase = "kernel" /\ UNCHANGED <<phase, kernel>>
        BY <2>1, <2>3 DEF Device!RelaxEdge, Device!host, Device!Kernel
      <3> QED BY <2>1, <3>1, <3>2 DEF RangeInv, LightPart, HeavyPart, Device!Claim
    <2> QED BY <2>1, <2>2, <2>3 DEF Device!Kernel
  <1>7. CASE EndRound
    <2> DEFINE counted == [descriptor EXCEPT !.current = next.count, !.pending = pending.count,
                                             !.lightRounds = @ + 1, !.rounds = @ + 1]
    <2>1. "rounds" \in DOMAIN counted /\ counted.rounds = descriptor.rounds + 1
      BY DEF RangeInv
    <2>2. phase = "kernel" /\ kernel = "light" /\ UNCHANGED <<inCurrent, generation>>
      BY <1>7 DEF EndRound, ThreadsDone, arrays
    <2>3. CASE phase' = "batchEnd"
      <3>1. /\ cursor' \in {cursor, NextCursor}
            /\ descriptor' = counted \/ \E bad : descriptor' = Finished(descriptor, bad)
        BY <1>7 DEF EndRound
      <3>2. \A bad : "rounds" \in DOMAIN Finished(descriptor, bad)
        BY DEF Finished, RangeInv
      <3>3. "rounds" \in DOMAIN descriptor' /\ (Generations => cursor' \in Nat)
        <4> HIDE DEF counted
        <4> QED BY <2>1, <3>1, <3>2 DEF NextCursor, RangeInv
      <3> QED BY <2>2, <2>3, <3>3 DEF RangeInv, LightPart, HeavyPart
    <2>4. CASE /\ descriptor' = counted /\ cursor' = NextCursor
               /\ phase' = "boundary" \/ (phase' = "closure" /\ counted.rounds < BatchSize)
      <3> HIDE DEF counted
      <3> QED BY <2>1, <2>2, <2>4 DEF RangeInv, LightPart, HeavyPart, NextCursor
    <2> QED BY <1>7, <2>3, <2>4 DEF EndRound, GoesOn
  <1>8. CASE StartHeavyRange \/ NoHeavyRange \/ EndHeavyRange
    BY <1>8
       DEF StartHeavyRange, NoHeavyRange, EndHeavyRange, ThreadsDone, Launch, Finished,
           RangeInv, LightPart, HeavyPart, arrays, control, threads
  <1>9. CASE CloseLast \/ Publish
    <2>1. CASE CloseLast
      <3>1. "rounds" \in DOMAIN descriptor'
        BY <2>1 DEF CloseLast, Finished, RangeInv
      <3>2. phase' = "batchEnd" /\ UNCHANGED <<inCurrent, generation, cursor>>
        BY <2>1 DEF CloseLast, arrays
      <3> QED BY <3>1, <3>2 DEF RangeInv, LightPart, HeavyPart
    <2>2. CASE Publish
      <3>1. "rounds" \in DOMAIN descriptor'
        BY <2>2 DEF Publish, RangeInv
      <3>2. phase' = "published" /\ UNCHANGED <<inCurrent, generation, cursor>>
        BY <2>2 DEF Publish, arrays
      <3> QED BY <3>1, <3>2 DEF RangeInv, LightPart, HeavyPart
    <2> QED BY <1>9, <2>1, <2>2
  <1>10. CASE Compact
    <2>1. \A v \in Vertex : inCurrent'[v] = inCurrent[v] \/ inCurrent'[v] = Device!Claim
      BY <1>10 DEF Compact
    <2>2. DOMAIN inCurrent' = Vertex /\ inCurrent' = [v \in Vertex |-> inCurrent'[v]]
      BY <1>10 DEF Compact
    <2>3. "rounds" \in DOMAIN descriptor' /\ descriptor'.rounds = descriptor.rounds
      BY <1>10 DEF Compact, RangeInv
    <2>4. phase = "settle" /\ phase' = "compacted" /\ UNCHANGED <<cursor, generation>>
      BY <1>10 DEF Compact
    <2> QED BY <2>1, <2>2, <2>3, <2>4 DEF RangeInv, LightPart, HeavyPart, Device!Claim
  <1>11. CASE Commit
    <2>1. /\ phase = "compacted" /\ cursor' = NextCursor /\ UNCHANGED <<inCurrent, generation>>
          /\ phase' = "batchEnd" \/ (phase' = "closure" /\ descriptor.rounds < BatchSize)
      BY <1>11 DEF Commit, arrays, GoesOn
    <2>2. "rounds" \in DOMAIN descriptor' /\ descriptor'.rounds = descriptor.rounds
      BY <1>11 DEF Commit, Finished, RangeInv
    <2> QED BY <2>1, <2>2 DEF RangeInv, LightPart, HeavyPart, NextCursor
  <1>12. CASE ControllerFails
    BY <1>12 DEF ControllerFails, RangeInv, LightPart, HeavyPart
  <1>13. CASE (Extract \/ UpdateCosts \/ Return) /\ UNCHANGED control
    BY <1>13 DEF Extract, UpdateCosts, Return, RangeInv, LightPart, HeavyPart, control, arrays, host
  <1>14. CASE Reset /\ UNCHANGED control
    BY <1>14 DEF Reset, RangeInv, LightPart, HeavyPart, control
  <1>15. CASE UNCHANGED controllerVars
    BY <1>15 DEF controllerVars, vars, arrays, host, threads, control, RangeInv, LightPart, HeavyPart
  <1> QED BY <1>1, <1>2, <1>3, <1>4, <1>5, <1>6, <1>7, <1>8, <1>9, <1>10, <1>11, <1>12, <1>13,
             <1>14, <1>15
             DEF ControllerNext, ControllerWork, Batch

\* The host reserves enough tokens for a batch, however its rounds fall out,
\* before the range wraps and after.
THEOREM ReservationSuffices == ControllerSpec => []TokensReserved
  <1>1. ControllerInit => RangeInv
    BY DeltaAssumption DEF ControllerInit, Init, IdleThreads, RangeInv, LightPart, HeavyPart, Model!Idle
  <1>2. RangeInv => TokensReserved
    BY ControllerAssumption DEF RangeInv, TokensReserved, LightPart, HeavyPart
  <1> QED BY <1>1, <1>2, RangeStep, PTL DEF ControllerSpec
-----------------------------------------------------------------------------
(* The host's loop, with what is proved about it. *)

\* No set holds the set of its elements that are no elements of themselves: a
\* value that is no query, and one that is no answer.
Beyond(S) == {x \in S : x \notin x}

LEMMA BeyondIsBeyond == \A S : Beyond(S) \notin S
  BY DEF Beyond

\* DeltaProofs of the host's loop: Boolean flags, and the mapped loop scalars.
H == INSTANCE DeltaProofs WITH
    NoCall <- Beyond(Queries),
    NoReply <- Beyond(UNION {[certified : BOOLEAN, dist : [r.targets -> Cost]] : r \in Queries}),
    Generations <- FALSE, MaxGeneration <- 1, generation <- 0, inCurrent <- BooleanFlags,
    bucket <- HostBucket, iter <- HostIter, phase <- HostPhase, stop <- HostStop,
    heavy <- HostHeavy

\* The host's loop runs on the same graph with the same queries.
LEMMA HostConstants ==
  /\ H!Vertex = Vertex /\ H!Edge = Edge /\ H!Inf = Inf /\ H!Cost = Cost
  BY DEF H!Vertex, Vertex, H!Edge, Edge, H!Inf, Inf, H!Cost, Cost

\* So what DeltaProofs assumes of its constants holds.
LEMMA HostAssumptions ==
  H!GraphAssumption /\ H!RoundAssumption /\ H!DeltaAssumption /\ H!MarkerAssumption
  <1>1. H!GraphAssumption
    BY GraphAssumption, HostConstants DEF GraphAssumption, H!GraphAssumption
  <1>2. H!RoundAssumption
    BY RoundAssumption DEF RoundAssumption, H!RoundAssumption
  <1>3. H!DeltaAssumption
    BY DeltaAssumption, HostConstants DEF DeltaAssumption, H!DeltaAssumption
  <1>4. H!MarkerAssumption
    <2>1. Beyond(Queries) \notin Queries
      BY BeyondIsBeyond
    <2>2. ASSUME NEW r \in Queries
          PROVE Beyond(UNION {[certified : BOOLEAN, dist : [q.targets -> Cost]] : q \in Queries})
                    \notin [certified : BOOLEAN, dist : [r.targets -> Cost]]
      BY BeyondIsBeyond
    <2> QED BY <2>1, <2>2, HostConstants DEF H!MarkerAssumption
  <1> QED BY <1>1, <1>2, <1>3, <1>4

\* The invariant of DeltaProofs is inductive for the host's loop.
LEMMA HostInvariantStep == H!WorkspaceInv /\ [H!Next]_H!vars => H!WorkspaceInv'
  <1>1. H!TypeInv /\ [H!Next]_H!vars => H!TypeInv'
    BY HostAssumptions, H!TypeStep
  <1>2. H!TypeInv /\ H!TypeInv' /\ H!QueueInv /\ [H!Next]_H!vars => H!QueueInv'
    BY HostAssumptions, H!QueueStep
  <1> QED BY <1>1, <1>2 DEF H!WorkspaceInv

\* With it, that its distances stay below the limit.
HostInv == H!WorkspaceInv /\ H!BucketInv /\ H!ReachInv

\* DeltaProofs' own copies of the definitions of DeltaStepping are those of HostLoop.
LEMMA SameQueueOf == \A S : H!QueueOf(S) = HostLoop!QueueOf(S)
  BY DEF H!QueueOf, HostLoop!QueueOf, H!Cardinality, HostLoop!Cardinality

\* The same buckets,
LEMMA SameBucket == \A c : H!Bucket(c) = HostLoop!Bucket(c)
  BY DEF H!Bucket, HostLoop!Bucket, H!Min2, HostLoop!Min2, H!Inf, HostLoop!Inf

\* the same candidate distances,
LEMMA SameCandidate == \A u : H!Candidate(u) = HostLoop!Candidate(u)
  BY DEF H!Candidate, HostLoop!Candidate, H!Saturate, HostLoop!Saturate, H!Weight,
         HostLoop!Weight, H!EffectiveWeight, HostLoop!EffectiveWeight, H!Inf, HostLoop!Inf

\* the same edges for a kernel to relax,
LEMMA SameEligible == \A u : H!Eligible(u) <=> HostLoop!Eligible(u)
  <1>1. \A e : H!Weight(e) = HostLoop!Weight(e)
    BY DEF H!Saturate, HostLoop!Saturate, H!Weight, HostLoop!Weight, H!EffectiveWeight,
           HostLoop!EffectiveWeight, H!Inf, HostLoop!Inf
  <1>2. H!AllLight <=> HostLoop!AllLight
    BY DEF H!AllLight, HostLoop!AllLight, H!Terminal, HostLoop!Terminal, H!SkipHeavy,
           HostLoop!SkipHeavy, H!Edge, HostLoop!Edge
  <1>3. \A e, c : H!IsLight(e, c) <=> HostLoop!IsLight(e, c)
    BY <1>1, <1>2, SameBucket DEF H!IsLight, HostLoop!IsLight
  <1>4. \A e, c : H!IsHeavy(e, c) <=> HostLoop!IsHeavy(e, c)
    BY <1>1, SameBucket DEF H!IsHeavy, HostLoop!IsHeavy
  <1> QED BY <1>3, <1>4, SameCandidate DEF H!Eligible, HostLoop!Eligible

\* and so the same steps, one after the other.
LEMMA BSkipEdge == \A u : H!SkipEdge(u) => HostLoop!SkipEdge(u)
  BY SameEligible
     DEF H!SkipEdge, HostLoop!SkipEdge, H!Inf, HostLoop!Inf, H!arrays, HostLoop!arrays, H!host,
         HostLoop!host, H!queues, HostLoop!queues

\* Relaxing an edge.
LEMMA BRelaxEdge == \A u : H!RelaxEdge(u) => HostLoop!RelaxEdge(u)
  <1>1. \A e : H!Payload(e) = HostLoop!Payload(e)
    BY DEF H!Payload, HostLoop!Payload, H!SourceForEdge, HostLoop!SourceForEdge, H!Vertex,
           HostLoop!Vertex, H!OutEdges, HostLoop!OutEdges
  <1> QED
  BY <1>1, SameEligible, SameCandidate, SameBucket
     DEF H!RelaxEdge, HostLoop!RelaxEdge, H!Inf, HostLoop!Inf, H!host, HostLoop!host,
         H!Unclaimed, HostLoop!Unclaimed, H!Min2, HostLoop!Min2, H!PublishesParent,
         HostLoop!PublishesParent, H!KeyLess, HostLoop!KeyLess, H!Push, HostLoop!Push, H!Claim,
         HostLoop!Claim

\* The start of a query.
LEMMA BBegin == H!Begin => HostLoop!Begin
  BY SameQueueOf
     DEF H!Begin, HostLoop!Begin, H!AcquireToken, HostLoop!AcquireToken, H!Token,
         HostLoop!Token, H!Vertex, HostLoop!Vertex, H!CurrentMarks, HostLoop!CurrentMarks,
         H!Wraps, HostLoop!Wraps, H!EmptyQueue, HostLoop!EmptyQueue, H!threads, HostLoop!threads

\* The targets a closed bucket settles.
LEMMA SameSettled == H!NowSettled = HostLoop!NowSettled
  BY SameBucket DEF H!NowSettled, HostLoop!NowSettled, H!Inf, HostLoop!Inf

\* The decision that closes a bucket.
LEMMA BAdvanceBucket == H!AdvanceBucket => HostLoop!AdvanceBucket
  <1>1. H!Successors = HostLoop!Successors
    BY SameBucket DEF H!Successors, HostLoop!Successors
  <1>2. H!NextBucket = HostLoop!NextBucket
    BY <1>1 DEF H!NextBucket, HostLoop!NextBucket
  <1>3. H!NowSettled = HostLoop!NowSettled
    BY SameSettled
  <1>4. H!Limited <=> HostLoop!Limited
    BY DEF H!Limited, HostLoop!Limited, H!Inf, HostLoop!Inf
  <1>5. H!LastAllowed = HostLoop!LastAllowed
    BY DEF H!LastAllowed, HostLoop!LastAllowed, H!Cost, HostLoop!Cost, H!Inf, HostLoop!Inf,
           H!Bucket, HostLoop!Bucket, H!Min2, HostLoop!Min2
  <1>6. H!StopReason = HostLoop!StopReason
    BY <1>1, <1>2, <1>3, <1>4, <1>5 DEF H!StopReason, HostLoop!StopReason
  <1> QED
    BY <1>2, <1>3, <1>6, SameBucket, SameQueueOf
       DEF H!AdvanceBucket, HostLoop!AdvanceBucket, H!CurrentMarks, HostLoop!CurrentMarks,
           H!Wraps, HostLoop!Wraps, H!Vertex, HostLoop!Vertex, H!AcquireToken,
           HostLoop!AcquireToken, H!Token, HostLoop!Token, H!threads, HostLoop!threads

\* The chains the answer is checked along.
LEMMA SameChains == H!ChainsValid <=> HostLoop!ChainsValid
  <1>1. \A v : H!ChainRoot(v) = HostLoop!ChainRoot(v)
    BY DEF H!ChainRoot, HostLoop!ChainRoot, H!ParentEdge, HostLoop!ParentEdge, H!Payload,
           HostLoop!Payload, H!NoEdge, HostLoop!NoEdge, H!Saturate, HostLoop!Saturate, H!Weight,
           HostLoop!Weight, H!EffectiveWeight, HostLoop!EffectiveWeight, H!Inf, HostLoop!Inf,
           H!SourceForEdge, HostLoop!SourceForEdge, H!Vertex, HostLoop!Vertex, H!OutEdges,
           HostLoop!OutEdges, H!TightInto, HostLoop!TightInto, H!Edge, HostLoop!Edge, H!IsRoot,
           HostLoop!IsRoot, H!NoKey, HostLoop!NoKey
  <1>2. H!Answered = HostLoop!Answered
    BY DEF H!Answered, HostLoop!Answered, H!Certified, HostLoop!Certified
  <1> QED
    BY <1>1, <1>2 DEF H!ChainsValid, HostLoop!ChainsValid, H!Inf, HostLoop!Inf

\* The answer, and everything else.
LEMMA BExtract == H!Extract => HostLoop!Extract
    BY SameChains
       DEF H!Extract, HostLoop!Extract, H!Certified, HostLoop!Certified, H!Answered,
           HostLoop!Answered, H!Inf, HostLoop!Inf, H!arrays, HostLoop!arrays, H!queues,
           HostLoop!queues, H!threads, HostLoop!threads

\* And the initial states, and the steps that look at few arrays.
LEMMA BInit == H!Init => HostLoop!Init
  BY DEF H!Init, HostLoop!Init, H!Vertex, HostLoop!Vertex, H!Inf, HostLoop!Inf, H!NoKey,
         HostLoop!NoKey, H!EmptyQueue, HostLoop!EmptyQueue, H!NoResult, HostLoop!NoResult,
         H!IdleThreads, HostLoop!IdleThreads

LEMMA BUpdateCosts == H!UpdateCosts => HostLoop!UpdateCosts
  BY DEF H!UpdateCosts, HostLoop!UpdateCosts, H!Vertex, HostLoop!Vertex, H!arrays,
         HostLoop!arrays, H!host, HostLoop!host, H!queues, HostLoop!queues, H!threads,
         HostLoop!threads

LEMMA BStartBucket == H!StartBucket => HostLoop!StartBucket
  BY DEF H!StartBucket, HostLoop!StartBucket, H!OutOfBudget, HostLoop!OutOfBudget, H!Limited,
         HostLoop!Limited, H!Inf, HostLoop!Inf, H!LastAllowed, HostLoop!LastAllowed, H!Bucket,
         HostLoop!Bucket, H!Min2, HostLoop!Min2, H!Cost, HostLoop!Cost, H!EmptyQueue,
         HostLoop!EmptyQueue, H!arrays, HostLoop!arrays, H!threads, HostLoop!threads

LEMMA BLeaveLoop == H!LeaveLoop => HostLoop!LeaveLoop
  BY DEF H!LeaveLoop, HostLoop!LeaveLoop, H!OutOfBudget, HostLoop!OutOfBudget, H!Limited,
         HostLoop!Limited, H!Inf, HostLoop!Inf, H!LastAllowed, HostLoop!LastAllowed, H!Bucket,
         HostLoop!Bucket, H!Min2, HostLoop!Min2, H!Cost, HostLoop!Cost, H!arrays,
         HostLoop!arrays, H!queues, HostLoop!queues, H!threads, HostLoop!threads

LEMMA BStartLight == H!StartLight => HostLoop!StartLight
  BY DEF H!StartLight, HostLoop!StartLight, H!EmptyQueue, HostLoop!EmptyQueue, H!AcquireToken,
         HostLoop!AcquireToken, H!Token, HostLoop!Token, H!ClearedFlags, HostLoop!ClearedFlags,
         H!CurrentMarks, HostLoop!CurrentMarks, H!Wraps, HostLoop!Wraps, H!Vertex,
         HostLoop!Vertex, H!Launch, HostLoop!Launch

LEMMA BStartHeavy == H!StartHeavy => HostLoop!StartHeavy
  BY DEF H!StartHeavy, HostLoop!StartHeavy, H!HeavyPhase, HostLoop!HeavyPhase, H!SkipHeavy,
         HostLoop!SkipHeavy, H!Edge, HostLoop!Edge, H!Terminal, HostLoop!Terminal, H!Launch,
         HostLoop!Launch, H!Vertex, HostLoop!Vertex, H!arrays, HostLoop!arrays, H!queues,
         HostLoop!queues

LEMMA BSkipHeavyPhase == H!SkipHeavyPhase => HostLoop!SkipHeavyPhase
  BY DEF H!SkipHeavyPhase, HostLoop!SkipHeavyPhase, H!HeavyPhase, HostLoop!HeavyPhase,
         H!SkipHeavy, HostLoop!SkipHeavy, H!Edge, HostLoop!Edge, H!Terminal, HostLoop!Terminal,
         H!arrays, HostLoop!arrays, H!queues, HostLoop!queues, H!threads, HostLoop!threads

LEMMA BEndKernel == H!EndKernel => HostLoop!EndKernel
  BY DEF H!EndKernel, HostLoop!EndKernel, H!Vertex, HostLoop!Vertex, H!arrays, HostLoop!arrays

LEMMA BLoadLabel == \A u : H!LoadLabel(u) => HostLoop!LoadLabel(u)
  BY DEF H!LoadLabel, HostLoop!LoadLabel, H!Bucket, HostLoop!Bucket, H!Inf, HostLoop!Inf,
         H!Min2, HostLoop!Min2, H!AllLight, HostLoop!AllLight, H!Terminal, HostLoop!Terminal,
         H!SkipHeavy, HostLoop!SkipHeavy, H!Edge, HostLoop!Edge, H!Push, HostLoop!Push, H!host,
         HostLoop!host

LEMMA BFinishThread == \A u : H!FinishThread(u) => HostLoop!FinishThread(u)
  BY DEF H!FinishThread, HostLoop!FinishThread, H!Inf, HostLoop!Inf, H!host, HostLoop!host,
         H!queues, HostLoop!queues

LEMMA BStopAfterBucket == H!StopAfterBucket => HostLoop!StopAfterBucket
  BY DEF H!StopAfterBucket, HostLoop!StopAfterBucket, H!StopReason, HostLoop!StopReason,
         H!NowSettled, HostLoop!NowSettled, H!Inf, HostLoop!Inf, H!Bucket, HostLoop!Bucket,
         H!Min2, HostLoop!Min2, H!Successors, HostLoop!Successors, H!Limited, HostLoop!Limited,
         H!NextBucket, HostLoop!NextBucket, H!LastAllowed, HostLoop!LastAllowed, H!Cost,
         HostLoop!Cost, H!arrays, HostLoop!arrays, H!queues, HostLoop!queues, H!threads,
         HostLoop!threads

LEMMA BReset == H!Reset => HostLoop!Reset
  BY DEF H!Reset, HostLoop!Reset, H!Vertex, HostLoop!Vertex, H!Inf, HostLoop!Inf,
         H!KeysAfterReset, HostLoop!KeysAfterReset, H!NoKey, HostLoop!NoKey, H!SkipHeavy,
         HostLoop!SkipHeavy, H!Edge, HostLoop!Edge, H!EmptyQueue, HostLoop!EmptyQueue, H!queues,
         HostLoop!queues, H!threads, HostLoop!threads

LEMMA BReturn == H!Return => HostLoop!Return
  BY DEF H!Return, HostLoop!Return, H!NoResult, HostLoop!NoResult, H!arrays, HostLoop!arrays,
         H!queues, HostLoop!queues, H!threads, HostLoop!threads

\* Every step of one copy is a step of the other.
LEMMA HostNext == H!Next => HostLoop!Next
  <1>1. \A u : H!Kernel(u) => HostLoop!Kernel(u)
    BY BLoadLabel, BSkipEdge, BRelaxEdge, BFinishThread DEF H!Kernel, HostLoop!Kernel
  <1>2. H!CallbackThrows => HostLoop!CallbackThrows
    BY SameSettled
       DEF H!CallbackThrows, HostLoop!CallbackThrows, H!arrays, HostLoop!arrays, H!queues,
           HostLoop!queues, H!threads, HostLoop!threads
  <1> QED
    BY <1>1, <1>2, BUpdateCosts, BBegin, BStartBucket, BLeaveLoop, BStartLight, BStartHeavy,
       BSkipHeavyPhase, BEndKernel, BStopAfterBucket, BAdvanceBucket, BExtract, BReset, BReturn,
       HostConstants
       DEF H!Next, HostLoop!Next, H!Work, HostLoop!Work, H!Vertex, HostLoop!Vertex
-----------------------------------------------------------------------------
(* The controller's inductive invariant, as long as no round counter is full. *)

\* The 32-bit counter of light rounds is not full: the leader reports a query that
\* fills it as invalid.
RoundsFit == descriptor.lightRounds < MaxCount

\* Where a call is: in a batch, in the launch loop, in the part of a batch after the
\* round that closed a bucket.
InBatch  == phase \in {"closure", "kernel", "boundary", "settle", "compacted"}
Launched == InBatch \/ phase \in {"host", "batchEnd", "published"}
Closing  == phase \in {"boundary", "settle"} \/ (phase = "kernel" /\ kernel = "heavy")

Status     == {"invalid", "overflow", "iterations", "target", "complete"}
\* A descriptor has all its fields, counters below infinity and flags it knows.
DescriptorOK(d) ==
    /\ DOMAIN d = {"query", "publication", "status", "phase", "action", "rounds", "lightRounds", "current",
                   "pending", "bucket", "next", "iterations"}
    /\ d.query \in Nat /\ d.publication \in Nat /\ d.status \in SUBSET Status
    /\ d.phase \in {"idle", "light", "boundary", "finished"}
    /\ d.action \in {"continue", "check", "advance"} \cup Status
    /\ d.rounds \in Nat /\ d.lightRounds \in Nat /\ d.current \in Nat /\ d.pending \in Nat
    /\ d.bucket \in Nat /\ d.next \in Nat /\ d.iterations \in Nat

\* Descriptors of the device and of the model, and the scalars of the loop.
ShapeInv ==
    /\ DescriptorOK(descriptor) /\ descriptor.bucket \in 0 .. NoBucket - 1
    /\ DescriptorOK(model) /\ model.query = sequence
    /\ cursor \in Nat /\ sequence \in Nat /\ accepted \in Nat /\ iter \in Nat /\ bucket = 0
    /\ phase \in {"idle", "bucket", "host", "closure", "kernel", "boundary", "settle", "compacted",
                  "batchEnd", "published", "extract", "reset", "done"}
    /\ kernel \in {"none", "light", "heavy"} /\ (kernel # "none" <=> phase = "kernel")

\* How a batch ends: with rounds left to do, or for one reason.
Ended ==
    \/ /\ descriptor.status = {} /\ descriptor.next = NoNext
       /\ descriptor.current = current.count /\ current.count # 0 /\ spent = EmptyQueue
    \/ /\ descriptor.status \in {{"target"}, {"complete"}, {"iterations"}}
       /\ descriptor.phase = "finished" /\ descriptor.action = Model!TerminalAction(descriptor.status)
       /\ descriptor.status = {"iterations"} => 0 <= query.maxIters /\ query.maxIters <= descriptor.iterations

\* Where the device and the host are in the launch loop.
LoopInv ==
    /\ phase = "bucket" => /\ accepted = 0 /\ iter = 0 /\ stop \in {"none", "target"}
                           /\ heavy = EmptyQueue /\ current.count # 0
    /\ Launched => /\ query.maxIters # 0 /\ stop = "none" /\ descriptor.query = sequence
                   /\ descriptor.rounds <= descriptor.lightRounds
                   /\ descriptor.publication = IF phase = "published" THEN accepted + 1 ELSE accepted
    /\ InBatch => descriptor.status = {}
    /\ phase = "host" => /\ descriptor.status = {} /\ descriptor.phase = "light"
                         /\ descriptor.action \in {"continue", "check"}
                         /\ descriptor.current = current.count
                         /\ descriptor.action = "continue" => descriptor.rounds = 0
    /\ phase \in {"host", "closure", "compacted"} => current.count # 0
    /\ phase = "kernel" /\ kernel = "light" => descriptor.next = NoNext
    /\ Closing => current.count = 0 /\ descriptor.current = 0
    /\ phase = "compacted" => /\ descriptor.next \in 0 .. NoBucket - 1
                              /\ Limited => descriptor.next <= LastAllowed
    /\ phase \in {"batchEnd", "published"} => Ended
    /\ phase = "published" /\ descriptor.status = {} => descriptor.phase = "light" /\ descriptor.action = "check"
    /\ phase \in {"bucket", "host"} \/ InBatch => spent = EmptyQueue

\* A mark that equals the device's token is a flag of the host's loop.
MarkInv ==
    /\ ~Generations => inCurrent = BooleanFlags
    /\ Generations =>
          /\ phase = "kernel" /\ kernel = "light" =>
                \A v \in Vertex : inCurrent[v] <= cursor /\ (inCurrent[v] = cursor <=> v \in next.nodes)
          /\ phase = "closure" \/ Closing => \A v \in Vertex : inCurrent[v] < cursor
          /\ phase = "compacted" => \A v \in Vertex : inCurrent[v] <= cursor

\* The fields in which the model and the device agree.
Agree(fields) == \A f \in fields : model[f] = descriptor[f]
Compared == {"query", "publication", "status", "phase", "action", "rounds", "lightRounds", "current",
             "bucket", "iterations"}

\* The leader reads the pending count at the end of a round; heavy edges may have
\* added to the queue since, and then a later bucket waits.
PendingSeen == /\ descriptor.pending <= pending.count
               /\ Device!Successors = {} => descriptor.pending = pending.count

\* What a batch ends with beside the fields of Ended and Compared: no next bucket,
\* and the pending count, which a query its targets end does not read again.
LastCounts ==
    /\ descriptor.next = NoNext /\ model.next = NoNext /\ model.pending = pending.count
    /\ IF "target" \in descriptor.status THEN descriptor.pending <= pending.count
       ELSE descriptor.pending = pending.count

\* What the sequential model has seen of a batch.
ModelInv ==
    LET seen == Model!Resumed(model)
        kept == {"publication", "bucket", "iterations"}
    IN
    /\ ~Launched => model.phase \in {"idle", "finished"}
    /\ phase \in {"host", "published"} => Agree(Compared)
    /\ InBatch => Agree(kept) /\ model.status = {}
    /\ LightPart \/ Closing => seen.phase = "light"
    /\ LightPart => seen.rounds = descriptor.rounds /\ seen.lightRounds = descriptor.lightRounds
    /\ Closing => seen.rounds + 1 = descriptor.rounds /\ seen.lightRounds + 1 = descriptor.lightRounds
    /\ phase = "compacted" =>
          /\ model.phase = "boundary" /\ model.action = "advance" /\ model.next = descriptor.next
          /\ Agree({"rounds", "lightRounds"}) /\ current.count + pending.count <= model.pending
    /\ phase = "batchEnd" =>
          /\ Agree(Compared \ {"publication", "phase", "action"})
          /\ model.publication = descriptor.publication + 1
          /\ IF Stopping(descriptor) THEN Agree({"phase", "action"})
             ELSE model.phase = "light" /\ model.action = "check"
    /\ Closing => PendingSeen
    /\ phase \in {"batchEnd", "published"} => LastCounts
    /\ Launched /\ phase # "compacted" => model.pending <= pending.count

-----------------------------------------------------------------------------
(* One graph, three views of it: the host's loop, the device and this module. *)

\* The host's loop sees the buckets, weights and limits of this module.
LEMMA HostLeaves ==
  /\ \A c : H!Bucket(c) = Bucket(c)
  /\ \A e : H!Weight(e) = Weight(e) /\ H!Payload(e) = Payload(e)
  /\ \A u : H!Candidate(u) = Candidate(u)
  /\ H!SkipHeavy <=> SkipHeavy
  /\ (H!Limited <=> Limited) /\ H!LastAllowed = LastAllowed
  /\ H!EmptyQueue = EmptyQueue /\ \A S : H!QueueOf(S) = QueueOf(S)
  /\ \A q, v : H!Push(q, v) = Push(q, v)
  <1>1. \A c : H!Bucket(c) = Bucket(c)
    BY DEF H!Bucket, Bucket, H!Min2, Min2, H!Inf, Inf
  <1>2. \A e : H!Weight(e) = Weight(e)
    BY DEF H!Weight, Weight, H!EffectiveWeight, EffectiveWeight, H!Saturate, Saturate, H!Inf, Inf
  <1>3. \A e : H!Payload(e) = Payload(e)
    BY DEF H!Payload, Payload, H!SourceForEdge, SourceForEdge, H!Vertex, Vertex, H!OutEdges, OutEdges
  <1>4. \A u : H!Candidate(u) = Candidate(u)
    BY <1>2 DEF H!Candidate, Candidate, H!Saturate, Saturate, H!Inf, Inf
  <1>5. H!SkipHeavy <=> SkipHeavy
    BY DEF H!SkipHeavy, SkipHeavy, H!Edge, Edge
  <1>6. H!LastAllowed = LastAllowed
    BY DEF H!LastAllowed, LastAllowed, H!Cost, Cost, H!Inf, Inf, H!Bucket, Bucket, H!Min2, Min2
  <1>7. \A S : H!QueueOf(S) = QueueOf(S)
    BY DEF H!QueueOf, QueueOf, H!Cardinality, Cardinality
  <1> QED BY <1>1, <1>2, <1>3, <1>4, <1>5, <1>6, <1>7
             DEF H!Limited, Limited, H!Inf, Inf, H!EmptyQueue, EmptyQueue, H!Push, Push

\* So does the device.
LEMMA DeviceLeaves ==
  /\ \A c : Device!Bucket(c) = Bucket(c)
  /\ \A e : Device!Weight(e) = Weight(e) /\ Device!Payload(e) = Payload(e)
  /\ \A u : Device!Candidate(u) = Candidate(u)
  /\ Device!SkipHeavy <=> SkipHeavy
  /\ (Device!Limited <=> Limited) /\ Device!LastAllowed = LastAllowed
  /\ \A q, v : Device!Push(q, v) = Push(q, v)
  <1>1. \A c : Device!Bucket(c) = Bucket(c)
    BY DEF Device!Bucket, Bucket, Device!Min2, Min2, Device!Inf, Inf
  <1>2. \A e : Device!Weight(e) = Weight(e)
    BY DEF Device!Weight, Weight, Device!EffectiveWeight, EffectiveWeight, Device!Saturate,
           Saturate, Device!Inf, Inf
  <1>3. \A e : Device!Payload(e) = Payload(e)
    BY DEF Device!Payload, Payload, Device!SourceForEdge, SourceForEdge, Device!Vertex, Vertex,
           Device!OutEdges, OutEdges
  <1>4. \A u : Device!Candidate(u) = Candidate(u)
    BY <1>2 DEF Device!Candidate, Candidate, Device!Saturate, Saturate, Device!Inf, Inf
  <1>5. Device!SkipHeavy <=> SkipHeavy
    BY DEF Device!SkipHeavy, SkipHeavy, Device!Edge, Edge
  <1>6. Device!LastAllowed = LastAllowed
    BY DEF Device!LastAllowed, LastAllowed, Device!Cost, Cost, Device!Inf, Inf, Device!Bucket,
           Bucket, Device!Min2, Min2
  <1> QED BY <1>1, <1>2, <1>3, <1>4, <1>5, <1>6 DEF Device!Limited, Limited, Device!Inf, Inf, Device!Push, Push

\* While the device works in a bucket, that bucket is the host loop's.
LEMMA SameDecisions ==
  ASSUME HostBucket = descriptor.bucket
  PROVE  /\ (H!AllLight <=> Device!AllLight) /\ (H!HeavyPhase <=> HeavyRange)
         /\ H!NowSettled = Device!NowSettled
         /\ H!Successors = Device!Successors /\ H!NextBucket = LeastPending /\ H!StopReason = Reason
  <1>1. H!NowSettled = Device!NowSettled
    BY HostLeaves, DeviceLeaves DEF H!NowSettled, Device!NowSettled, H!Inf, Device!Inf
  <1>2. H!Successors = Device!Successors
    BY HostLeaves, DeviceLeaves DEF H!Successors, Device!Successors
  <1>3. H!NextBucket = LeastPending
    BY <1>2 DEF H!NextBucket, LeastPending, Device!NextBucket
  <1>4. H!StopReason = Reason
    BY <1>1, <1>2, <1>3, HostLeaves, DeviceLeaves DEF H!StopReason, Reason, Device!StopReason, LeastPending
  <1>5. (H!AllLight <=> Device!AllLight) /\ (H!HeavyPhase <=> HeavyRange)
    BY HostLeaves, DeviceLeaves
       DEF H!AllLight, Device!AllLight, H!HeavyPhase, HeavyRange, Device!HeavyPhase, H!Terminal,
           Device!Terminal
  <1> QED BY <1>1, <1>2, <1>3, <1>4, <1>5

-----------------------------------------------------------------------------
(* What is known of the shared state. *)

\* A queue that names each of its nodes once.
Listed(q) == /\ q \in Queue /\ q.nodes \in SUBSET Vertex /\ q.count = Cardinality(q.nodes) /\ q.count \in 0 .. Rows
             /\ q.count = 0 <=> q.nodes = {}

\* What the invariant of the host's loop says of the state the two share.
SharedState ==
    /\ dist \in [Vertex -> Cost] /\ key \in [Vertex -> Cost \X Nat]
    /\ query \in Queries /\ query.maxIters \in Int /\ query.sources # {} /\ LastAllowed \in Int
    /\ \A q \in {touched, current, next, pending, HostHeavy} : Listed(q)
    /\ HostBucket \in 0 .. NoBucket - 1 /\ HostIter \in Nat
    /\ \A u \in Vertex : pc[u] \in {"off", "load", "edge"} /\ epos[u] \in 0 .. Nnz
                         /\ (pc[u] = "edge" => epos[u] <= rowptr[u + 1])

\* It follows from that invariant.
LEMMA SharedFacts ==
  ASSUME H!WorkspaceInv PROVE SharedState
  <1> USE DEF H!WorkspaceInv
  <1>1. H!TypeOK /\ H!CursorOK /\ H!QueuesFit
    BY DEF H!TypeInv, H!QueueInv
  <1>2. \A q : q \in H!Queue /\ q.count = H!Cardinality(q.nodes) => Listed(q)
    <2>1. \A q : q \in H!Queue => q \in Queue /\ q.nodes \in SUBSET Vertex
      BY HostConstants DEF H!Queue, Queue
    <2>2. \A S : H!Cardinality(S) = Cardinality(S)
      BY DEF H!Cardinality, Cardinality
    <2> QED BY <2>1, <2>2, FiniteNodes, FS_EmptySet, GraphTypes DEF Listed
  <1>3. LastAllowed \in Int
    BY HostLeaves, HostAssumptions, H!LimitRange
  <1> QED BY <1>1, <1>2, <1>3, HostConstants, DeltaAssumption DEF H!TypeOK, H!CursorOK, H!QueuesFit, SharedState

-----------------------------------------------------------------------------
(* Every step is one of the host's loop, or none. *)

\* What the mapping of a step needs.
LoopState == RangeInv /\ ShapeInv /\ LoopInv /\ MarkInv /\ SharedState

\* The start of a query is the start of a query.
LEMMA BeginMaps ==
  ASSUME LoopState, BeginCall, RecordSpent PROVE H!Begin
  <1> USE DEF LoopState
  <1>1. PICK r \in Queries : Begin!(r)
    BY DEF BeginCall, Begin
  <1>2. phase = "idle" /\ kernel = "none" /\ phase' = "bucket" /\ kernel' = "none" /\ accepted' = 0
    BY <1>1 DEF ShapeInv, BeginCall, threads
  <1>3. HostPhase = "idle" /\ HostPhase' = "bucket" /\ HostIter' = 0 /\ HostBucket' = 0
    BY <1>1, <1>2 DEF HostPhase, HostIter, HostBucket, Entered
  <1>4. HostStop' = stop' /\ HostHeavy' = H!EmptyQueue
    <2>1. spent' = EmptyQueue
      BY <1>2 DEF RecordSpent
    <2>2. stop' # "limit"
      BY <1>1
    <2> QED BY <1>1, <1>2, <2>1, <2>2, HostLeaves DEF HostStop, HostHeavy
  <1>5. BooleanFlags' = [v \in H!Vertex |-> IF v \in r.sources THEN H!Token ELSE H!CurrentMarks[v]]
    <2>1. BooleanFlags = [v \in Vertex |-> 0] /\ H!CurrentMarks = BooleanFlags /\ H!Token = 1
      BY <1>2 DEF BooleanFlags, H!CurrentMarks, H!Wraps, H!Token
    <2>2. current'.nodes = r.sources
      BY <1>1 DEF QueueOf
    <2> QED BY <1>2, <2>1, <2>2, HostConstants DEF BooleanFlags
  <1> QED BY <1>1, <1>3, <1>4, <1>5, HostLeaves, HostConstants DEF H!Begin, H!AcquireToken, H!threads, threads

\* Entering the launch loop starts the first bucket.
LEMMA EnterMaps ==
  ASSUME LoopState, EnterController, RecordSpent PROVE H!StartBucket
  <1> USE DEF LoopState
  <1>1. /\ phase = "bucket" /\ kernel = "none" /\ phase' = "host" /\ kernel' = "none" /\ descriptor'.status = {}
        /\ descriptor'.iterations = 0 /\ descriptor'.bucket = 0 /\ accepted = 0
    BY DEF EnterController, ShapeInv, LoopInv, Model!Idle, threads
  <1>2. HostPhase = "bucket" /\ HostPhase' = "closure" /\ HostIter = 0 /\ HostIter' = 0 /\ HostBucket = 0 /\ HostBucket' = 0
    BY <1>1 DEF HostPhase, HostIter, HostBucket, Entered, Stopping, ShapeInv, LoopInv
  <1>3. stop = "none" /\ HostStop = "none" /\ HostStop' = "none"
    BY <1>1 DEF EnterController, Launchable, HostStop, Surroundings
  <1>4. HostHeavy = EmptyQueue /\ HostHeavy' = EmptyQueue
    BY <1>1 DEF EnterController, RecordSpent, HostHeavy, LoopInv, queues
  <1>5. BooleanFlags' = BooleanFlags
    BY <1>1 DEF EnterController, BooleanFlags, queues
  <1>6. ~H!OutOfBudget /\ (H!Limited => HostBucket <= H!LastAllowed)
    BY <1>2, HostLeaves DEF EnterController, Launchable, SharedState, H!OutOfBudget
  <1> QED BY <1>2, <1>3, <1>4, <1>5, <1>6, HostLeaves
             DEF EnterController, H!StartBucket, H!arrays, H!threads, arrays, threads, queues,
                 Surroundings

\* A query with nothing to launch leaves the bucket loop.
LEMMA BypassMaps ==
  ASSUME LoopState, BypassController, RecordSpent PROVE H!LeaveLoop
  <1> USE DEF LoopState
  <1>1. /\ phase = "bucket" /\ kernel = "none" /\ phase' = "extract" /\ kernel' = "none"
        /\ accepted = 0 /\ accepted' = 0 /\ iter = 0 /\ iter' = 0 /\ bucket = 0 /\ bucket' = 0
    BY DEF BypassController, ShapeInv, LoopInv, threads, control
  <1>2. HostPhase = "bucket" /\ HostPhase' = "extract" /\ HostIter = 0 /\ HostIter' = 0 /\ HostBucket = 0 /\ HostBucket' = 0
    BY <1>1 DEF HostPhase, HostIter, HostBucket, Entered
  <1>3. HostHeavy' = HostHeavy /\ BooleanFlags' = BooleanFlags
    BY <1>1 DEF BypassController, RecordSpent, HostHeavy, BooleanFlags, queues
  <1>4. \/ HostStop # "none" /\ HostStop' = HostStop
        \/ HostStop = "none" /\ H!OutOfBudget /\ HostStop' = "maxIters"
        \/ HostStop = "none" /\ ~H!OutOfBudget /\ H!Limited /\ HostBucket > H!LastAllowed /\ HostStop' = "limit"
    <2>1. HostStop = stop /\ stop \in {"none", "target"} /\ query' = query
      BY <1>1 DEF HostStop, LoopInv, BypassController
    <2>2. H!OutOfBudget <=> query.maxIters = 0
      BY <1>2 DEF H!OutOfBudget, SharedState
    <2>3. CASE stop = "target"
      BY <1>1, <2>1, <2>3 DEF BypassController, HostStop
    <2>4. CASE stop = "none" /\ query.maxIters = 0
      BY <1>1, <2>1, <2>2, <2>4 DEF BypassController, HostStop
    <2>5. CASE stop = "none" /\ query.maxIters # 0
      <3>1. Limited /\ LastAllowed < 0 /\ stop' = "limit"
        BY <2>5 DEF BypassController, Launchable, SharedState
      <3> QED BY <1>1, <1>2, <2>1, <2>2, <2>5, <3>1, HostLeaves DEF HostStop, SharedState
    <2> QED BY <2>1, <2>3, <2>4, <2>5
  <1> QED BY <1>2, <1>3, <1>4, HostLeaves
             DEF BypassController, H!LeaveLoop, H!arrays, H!threads, H!queues, arrays, threads,
                 queues

\* A launch is none of the host loop's steps.
LEMMA LaunchMaps ==
  ASSUME LoopState, LaunchBatch, RecordSpent PROVE UNCHANGED H!vars
  <1> USE DEF LoopState
  <1>1. /\ phase = "host" /\ kernel = "none" /\ phase' = "closure" /\ kernel' = "none" /\ descriptor.status = {}
        /\ descriptor' = [descriptor EXCEPT !.action = "continue", !.rounds = 0]
    BY DEF LaunchBatch, ShapeInv, LoopInv, threads
  <1>2. descriptor'.bucket = descriptor.bucket /\ descriptor'.iterations = descriptor.iterations
    BY <1>1 DEF ShapeInv, DescriptorOK
  <1>3. UNCHANGED <<HostPhase, HostIter, HostBucket, HostStop, HostHeavy, BooleanFlags>>
    BY <1>1, <1>2
       DEF LaunchBatch, RecordSpent, HostPhase, HostIter, HostBucket, HostStop, HostHeavy,
           BooleanFlags, Entered, Stopping, Surroundings, queues
  <1> QED BY <1>3 DEF LaunchBatch, H!vars, H!arrays, H!host, H!queues, H!threads, threads, queues, Surroundings

\* Within a bucket the host's loop has the device's bucket and iterations.
LEMMA BucketView ==
  ASSUME ShapeInv, LoopInv, phase \in {"closure", "kernel", "boundary", "settle"}
  PROVE  /\ HostBucket = descriptor.bucket /\ HostIter = descriptor.iterations /\ HostStop = "none"
         /\ spent = EmptyQueue /\ HostHeavy = heavy /\ stop = "none" /\ descriptor.status = {}
         /\ HostPhase = IF phase = "boundary" THEN "closure" ELSE phase
         /\ phase # "kernel" => kernel = "none"
  BY DEF ShapeInv, LoopInv, Launched, InBatch, HostBucket, HostIter, HostStop, HostHeavy, HostPhase, Entered

\* A step within a bucket that ends in one.
LEMMA BucketMoves ==
  ASSUME ShapeInv, LoopInv, RecordSpent, phase \in {"closure", "kernel", "boundary", "settle"},
         phase' \in {"closure", "kernel", "boundary", "settle"} \/ (phase' = "batchEnd" /\ descriptor'.status = {}),
         UNCHANGED Surroundings,
         descriptor'.bucket = descriptor.bucket, descriptor'.iterations = descriptor.iterations
  PROVE  /\ UNCHANGED <<HostBucket, HostIter, HostStop>> /\ HostHeavy' = heavy'
         /\ HostPhase' = IF phase' \in {"boundary", "batchEnd"} THEN "closure" ELSE phase'
  <1>1. spent' = EmptyQueue
    BY BucketView DEF RecordSpent
  <1> QED BY <1>1, BucketView
             DEF Surroundings, HostBucket, HostIter, HostStop, HostHeavy, HostPhase, Entered,
                 Stopping

\* No queue outgrows its slots.
LEMMA NoOverflow ==
  ASSUME SharedState, HostHeavy = heavy PROVE Overflow = {}
  <1>1. \A q \in {touched, next, pending, heavy} : Listed(q)
    BY DEF SharedState
  <1>2. \A q : Listed(q) => ~(q.count > Rows)
    BY GraphTypes DEF Listed
  <1> QED BY <1>1, <1>2 DEF Overflow

\* A round is a round.
LEMMA RoundMaps ==
  ASSUME LoopState, StartRound, RecordSpent PROVE H!StartLight
  <1> USE DEF LoopState
  <1>1. phase = "closure" /\ kernel = "none" /\ current.count \in 1 .. Rows /\ descriptor.bucket \in 0 .. NoBucket - 1
    <2>1. phase = "closure"
      BY DEF StartRound
    <2>2. Listed(current)
      BY DEF SharedState
    <2>3. current.count \in 1 .. Rows
      BY <2>1, <2>2, GraphTypes DEF LoopInv, Listed
    <2> QED BY <2>1, <2>3 DEF ShapeInv
  <1>2. /\ descriptor' = [descriptor EXCEPT !.phase = "light", !.current = current.count, !.next = NoNext]
        /\ next' = EmptyQueue /\ Launch("light", current.nodes)
    BY <1>1 DEF StartRound
  <1>3. descriptor'.bucket = descriptor.bucket /\ descriptor'.iterations = descriptor.iterations
    BY <1>2 DEF ShapeInv, DescriptorOK
  <1>4. UNCHANGED <<HostBucket, HostIter, HostStop, heavy>> /\ HostHeavy = heavy /\ HostHeavy' = heavy'
        /\ HostPhase = "closure" /\ HostPhase' = "kernel"
    BY <1>1, <1>2, <1>3, BucketView, BucketMoves DEF StartRound, Launch
  <1>5. BooleanFlags' = H!ClearedFlags
    <2>1. BooleanFlags' = [v \in Vertex |-> 0]
      BY <1>2 DEF BooleanFlags, Launch, EmptyQueue
    <2>2. BooleanFlags = [v \in Vertex |-> IF v \in current.nodes THEN 1 ELSE 0]
      BY <1>1 DEF BooleanFlags
    <2> QED BY <2>1, <2>2, HostConstants DEF H!ClearedFlags
  <1> QED BY <1>1, <1>2, <1>4, <1>5, HostLeaves, HostConstants
             DEF StartRound, H!StartLight, H!AcquireToken, H!Launch, Launch, Surroundings

\* Its end swaps the queues.
LEMMA EndRoundMaps ==
  ASSUME LoopState, EndRound, RecordSpent, RoundsFit PROVE H!EndKernel
  <1> USE DEF LoopState
  <1>1. phase = "kernel" /\ kernel = "light" /\ kernel' = "none" /\ current' = next
    BY DEF EndRound, ThreadsDone
  <1>2. Overflow = {} /\ MaxCount \notin {descriptor.lightRounds, descriptor.rounds}
    <2>1. Overflow = {}
      BY <1>1, BucketView, NoOverflow
    <2>2. descriptor.rounds <= descriptor.lightRounds /\ descriptor.rounds \in Nat /\ descriptor.lightRounds \in Nat
      BY <1>1 DEF LoopInv, Launched, InBatch, ShapeInv, DescriptorOK
    <2> QED BY <2>1, <2>2, ControllerAssumption DEF RoundsFit
  <1>3. /\ phase' \in {"boundary", "closure", "batchEnd"}
        /\ descriptor' = [descriptor EXCEPT !.current = next.count, !.pending = pending.count,
                                            !.lightRounds = @ + 1, !.rounds = @ + 1]
    BY <1>2 DEF EndRound
  <1>4. descriptor'.bucket = descriptor.bucket /\ descriptor'.iterations = descriptor.iterations /\ descriptor'.status = {}
    BY <1>1, <1>3, BucketView DEF ShapeInv, DescriptorOK
  <1>5. UNCHANGED <<HostBucket, HostIter, HostStop, HostHeavy>> /\ HostPhase = "kernel" /\ HostPhase' = "closure"
    BY <1>1, <1>3, <1>4, BucketView, BucketMoves DEF EndRound
  <1>6. BooleanFlags' = BooleanFlags
    BY <1>1, <1>3 DEF BooleanFlags
  <1> QED BY <1>1, <1>5, <1>6, HostConstants DEF EndRound, ThreadsDone, H!EndKernel, H!arrays, arrays, Surroundings

\* The heavy edges of a bucket are relaxed in its closure phase.
LEMMA HeavyRangeMaps ==
  /\ LoopState /\ StartHeavyRange /\ RecordSpent => H!StartHeavy
  /\ LoopState /\ NoHeavyRange /\ RecordSpent => H!SkipHeavyPhase
  /\ LoopState /\ EndHeavyRange /\ RecordSpent => H!EndKernel
  <1> USE DEF LoopState
  <1>1. ASSUME LoopState, StartHeavyRange, RecordSpent PROVE H!StartHeavy
    <2>1. phase = "boundary" /\ phase' = "kernel" /\ kernel = "none" /\ kernel' = "heavy" /\ descriptor' = descriptor
          /\ current.count = 0
      BY <1>1 DEF StartHeavyRange, Launch, control, ShapeInv, LoopInv, Closing
    <2>2. UNCHANGED <<HostBucket, HostIter, HostStop, HostHeavy>> /\ HostHeavy = heavy /\ HostBucket = descriptor.bucket
          /\ HostPhase = "closure" /\ HostPhase' = "kernel"
      BY <1>1, <2>1, BucketView, BucketMoves DEF StartHeavyRange, queues
    <2>3. BooleanFlags' = BooleanFlags
      BY <1>1, <2>1 DEF BooleanFlags, StartHeavyRange, queues
    <2> QED BY <1>1, <2>1, <2>2, <2>3, SameDecisions, HostConstants
               DEF StartHeavyRange, H!StartHeavy, H!Launch, Launch, H!arrays, H!queues, arrays,
                   queues, Surroundings
  <1>2. ASSUME LoopState, NoHeavyRange, RecordSpent PROVE H!SkipHeavyPhase
    <2>1. phase = "boundary" /\ phase' = "settle" /\ kernel = "none" /\ kernel' = "none" /\ descriptor' = descriptor
          /\ current.count = 0
      BY <1>2 DEF NoHeavyRange, threads, control, ShapeInv, LoopInv, Closing
    <2>2. UNCHANGED <<HostBucket, HostIter, HostStop, HostHeavy>> /\ HostBucket = descriptor.bucket
          /\ HostPhase = "closure" /\ HostPhase' = "settle"
      BY <1>2, <2>1, BucketView, BucketMoves DEF NoHeavyRange, queues
    <2>3. BooleanFlags' = BooleanFlags
      BY <1>2, <2>1 DEF BooleanFlags, NoHeavyRange, queues
    <2> QED BY <1>2, <2>1, <2>2, <2>3, SameDecisions
               DEF NoHeavyRange, H!SkipHeavyPhase, H!arrays, H!queues, H!threads, arrays,
                   queues, threads, Surroundings
  <1>3. ASSUME LoopState, EndHeavyRange, RecordSpent PROVE H!EndKernel
    <2>1. phase = "kernel" /\ kernel = "heavy" /\ kernel' = "none"
      BY <1>3 DEF EndHeavyRange, ThreadsDone
    <2>2. Overflow = {}
      BY <1>3, <2>1, BucketView, NoOverflow
    <2>3. descriptor' = descriptor /\ phase' = "settle"
      BY <1>3, <2>2 DEF EndHeavyRange
    <2>4. UNCHANGED <<HostBucket, HostIter, HostStop, HostHeavy>> /\ HostPhase = "kernel" /\ HostPhase' = "settle"
      BY <1>3, <2>1, <2>3, BucketView, BucketMoves DEF EndHeavyRange, queues
    <2>5. BooleanFlags' = BooleanFlags
      BY <1>3, <2>1, <2>3 DEF BooleanFlags, EndHeavyRange, queues
    <2> QED BY <1>3, <2>1, <2>3, <2>4, <2>5, HostConstants
               DEF EndHeavyRange, ThreadsDone, H!EndKernel, H!arrays, arrays, queues,
                   Surroundings
  <1> QED BY <1>1, <1>2, <1>3

\* The edges of a kernel are those of the host loop's kernel.
LEMMA SameEdges ==
  ASSUME HostBucket = descriptor.bucket PROVE \A u : H!Eligible(u) <=> Device!Eligible(u)
  <1>1. \A e, c : (H!IsLight(e, c) <=> Device!IsLight(e, c)) /\ (H!IsHeavy(e, c) <=> Device!IsHeavy(e, c))
    BY HostLeaves, DeviceLeaves, SameDecisions DEF H!IsLight, Device!IsLight, H!IsHeavy, Device!IsHeavy
  <1> QED BY <1>1, HostLeaves, DeviceLeaves DEF H!Eligible, Device!Eligible

\* A thread does what a thread of the host's kernels does.
LEMMA ThreadMaps ==
  ASSUME LoopState, NEW u \in Vertex, LightThread(u) \/ HeavyThread(u), RecordSpent PROVE H!Kernel(u)
  <1> USE DEF LoopState
  <1>1. /\ Device!Kernel(u) /\ UNCHANGED <<descriptor, iter, bucket>>
        /\ phase = "kernel" /\ kernel \in {"light", "heavy"} /\ HostBucket = descriptor.bucket
    BY BucketView DEF LightThread, HeavyThread, Device!Kernel
  <1>2. UNCHANGED <<costs, hasCosts, phase, query, stop, result, settled, current, kernel>>
    BY <1>1
       DEF Device!Kernel, Device!LoadLabel, Device!SkipEdge, Device!RelaxEdge,
           Device!FinishThread, Device!host, Device!queues
  <1>3. UNCHANGED <<HostBucket, HostIter, HostStop>> /\ HostHeavy = heavy /\ HostHeavy' = heavy'
        /\ HostPhase = "kernel" /\ HostPhase' = "kernel"
    BY <1>1, <1>2, BucketView, BucketMoves DEF Surroundings
  <1>4. UNCHANGED H!host /\ HostPhase = "kernel" /\ H!Inf = Device!Inf
    BY <1>2, <1>3 DEF H!host, H!Inf, Device!Inf
  <1>5. (UNCHANGED next) => BooleanFlags' = BooleanFlags
    BY <1>2 DEF BooleanFlags
  <1>6. CASE Device!LoadLabel(u)
    <2>1. UNCHANGED BooleanFlags
      BY <1>5, <1>6 DEF Device!LoadLabel
    <2>2. H!LoadLabel(u)
      BY <1>1, <1>3, <1>4, <1>6, <2>1, HostLeaves, DeviceLeaves, SameDecisions DEF Device!LoadLabel, H!LoadLabel
    <2> QED BY <1>3, <2>2 DEF H!Kernel
  <1>7. CASE Device!SkipEdge(u)
    <2>1. UNCHANGED H!arrays /\ UNCHANGED H!queues
      BY <1>3, <1>5, <1>7 DEF Device!SkipEdge, Device!arrays, Device!queues, H!arrays, H!queues
    <2>2. H!SkipEdge(u)
      BY <1>1, <1>4, <1>7, <2>1, SameEdges DEF Device!SkipEdge, H!SkipEdge
    <2> QED BY <1>3, <2>2 DEF H!Kernel
  <1>8. CASE Device!FinishThread(u)
    <2>1. UNCHANGED BooleanFlags /\ UNCHANGED H!queues
      BY <1>3, <1>5, <1>8 DEF Device!FinishThread, Device!queues, H!queues
    <2>2. H!FinishThread(u)
      BY <1>1, <1>4, <1>8, <2>1 DEF Device!FinishThread, H!FinishThread
    <2> QED BY <1>3, <2>2 DEF H!Kernel
  <1>9. CASE Device!RelaxEdge(u)
    <2> DEFINE v == to[epos[u]]
               c == Candidate(u)
               same(free) == c < dist[v] /\ Bucket(c) = descriptor.bucket /\ free
    <2>1. pc[u] = "edge" /\ from[u] # Inf /\ epos[u] < rowptr[u + 1] /\ Device!Eligible(u)
      BY <1>9 DEF Device!RelaxEdge, Device!Inf, Inf
    <2>2. v \in Vertex
      BY <2>1, GraphTypes, RowBounds DEF SharedState, Edge
    <2>3. same(H!Unclaimed(v)) <=> same(Device!Unclaimed(v))
      <3>1. CASE kernel = "heavy"
        <4>1. Bucket(c) > descriptor.bucket
          BY <2>1, <3>1, DeviceLeaves DEF Device!Eligible, Device!IsHeavy
        <4>2. Bucket(c) # descriptor.bucket
          BY <4>1 DEF ShapeInv
        <4> QED BY <4>2
      <3>2. CASE kernel = "light"
        <4>1. H!Unclaimed(v) <=> v \notin next.nodes
          BY <1>1, <2>2, <3>2 DEF H!Unclaimed, BooleanFlags
        <4>2. Device!Unclaimed(v) <=> v \notin next.nodes
          BY <1>1, <2>2, <3>2, <4>1 DEF Device!Unclaimed, MarkInv, H!Unclaimed
        <4> QED BY <4>1, <4>2
      <3> QED BY <1>1, <3>1, <3>2
    <2>4. next' = IF same(Device!Unclaimed(v)) THEN Push(next, v) ELSE next
      BY <1>9, DeviceLeaves DEF Device!RelaxEdge
    <2>5. BooleanFlags' = IF same(H!Unclaimed(v)) THEN [BooleanFlags EXCEPT ![v] = H!Claim] ELSE BooleanFlags
      <3>1. CASE same(H!Unclaimed(v))
        <4>1. kernel = "light"
          <5>1. kernel = "heavy" => Bucket(c) > descriptor.bucket
            BY <2>1, DeviceLeaves DEF Device!Eligible, Device!IsHeavy
          <5> QED BY <1>1, <3>1, <5>1 DEF ShapeInv
        <4>2. next'.nodes = next.nodes \cup {v}
          BY <2>3, <2>4, <3>1 DEF Push
        <4> QED BY <1>1, <1>2, <2>2, <3>1, <4>1, <4>2 DEF BooleanFlags, H!Claim
      <3>2. CASE ~same(H!Unclaimed(v))
        BY <1>5, <2>3, <2>4, <3>2
      <3> QED BY <3>1, <3>2
    <2>6. H!RelaxEdge(u)
      <3>1. H!Eligible(u)
        BY <1>1, <2>1, SameEdges
      <3> QED BY <1>1, <1>3, <1>4, <1>9, <2>3, <2>4, <2>5, <3>1, HostLeaves, DeviceLeaves
                 DEF Device!RelaxEdge, H!RelaxEdge, H!Min2, Device!Min2, H!PublishesParent,
                     Device!PublishesParent, H!KeyLess, Device!KeyLess
    <2> QED BY <1>3, <2>6 DEF H!Kernel
  <1> QED BY <1>1, <1>6, <1>7, <1>8, <1>9 DEF Device!Kernel

\* The last bucket.
LEMMA CloseMaps ==
  ASSUME LoopState, CloseLast, RecordSpent PROVE H!StopAfterBucket
  <1> USE DEF LoopState
  <1>1. phase = "settle" /\ Reason # "none" /\ phase' = "batchEnd" /\ kernel = "none" /\ kernel' = "none"
    BY DEF CloseLast, threads, ShapeInv
  <1>2. /\ HostBucket = descriptor.bucket /\ HostIter = descriptor.iterations /\ HostStop = "none" /\ spent = EmptyQueue
        /\ HostHeavy = heavy /\ descriptor.status = {} /\ HostPhase = "settle"
    BY <1>1, BucketView
  <1> DEFINE status == IF Reason = "target" THEN {"target"} ELSE {"complete"}
  <1>3. /\ descriptor'.status = status /\ descriptor'.bucket = descriptor.bucket
        /\ descriptor'.iterations = descriptor.iterations + 1
    BY <1>1, <1>2 DEF CloseLast, Finished, ShapeInv, DescriptorOK
  <1>4. HostPhase' = "extract" /\ HostIter' = HostIter + 1 /\ HostBucket' = HostBucket /\ HostHeavy' = HostHeavy
    BY <1>1, <1>2, <1>3
       DEF CloseLast, RecordSpent, HostPhase, HostIter, HostBucket, HostHeavy, Entered,
           Stopping, queues
  <1>5. HostStop' = Reason
    <2>1. Reason \in {"target", "limit", "converged", "none"} /\ (Reason = "limit" => Limited)
          /\ (Reason = "converged" => ~Limited)
      BY DeviceLeaves DEF Reason, Device!StopReason
    <2>2. Limited' <=> Limited
      BY DEF CloseLast, Surroundings, Limited
    <2> QED BY <1>1, <1>3, <2>1, <2>2 DEF HostStop, Stopping, StatusStop
  <1>6. BooleanFlags' = BooleanFlags
    BY <1>1 DEF BooleanFlags, CloseLast, queues
  <1> QED BY <1>1, <1>2, <1>4, <1>5, <1>6, SameDecisions
             DEF CloseLast, H!StopAfterBucket, H!arrays, H!queues, H!threads, arrays, queues,
                 threads, Surroundings

\* Compaction advances the bucket: all the selected nodes are unclaimed.
LEMMA CompactMaps ==
  ASSUME LoopState, Compact, RecordSpent PROVE H!AdvanceBucket
  <1> USE DEF LoopState
  <1>1. phase = "settle" /\ Reason = "none" /\ phase' = "compacted" /\ kernel = "none" /\ kernel' = "none"
        /\ current.nodes = {}
    BY DEF Compact, threads, ShapeInv, LoopInv, Closing, SharedState, Listed
  <1>2. /\ HostBucket = descriptor.bucket /\ HostIter = descriptor.iterations /\ HostStop = "none" /\ spent = EmptyQueue
        /\ HostHeavy = heavy /\ descriptor.status = {} /\ HostPhase = "settle" /\ stop = "none"
    BY <1>1, BucketView
  <1>3. descriptor' = [descriptor EXCEPT !.iterations = @ + 1, !.next = LeastPending]
    BY DEF Compact
  <1>4. descriptor'.next = LeastPending /\ descriptor'.iterations = descriptor.iterations + 1
    BY <1>3 DEF ShapeInv, DescriptorOK
  <1>5. HostPhase' = "bucket" /\ HostIter' = HostIter + 1 /\ HostBucket' = LeastPending /\ HostHeavy' = HostHeavy
        /\ HostStop' = HostStop
    BY <1>1, <1>2, <1>4
       DEF Compact, RecordSpent, HostPhase, HostIter, HostBucket, HostHeavy, HostStop, Entered,
           Surroundings
  <1> DEFINE active   == pending.nodes \cap inPending
             selected == {v \in active : Bucket(dist[v]) = LeastPending}
             kept     == {v \in active : LeastPending < Bucket(dist[v]) /\ Bucket(dist[v]) < NoBucket}
  <1>6. active \subseteq Vertex
    BY DEF SharedState, Listed
  <1>7. BooleanFlags = [v \in Vertex |-> 0] /\ H!CurrentMarks = BooleanFlags
    BY <1>1 DEF BooleanFlags, H!CurrentMarks, H!Wraps
  <1>8. {v \in selected : Device!Unclaimed(v)} = selected
    <2>1. \A v \in Vertex : Device!Unclaimed(v)
      <3>1. CASE Generations
        <4>1. \A v \in Vertex : inCurrent[v] \in Nat /\ inCurrent[v] < cursor
          BY <1>1, <3>1 DEF MarkInv, Closing, RangeInv
        <4>2. cursor \in Nat
          BY DEF ShapeInv
        <4> QED BY <3>1, <4>1, <4>2 DEF Device!Unclaimed
      <3>2. CASE ~Generations
        BY <1>7, <3>2 DEF MarkInv, Device!Unclaimed
      <3> QED BY <3>1, <3>2
    <2> QED BY <1>6, <2>1
  <1>9. {v \in selected : FALSE \/ H!CurrentMarks[v] = 0} = selected
    BY <1>6, <1>7
  <1>10. /\ current' = QueueOf(selected) /\ pending' = QueueOf(kept) /\ inPending' = inPending \ (active \ kept)
         /\ settled' = Device!NowSettled
    BY <1>8 DEF Compact
  <1>11. BooleanFlags' = [v \in Vertex |-> IF v \in selected THEN 1 ELSE H!CurrentMarks[v]]
    <2>1. current'.nodes = selected
      BY <1>10 DEF QueueOf
    <2> HIDE DEF selected
    <2> QED BY <1>1, <1>7, <2>1 DEF BooleanFlags
  <1>12. /\ H!NextBucket = LeastPending /\ H!StopReason = "none" /\ H!NowSettled = Device!NowSettled
    BY <1>1, <1>2, SameDecisions
  <1>13. {v \in active : H!Bucket(dist[v]) = H!NextBucket} = selected
         /\ {v \in active : H!NextBucket < H!Bucket(dist[v]) /\ H!Bucket(dist[v]) < NoBucket} = kept
    BY <1>12, HostLeaves
  <1>14. H!Token = 1 /\ H!QueueOf(selected) = QueueOf(selected) /\ H!QueueOf(kept) = QueueOf(kept) /\ H!Vertex = Vertex
    BY HostLeaves, HostConstants DEF H!Token
  <1>15. UNCHANGED <<costs, hasCosts, dist, key, inHeavy, touched, query, HostStop, result, next, HostHeavy, H!threads>>
    BY <1>5 DEF Compact, H!threads, threads, Surroundings
  <1> HIDE DEF kept, selected
  <1> QED BY <1>2, <1>5, <1>9, <1>10, <1>11, <1>12, <1>13, <1>14, <1>15 DEF H!AdvanceBucket, H!AcquireToken

\* Committing a bucket starts it, unless the budget is spent.
LEMMA CommitMaps ==
  ASSUME LoopState, Commit, RecordSpent PROVE H!StartBucket \/ UNCHANGED H!vars
  <1> USE DEF LoopState
  <1>1. phase = "compacted" /\ kernel = "none" /\ phase' \in {"closure", "batchEnd"} /\ kernel' = "none"
        /\ current.count # 0 /\ heavy' = EmptyQueue
    BY DEF Commit, threads, ShapeInv, LoopInv
  <1>2. stop = "none" /\ stop' = "none" /\ descriptor.status = {} /\ spent = EmptyQueue
    BY <1>1 DEF LoopInv, Launched, InBatch, Commit, Surroundings
  <1>3. /\ HostPhase = "bucket" /\ HostBucket = descriptor.next /\ HostIter = descriptor.iterations
        /\ HostStop = "none" /\ HostHeavy = heavy
    BY <1>1, <1>2 DEF HostPhase, HostBucket, HostIter, HostStop, HostHeavy, Entered
  <1>4. BooleanFlags' = BooleanFlags
    BY <1>1 DEF BooleanFlags, Commit
  <1>5. descriptor'.bucket = descriptor.next /\ descriptor'.iterations = descriptor.iterations
    BY DEF Commit, Finished, ShapeInv, DescriptorOK
  <1>6. HostBucket' = HostBucket /\ HostIter' = HostIter
    BY <1>1, <1>3, <1>5 DEF HostBucket, HostIter, Entered
  <1> DEFINE over == query.maxIters >= 0 /\ descriptor.iterations >= query.maxIters
  <1>7. CASE over
    <2>1. descriptor'.status = {"iterations"} /\ phase' = "batchEnd"
      BY <1>1, <1>2, <1>7 DEF Commit, Finished, ShapeInv, DescriptorOK
    <2>2. spent' = heavy
      BY <1>1, <2>1 DEF RecordSpent, Stopping
    <2>3. UNCHANGED <<HostPhase, HostStop, HostHeavy>>
      BY <1>1, <1>2, <1>3, <2>1, <2>2 DEF HostPhase, HostStop, HostHeavy, Stopping
    <2> QED BY <1>4, <1>6, <2>3
               DEF Commit, H!vars, H!arrays, H!host, H!queues, H!threads, arrays, threads,
                   Surroundings
  <1>8. CASE ~over
    <2>1. descriptor'.status = {}
      BY <1>1, <1>2, <1>8 DEF Commit, Finished, ShapeInv, DescriptorOK
    <2>2. spent' = EmptyQueue
      BY <1>1, <1>2, <2>1 DEF RecordSpent, Stopping
    <2>3. HostPhase' = "closure" /\ HostStop' = "none" /\ HostHeavy' = EmptyQueue
      BY <1>1, <1>2, <2>1, <2>2 DEF HostPhase, HostStop, HostHeavy, Stopping
    <2>4. ~H!OutOfBudget /\ (H!Limited => HostBucket <= H!LastAllowed)
      BY <1>1, <1>3, <1>8, HostLeaves DEF H!OutOfBudget, LoopInv
    <2>5. H!StartBucket
      BY <1>3, <1>4, <1>6, <2>3, <2>4, HostLeaves
         DEF Commit, H!StartBucket, H!arrays, H!threads, arrays, threads, Surroundings
    <2> QED BY <2>5
  <1> QED BY <1>7, <1>8

\* The chains of the answer are the same ones.
LEMMA HostChains ==
  ASSUME H!Answered = Answered PROVE H!ChainsValid <=> ChainsValid
  <1>1. \A v : H!ChainRoot(v) = ChainRoot(v)
    BY DEF H!ChainRoot, ChainRoot, H!ParentEdge, ParentEdge, H!Payload, Payload, H!NoEdge,
           NoEdge, H!Saturate, Saturate, H!Weight, Weight, H!EffectiveWeight, EffectiveWeight,
           H!Inf, Inf, H!SourceForEdge, SourceForEdge, H!Vertex, Vertex, H!OutEdges, OutEdges,
           H!TightInto, TightInto, H!Edge, Edge, H!IsRoot, IsRoot, H!NoKey, NoKey
  <1> QED BY <1>1 DEF H!ChainsValid, ChainsValid, H!Inf, Inf

\* Publication is none of the host loop's steps.
LEMMA PublishMaps ==
  ASSUME LoopState, Publish, RecordSpent PROVE UNCHANGED H!vars
  <1> USE DEF LoopState
  <1>1. phase = "batchEnd" /\ phase' = "published" /\ kernel = "none" /\ kernel' = "none"
    BY DEF Publish, threads, ShapeInv
  <1>2. UNCHANGED <<descriptor.status, descriptor.bucket, descriptor.iterations>>
    BY DEF Publish, ShapeInv, DescriptorOK
  <1>3. UNCHANGED <<HostPhase, HostIter, HostBucket, HostStop, HostHeavy, BooleanFlags>>
    BY <1>1, <1>2
       DEF Publish, RecordSpent, HostPhase, HostIter, HostBucket, HostStop, HostHeavy,
           BooleanFlags, Entered, Stopping, Surroundings, queues, StatusStop, Limited
  <1> QED BY <1>3 DEF Publish, H!vars, H!arrays, H!host, H!queues, H!threads, arrays, threads, queues, Surroundings

\* The host learns of a stop: of an exhausted budget only here.
LEMMA CheckMaps ==
  ASSUME LoopState, HostCheck, RecordSpent PROVE H!LeaveLoop \/ UNCHANGED H!vars
  <1> USE DEF LoopState
  <1>1. phase = "published" /\ kernel = "none" /\ kernel' = "none" /\ query.maxIters # 0 /\ query' = query
        /\ descriptor' = descriptor /\ accepted' = accepted + 1 /\ accepted' # 0 /\ stop = "none"
    BY DEF HostCheck, ShapeInv, LoopInv, Launched, threads, control
  <1>2. HostIter' = HostIter /\ HostBucket' = HostBucket
    BY <1>1 DEF HostCheck, HostIter, HostBucket, Entered
  <1>3. HostHeavy' = HostHeavy /\ BooleanFlags' = BooleanFlags
    BY <1>1 DEF HostCheck, RecordSpent, HostHeavy, BooleanFlags, queues
  <1>4. UNCHANGED <<costs, hasCosts, H!arrays, query, result, settled, current, next, pending, H!threads>>
    BY <1>3 DEF HostCheck, arrays, queues, threads, H!arrays, H!threads
  <1>5. CASE descriptor.status = {}
    <2>1. UNCHANGED <<HostPhase, HostStop>>
      BY <1>1, <1>5 DEF HostCheck, HostPhase, HostStop, Stopping
    <2> QED BY <1>2, <1>3, <1>4, <2>1 DEF H!vars, H!host, H!queues
  <1>6. CASE descriptor.status \in {{"target"}, {"complete"}}
    <2>1. phase' = "extract" /\ stop' = StatusStop(descriptor.status)
      BY <1>6 DEF HostCheck, Stopping
    <2>2. HostPhase = "extract" /\ HostPhase' = "extract"
      BY <1>1, <1>6, <2>1 DEF HostPhase, Stopping
    <2>3. HostStop' = HostStop
      BY <1>1, <1>6, <2>1 DEF HostStop, Stopping
    <2> QED BY <1>2, <1>3, <1>4, <2>2, <2>3 DEF H!vars, H!host, H!queues
  <1>7. CASE descriptor.status = {"iterations"}
    <2>1. phase' = "extract" /\ stop' = "maxIters"
      BY <1>7 DEF HostCheck, Stopping, StatusStop
    <2>2. HostPhase = "bucket" /\ HostPhase' = "extract"
      BY <1>1, <1>7, <2>1 DEF HostPhase, Stopping
    <2>3. HostStop = "none" /\ HostStop' = "maxIters"
      BY <1>1, <1>7, <2>1 DEF HostStop, Stopping
    <2>4. H!OutOfBudget
      <3>1. 0 <= query.maxIters /\ query.maxIters <= descriptor.iterations
        BY <1>1, <1>7 DEF LoopInv, Ended
      <3>2. HostIter = descriptor.iterations
        BY <1>1 DEF HostIter, Entered
      <3> QED BY <3>1, <3>2 DEF H!OutOfBudget, ShapeInv, DescriptorOK, SharedState
    <2> QED BY <1>2, <1>3, <1>4, <2>2, <2>3, <2>4 DEF H!LeaveLoop, H!queues
  <1> QED BY <1>1, <1>5, <1>6, <1>7 DEF LoopInv, Ended

\* After the loop, and between queries.
LEMMA AnswerMaps ==
  /\ LoopState /\ Extract /\ UNCHANGED control /\ RecordSpent => H!Extract
  /\ LoopState /\ H!WorkspaceInv /\ Reset /\ UNCHANGED control /\ RecordSpent => H!Reset
  /\ LoopState /\ Return /\ UNCHANGED control /\ RecordSpent => H!Return
  /\ LoopState /\ UpdateCosts /\ UNCHANGED control /\ RecordSpent => H!UpdateCosts
  <1> USE DEF LoopState
  <1>1. ASSUME LoopState, UNCHANGED <<control, bucket, iter, kernel, queues, query>>, RecordSpent,
               phase \in {"idle", "extract", "reset", "done"}, phase' \in {"idle", "reset", "done"}
        PROVE  /\ HostPhase = phase /\ HostPhase' = phase' /\ UNCHANGED <<HostIter, HostBucket, HostHeavy, H!queues>>
               /\ kernel = "none"
               /\ HostStop = IF stop = "limit" /\ query.maxIters = 0 THEN "maxIters" ELSE stop
               /\ HostStop' = IF stop' = "limit" /\ query.maxIters = 0 THEN "maxIters" ELSE stop'
    BY <1>1
       DEF ShapeInv, control, queues, H!queues, RecordSpent, HostPhase, HostIter, HostBucket,
           HostHeavy, HostStop, Entered
  <1>2. ASSUME LoopState, Extract, UNCHANGED control, RecordSpent PROVE H!Extract
    <2>1. /\ HostPhase = "extract" /\ HostPhase' = "reset" /\ UNCHANGED <<HostIter, HostBucket, HostHeavy, H!queues>>
          /\ kernel = "none"
          /\ HostStop = IF stop = "limit" /\ query.maxIters = 0 THEN "maxIters" ELSE stop
          /\ HostStop' = IF stop' = "limit" /\ query.maxIters = 0 THEN "maxIters" ELSE stop'
      BY <1>1, <1>2 DEF Extract, threads
    <2>2. BooleanFlags' = BooleanFlags
      BY <1>2, <2>1 DEF Extract, BooleanFlags, queues, threads
    <2>3. (H!Certified <=> Certified) /\ H!Answered = Answered
      BY <2>1 DEF H!Certified, Certified, H!Answered, Answered
    <2>4. H!ChainsValid <=> ChainsValid
      BY <2>3, HostChains
    <2> QED BY <1>2, <2>1, <2>2, <2>3, <2>4, HostConstants
               DEF Extract, H!Extract, H!arrays, H!threads, arrays, threads
  <1>3. ASSUME LoopState, H!WorkspaceInv, Reset, UNCHANGED control, RecordSpent PROVE H!Reset
    <2>1. /\ HostPhase = "reset" /\ HostPhase' = phase' /\ UNCHANGED <<HostIter, HostBucket, HostHeavy, H!queues>>
          /\ kernel = "none" /\ (HostStop = "threw" <=> stop = "threw") /\ HostStop' = HostStop
      BY <1>1, <1>3 DEF Reset, threads
    <2>2. BooleanFlags' = [v \in Vertex |-> 0]
      BY <1>3 DEF Reset, BooleanFlags
    <2>3. \A v \in Vertex \ touched.nodes : BooleanFlags[v] = 0
      BY <1>3, <2>1, HostConstants DEF H!WorkspaceInv, H!QueueInv, H!TouchedInv, H!Busy
    <2>4. BooleanFlags' = [v \in Vertex |-> IF v \in touched.nodes THEN 0 ELSE BooleanFlags[v]]
      BY <2>2, <2>3
    <2> QED BY <1>3, <2>1, <2>4, HostConstants, HostLeaves
               DEF Reset, H!Reset, KeysAfterReset, H!KeysAfterReset, NoKey, H!NoKey, H!threads,
                   threads
  <1>4. ASSUME LoopState, Return, UNCHANGED control, RecordSpent PROVE H!Return
    <2>1. /\ HostPhase = "done" /\ HostPhase' = "idle" /\ UNCHANGED <<HostIter, HostBucket, HostHeavy, H!queues, HostStop>>
      BY <1>1, <1>4 DEF Return, threads
    <2>2. BooleanFlags' = BooleanFlags
      BY <1>4 DEF Return, BooleanFlags
    <2> QED BY <1>4, <2>1, <2>2 DEF Return, H!Return, NoResult, H!NoResult, H!arrays, H!threads, arrays, threads
  <1>5. ASSUME LoopState, UpdateCosts, UNCHANGED control, RecordSpent PROVE H!UpdateCosts
    <2>1. /\ HostPhase = "idle" /\ UNCHANGED <<HostPhase, HostIter, HostBucket, HostHeavy, H!queues, HostStop>>
      BY <1>1, <1>5 DEF UpdateCosts, threads, host
    <2>2. BooleanFlags' = BooleanFlags
      BY <1>5 DEF UpdateCosts, BooleanFlags, host
    <2> QED BY <1>5, <2>1, <2>2, HostConstants
               DEF UpdateCosts, H!UpdateCosts, H!arrays, H!host, H!threads, arrays, host,
                   threads
  <1> QED BY <1>2, <1>3, <1>4, <1>5
\* A HIP call that fails leaves the host's loop in order.
LEMMA FailureMaps ==
  ASSUME LoopState, H!WorkspaceInv, ControllerFails, RecordSpent
  PROVE  HostCallFails' /\ UNCHANGED <<costs, hasCosts, query>> /\ H!WorkspaceInv'
  <1> USE DEF LoopState
  <1>1. /\ phase \in {"host", "published"} /\ phase' = "idle" /\ kernel = "none" /\ kernel' = "none" /\ stop' = "threw"
        /\ spent' = EmptyQueue
    BY DEF ControllerFails, ShapeInv, threads, RecordSpent
  <1>2. HostPhase \in {"closure", "bucket", "extract"} /\ HostPhase' = "idle" /\ HostStop' = "threw"
    BY <1>1 DEF HostPhase, HostStop
  <1>3. BooleanFlags' = [v \in Vertex |-> 0]
    BY <1>1 DEF BooleanFlags
  <1>4. \A q \in {touched', current', next', pending', heavy'} : q = EmptyQueue
    BY DEF ControllerFails
  <1>5. HostHeavy' = EmptyQueue
    BY <1>1, <1>4 DEF HostHeavy
  <1>6. HostCallFails'
    BY <1>1, <1>3, <1>4 DEF ControllerFails, HostCallFails
  <1>7. H!TypeOK /\ H!CursorOK
    BY DEF H!WorkspaceInv, H!TypeInv
  <1>8. H!TypeOK'
    <2>1. dist' \in [Vertex -> Cost] /\ key' \in [Vertex -> Cost \X Nat] /\ BooleanFlags' \in [Vertex -> 0 .. 1]
      BY <1>3, CostEnds DEF ControllerFails, NoKey
    <2>2. HostIter' \in Nat /\ HostBucket' \in 0 .. NoBucket - 1
      BY <1>1, <1>7, DeltaAssumption DEF ControllerFails, ShapeInv, DescriptorOK, HostIter, HostBucket, Entered
    <2>3. \A q \in {touched', current', next', pending', HostHeavy'} : q \in H!Queue
      BY <1>4, <1>5 DEF EmptyQueue, H!Queue
    <2>4. UNCHANGED <<costs, hasCosts, query, settled, threads>> /\ inPending' = {} /\ inHeavy' = {}
      BY DEF ControllerFails
    <2> QED BY <1>2, <1>7, <2>1, <2>2, <2>3, <2>4, HostConstants DEF H!TypeOK, threads
  <1>9. H!CursorOK'
    BY <1>2, <1>7 DEF ControllerFails, threads, H!CursorOK
  <1>10. H!QueueInv'
    <2>1. H!QueuesFit'
      <3>1. EmptyQueue.count = H!Cardinality(EmptyQueue.nodes)
        BY FS_EmptySet DEF EmptyQueue, H!Cardinality, Cardinality
      <3> QED BY <1>4, <1>5, <3>1 DEF H!QueuesFit
    <2>2. H!TouchedInv' /\ H!HeavyInv' /\ H!PendingInv' /\ H!ClaimInv'
      BY <1>2, <1>3, HostConstants
         DEF ControllerFails, H!TouchedInv, H!Busy, H!HeavyInv, H!PendingInv, H!ClaimInv,
             H!NoKey, NoKey
    <2> QED BY <2>1, <2>2 DEF H!QueueInv
  <1> QED BY <1>6, <1>8, <1>9, <1>10 DEF H!WorkspaceInv, H!TypeInv, ControllerFails

\* Every step of the controller is one of the host's loop, none, or a failure.
LEMMA StepMaps ==
  ASSUME LoopState, H!WorkspaceInv, RoundsFit, [RefinementNext]_<<controllerVars, spent>>
  PROVE  /\ [H!Next]_H!vars \/ (HostCallFails' /\ UNCHANGED <<costs, hasCosts, query>>)
         /\ H!WorkspaceInv'
  <1>1. ASSUME [H!Next]_H!vars PROVE H!WorkspaceInv'
    BY <1>1, HostInvariantStep
  <1>2. CASE UNCHANGED <<controllerVars, spent>>
    <2>1. UNCHANGED H!vars
      BY <1>2
         DEF controllerVars, vars, control, arrays, host, queues, threads, H!vars, H!arrays,
             H!host, H!queues, H!threads, HostBucket, HostIter, HostPhase, HostStop, HostHeavy,
             BooleanFlags, Entered, Stopping, StatusStop, Limited
    <2> QED BY <1>1, <2>1
  <1>3. ASSUME ControllerNext, RecordSpent, ~ControllerFails PROVE [H!Next]_H!vars
    <2>1. CASE BeginCall \/ EnterController \/ BypassController
      BY <1>3, <2>1, BeginMaps, EnterMaps, BypassMaps DEF H!Next, H!Work
    <2>2. CASE LaunchBatch \/ Publish
      BY <1>3, <2>2, LaunchMaps, PublishMaps
    <2>3. CASE HostCheck \/ Commit
      BY <1>3, <2>3, CheckMaps, CommitMaps DEF H!Next, H!Work
    <2>4. CASE StartRound \/ EndRound
      BY <1>3, <2>4, RoundMaps, EndRoundMaps DEF H!Next, H!Work
    <2>5. CASE StartHeavyRange \/ NoHeavyRange \/ EndHeavyRange
      BY <1>3, <2>5, HeavyRangeMaps DEF H!Next, H!Work
    <2>6. ASSUME NEW u \in Vertex, LightThread(u) \/ HeavyThread(u) PROVE H!Next
      BY <1>3, <2>6, ThreadMaps, HostConstants DEF H!Next, H!Work
    <2>7. CASE CloseLast \/ Compact
      BY <1>3, <2>7, CloseMaps, CompactMaps DEF H!Next, H!Work
    <2>8. CASE (Extract \/ Reset \/ UpdateCosts \/ Return) /\ UNCHANGED control
      BY <1>3, <2>8, AnswerMaps DEF H!Next, H!Work
    <2> QED BY <1>3, <2>1, <2>2, <2>3, <2>4, <2>5, <2>6, <2>7, <2>8 DEF ControllerNext, ControllerWork, Batch
  <1> QED BY <1>1, <1>2, <1>3, FailureMaps DEF RefinementNext

-----------------------------------------------------------------------------
(* What the sequential model does with an event that is well formed. *)

\* A query stopped by one flag takes that flag's name.
LEMMA SingleStop == \A s \in Status : Model!TerminalAction({s}) = s
  <1> SUFFICES ASSUME NEW s \in Status PROVE Model!TerminalAction({s}) = s
    OBVIOUS
  <1> DEFINE first(i) == Model!Precedence[i] \in {s} /\ \A j \in 1 .. i - 1 : Model!Precedence[j] \notin {s}
  <1>1. /\ Model!Precedence[1] = "invalid" /\ Model!Precedence[2] = "overflow" /\ Model!Precedence[3] = "iterations"
        /\ Model!Precedence[4] = "target" /\ Model!Precedence[5] = "complete"
    BY DEF Model!Precedence
  <1>2. \E i \in 1 .. 5 : first(i)
    <2>1. CASE s = "invalid"
      <3>1. first(1)
        BY <1>1, <2>1
      <3> QED BY <3>1
    <2>2. CASE s = "overflow"
      <3>1. first(2)
        BY <1>1, <2>2
      <3> QED BY <3>1
    <2>3. CASE s = "iterations"
      <3>1. first(3)
        <4>1. \A j \in 1 .. 2 : j = 1 \/ j = 2
          OBVIOUS
        <4> QED BY <1>1, <2>3, <4>1
      <3> QED BY <3>1
    <2>4. CASE s = "target"
      <3>1. first(4)
        <4>1. \A j \in 1 .. 3 : j = 1 \/ j = 2 \/ j = 3
          OBVIOUS
        <4> QED BY <1>1, <2>4, <4>1
      <3> QED BY <3>1
    <2>5. CASE s = "complete"
      <3>1. first(5)
        <4>1. \A j \in 1 .. 4 : j = 1 \/ j = 2 \/ j = 3 \/ j = 4
          OBVIOUS
        <4> QED BY <1>1, <2>5, <4>1
      <3> QED BY <3>1
    <2> QED BY <2>1, <2>2, <2>3, <2>4, <2>5 DEF Status
  <1>3. first(CHOOSE i \in 1 .. 5 : first(i))
    <2> HIDE DEF first
    <2> QED BY <1>2
  <1>4. Model!TerminalAction({s}) = Model!Precedence[CHOOSE i \in 1 .. 5 : first(i)]
    BY DEF Model!TerminalAction
  <1> QED BY <1>3, <1>4

\* A resumed descriptor differs in its batch only.
LEMMA ResumedKeeps ==
  ASSUME NEW m, DescriptorOK(m)
  PROVE  /\ DescriptorOK(Model!Resumed(m))
         /\ \A f \in {"query", "publication", "status", "phase", "lightRounds", "current", "pending", "bucket", "next",
                      "iterations"} : Model!Resumed(m)[f] = m[f]
         /\ Model!Resumed(m).rounds \in {0, m.rounds} /\ (m.action # "check" => Model!Resumed(m) = m)
         /\ m.action = "check" => Model!Resumed(m).rounds = 0
  BY DEF Model!Resumed, DescriptorOK

\* An event of a batch: what the device saw.
Event(b, c, p, x, s) == [bucket |-> b, current |-> c, pending |-> p, next |-> x, status |-> s]

\* A round after which the bucket has light work left.
LEMMA OpenRound ==
  ASSUME NEW m, DescriptorOK(m), NEW c \in Nat \ {0}, NEW p \in Nat,
         Model!Resumed(m).phase = "light", m.status = {}, m.pending <= p,
         MaxCount \notin {Model!Resumed(m).lightRounds, Model!Resumed(m).rounds}
  PROVE  LET d == Model!Resumed(m)
             n == Model!LightRound(m, Event(m.bucket, c, p, NoNext, {}))
             check == d.rounds + 1 >= BatchSize
         IN  /\ DescriptorOK(n) /\ n.query = m.query /\ n.bucket = m.bucket /\ n.iterations = m.iterations
             /\ n.status = {} /\ n.phase = "light" /\ n.current = c /\ n.pending = p /\ n.next = NoNext
             /\ n.rounds = d.rounds + 1 /\ n.lightRounds = d.lightRounds + 1
             /\ n.action = IF check THEN "check" ELSE "continue"
             /\ n.publication = IF check THEN m.publication + 1 ELSE m.publication
  <1> DEFINE d == Model!Resumed(m)
             e == Event(m.bucket, c, p, NoNext, {})
             n == Model!LightRound(m, e)
             seen == [d EXCEPT !.lightRounds = @ + 1, !.rounds = @ + 1, !.current = c, !.pending = p, !.next = NoNext,
                               !.status = {}]
  <1>1. /\ DescriptorOK(d) /\ d.query = m.query /\ d.publication = m.publication /\ d.status = {} /\ d.pending = m.pending
        /\ d.bucket = m.bucket /\ d.iterations = m.iterations /\ d.phase = "light"
    BY ResumedKeeps
  <1>2. e.bucket = d.bucket /\ e.current = c /\ e.pending = p /\ e.next = NoNext /\ e.status = {} /\ c # 0
        /\ ~(p < d.pending)
    BY <1>1 DEF Event, DescriptorOK
  <1>3. Model!LightPendingValid(p, d.bucket, NoNext)
    BY DEF Model!LightPendingValid
  <1> HIDE DEF d, e
  <1>4. n = IF seen.rounds >= BatchSize THEN Model!PublishHostCheck(seen) ELSE [seen EXCEPT !.action = "continue"]
    BY <1>1, <1>2, <1>3 DEF Model!LightRound, d
  <1>5. /\ DescriptorOK(seen) /\ seen.rounds = d.rounds + 1 /\ seen.lightRounds = d.lightRounds + 1
        /\ seen.query = d.query /\ seen.publication = d.publication /\ seen.status = {} /\ seen.phase = "light"
        /\ seen.current = c /\ seen.pending = p /\ seen.bucket = d.bucket /\ seen.iterations = d.iterations
        /\ seen.next = NoNext
    BY <1>1, ControllerAssumption DEF DescriptorOK
  <1> HIDE DEF seen, n
  <1> DEFINE check == d.rounds + 1 >= BatchSize
  <1>6. /\ DescriptorOK(n) /\ n.query = seen.query /\ n.bucket = seen.bucket /\ n.iterations = seen.iterations
        /\ n.status = {} /\ n.phase = "light" /\ n.current = c /\ n.pending = p /\ n.next = NoNext
        /\ n.rounds = seen.rounds /\ n.lightRounds = seen.lightRounds
        /\ n.action = IF check THEN "check" ELSE "continue"
        /\ n.publication = IF check THEN seen.publication + 1 ELSE seen.publication
    <2>1. CASE check
      <3>1. n = [[seen EXCEPT !.action = "check"] EXCEPT !.publication = @ + 1]
        BY <1>4, <1>5, <2>1 DEF Model!PublishHostCheck, Model!Published
      <3> QED BY <1>5, <2>1, <3>1 DEF DescriptorOK
    <2>2. CASE ~check
      <3>1. n = [seen EXCEPT !.action = "continue"]
        BY <1>4, <1>5, <2>2
      <3> QED BY <1>5, <2>2, <3>1 DEF DescriptorOK
    <2> QED BY <2>1, <2>2
  <1> QED BY <1>1, <1>5, <1>6 DEF d, n, e

\* The round that closed a bucket, when the query goes on to bucket x.
LEMMA ClosedRound ==
  ASSUME NEW m, DescriptorOK(m), NEW p \in Nat \ {0}, NEW x \in Nat,
         Model!Resumed(m).phase = "light", m.status = {}, m.pending <= p, x # NoNext, m.bucket < x,
         MaxCount \notin {Model!Resumed(m).lightRounds, Model!Resumed(m).rounds}
  PROVE  LET d == Model!Resumed(m)
             n == Model!LightRound(m, Event(m.bucket, 0, p, x, {}))
         IN  /\ DescriptorOK(n) /\ n.query = m.query /\ n.bucket = m.bucket /\ n.iterations = m.iterations + 1
             /\ n.status = {} /\ n.phase = "boundary" /\ n.pending = p /\ n.next = x /\ n.action = "advance"
             /\ n.rounds = d.rounds + 1 /\ n.lightRounds = d.lightRounds + 1 /\ n.publication = m.publication
  <1> DEFINE d == Model!Resumed(m)
             e == Event(m.bucket, 0, p, x, {})
             n == Model!LightRound(m, e)
             counted == [d EXCEPT !.lightRounds = @ + 1, !.rounds = @ + 1, !.iterations = @ + 1]
             seen == [counted EXCEPT !.current = 0, !.pending = p, !.next = x, !.status = {}]
  <1>1. /\ DescriptorOK(d) /\ d.query = m.query /\ d.publication = m.publication /\ d.status = {} /\ d.pending = m.pending
        /\ d.bucket = m.bucket /\ d.iterations = m.iterations /\ d.phase = "light"
    BY ResumedKeeps
  <1>2. e.bucket = d.bucket /\ e.current = 0 /\ e.pending = p /\ e.next = x /\ e.status = {} /\ p # 0
        /\ ~(p < d.pending)
    BY <1>1 DEF Event, DescriptorOK
  <1>3. Model!ClosedPendingValid(p, d.bucket, x)
    BY <1>1 DEF Model!ClosedPendingValid, DescriptorOK
  <1> HIDE DEF d, e
  <1>4. n = [seen EXCEPT !.phase = "boundary", !.action = "advance"]
    BY <1>1, <1>2, <1>3 DEF Model!LightRound, d
  <1>5. /\ DescriptorOK(counted) /\ counted.rounds = d.rounds + 1 /\ counted.lightRounds = d.lightRounds + 1
        /\ counted.query = d.query /\ counted.publication = d.publication
        /\ counted.bucket = d.bucket /\ counted.iterations = d.iterations + 1
    BY <1>1 DEF DescriptorOK
  <1> HIDE DEF counted
  <1>6. /\ DescriptorOK(seen) /\ seen.rounds = counted.rounds /\ seen.lightRounds = counted.lightRounds
        /\ seen.query = counted.query /\ seen.publication = counted.publication /\ seen.bucket = counted.bucket
        /\ seen.iterations = counted.iterations /\ seen.pending = p /\ seen.next = x /\ seen.status = {}
    BY <1>5 DEF DescriptorOK
  <1> HIDE DEF seen, n
  <1>7. /\ DescriptorOK(n) /\ n.rounds = seen.rounds /\ n.lightRounds = seen.lightRounds
        /\ n.query = seen.query /\ n.publication = seen.publication /\ n.bucket = seen.bucket
        /\ n.iterations = seen.iterations /\ n.pending = p /\ n.next = x /\ n.status = {}
        /\ n.phase = "boundary" /\ n.action = "advance"
    BY <1>4, <1>6 DEF DescriptorOK
  <1> QED BY <1>1, <1>5, <1>6, <1>7 DEF d, n, e

\* The flags a device raises when it closes the last bucket.
LastFlags == {{"target"}, {"complete"}}

\* The round that closed the query's last bucket.
LEMMA LastRound ==
  ASSUME NEW m, DescriptorOK(m), NEW p \in Nat, NEW s \in LastFlags,
         Model!Resumed(m).phase = "light", m.status = {}, m.pending <= p,
         MaxCount \notin {Model!Resumed(m).lightRounds, Model!Resumed(m).rounds}
  PROVE  LET d == Model!Resumed(m)
             n == Model!LightRound(m, Event(m.bucket, 0, p, NoNext, s))
         IN  /\ DescriptorOK(n) /\ n.query = m.query /\ n.bucket = m.bucket /\ n.iterations = m.iterations + 1
             /\ n.status = s /\ n.phase = "finished" /\ n.action = Model!TerminalAction(s) /\ n.current = 0 /\ n.pending = p
             /\ n.next = NoNext /\ n.rounds = d.rounds + 1 /\ n.lightRounds = d.lightRounds + 1 /\ n.publication = m.publication + 1
  <1> DEFINE d == Model!Resumed(m)
             e == Event(m.bucket, 0, p, NoNext, s)
             n == Model!LightRound(m, e)
             counted == [d EXCEPT !.lightRounds = @ + 1, !.rounds = @ + 1, !.iterations = @ + 1]
             seen == [counted EXCEPT !.current = 0, !.pending = p, !.next = NoNext, !.status = s]
  <1>1. /\ DescriptorOK(d) /\ d.query = m.query /\ d.publication = m.publication /\ d.status = {} /\ d.pending = m.pending
        /\ d.bucket = m.bucket /\ d.iterations = m.iterations /\ d.phase = "light"
    BY ResumedKeeps
  <1>2. e.bucket = d.bucket /\ e.current = 0 /\ e.pending = p /\ e.next = NoNext /\ e.status = s /\ ~(p < d.pending)
    BY <1>1 DEF Event, DescriptorOK
  <1>3. Model!LightPendingValid(p, d.bucket, NoNext)
    BY DEF Model!LightPendingValid
  <1>4. /\ s \in SUBSET Status /\ "iterations" \notin s /\ "invalid" \notin s /\ s # {}
        /\ Model!TerminalAction(s) \in Status
    BY SingleStop DEF Status, LastFlags
  <1> HIDE DEF d, e
  <1>5. n = Model!FinishWith(seen, {})
    <2>1. {} \cup e.status \cup {} = s /\ s # {} /\ e.status \cap {"target", "overflow", "invalid", "complete"} # {}
      BY <1>2 DEF LastFlags
    <2>2. ~("iterations" \in e.status)
      BY <1>2, <1>4
    <2> QED BY <1>1, <1>2, <1>3, <2>1, <2>2 DEF Model!LightRound, d
  <1>6. /\ DescriptorOK(counted) /\ counted.rounds = d.rounds + 1 /\ counted.lightRounds = d.lightRounds + 1
        /\ counted.query = d.query /\ counted.publication = d.publication
        /\ counted.bucket = d.bucket /\ counted.iterations = d.iterations + 1
    BY <1>1 DEF DescriptorOK
  <1> HIDE DEF counted
  <1>7. /\ DescriptorOK(seen) /\ seen.rounds = counted.rounds /\ seen.lightRounds = counted.lightRounds
        /\ seen.query = counted.query /\ seen.publication = counted.publication /\ seen.bucket = counted.bucket
        /\ seen.iterations = counted.iterations /\ seen.current = 0 /\ seen.pending = p /\ seen.status = s
        /\ seen.next = NoNext
    BY <1>4, <1>6, ControllerAssumption DEF DescriptorOK
  <1> HIDE DEF seen, n
  <1>8. n = [[seen EXCEPT !.status = s, !.phase = "finished", !.action = Model!TerminalAction(s)] EXCEPT !.publication = @ + 1]
    BY <1>4, <1>5, <1>7 DEF Model!FinishWith, Model!Published
  <1>9. /\ DescriptorOK(n) /\ n.rounds = seen.rounds /\ n.lightRounds = seen.lightRounds
        /\ n.query = seen.query /\ n.publication = seen.publication + 1 /\ n.bucket = seen.bucket
        /\ n.iterations = seen.iterations /\ n.current = 0 /\ n.pending = p /\ n.next = NoNext /\ n.status = s
        /\ n.phase = "finished" /\ n.action = Model!TerminalAction(s)
    BY <1>4, <1>7, <1>8 DEF DescriptorOK
  <1> QED BY <1>1, <1>6, <1>7, <1>9 DEF d, n, e

\* The flags a bucket may be opened with.
BudgetFlags == {{}, {"iterations"}}

\* The successor bucket b, compacted; the budget may be spent.
LEMMA NextBucketOpened ==
  ASSUME NEW m, DescriptorOK(m), NEW c \in Nat \ {0}, NEW p \in Nat, NEW s \in BudgetFlags,
         m.phase = "boundary", m.action = "advance", m.status = {}, c + p <= m.pending
  PROVE  LET n == Model!BeginBucket(m, Event(m.next, c, p, NoNext, s))
             check == m.rounds >= BatchSize
         IN  /\ DescriptorOK(n) /\ n.query = m.query /\ n.bucket = m.next /\ n.iterations = m.iterations
             /\ n.status = s /\ n.current = c /\ n.pending = p /\ n.rounds = m.rounds /\ n.lightRounds = m.lightRounds
             /\ n.next = NoNext
             /\ s # {} => n.phase = "finished" /\ n.action = "iterations" /\ n.publication = m.publication + 1
             /\ s = {} => /\ n.phase = "light" /\ n.action = IF check THEN "check" ELSE "continue"
                          /\ n.publication = IF check THEN m.publication + 1 ELSE m.publication
  <1> DEFINE e == Event(m.next, c, p, NoNext, s)
             n == Model!BeginBucket(m, e)
             seen == [m EXCEPT !.current = c, !.pending = p, !.bucket = m.next, !.next = NoNext, !.phase = "light",
                               !.status = s]
             check == m.rounds >= BatchSize
  <1>1. Model!Resumed(m) = m
    BY DEF Model!Resumed
  <1>2. e.bucket = m.next /\ e.current = c /\ e.pending = p /\ e.next = NoNext /\ e.status = s /\ c # 0
        /\ ~(c + p > m.pending) /\ e.status \cap {"complete", "target"} = {}
    BY DEF Event, DescriptorOK, BudgetFlags
  <1>3. Model!LightPendingValid(p, m.next, NoNext)
    BY DEF Model!LightPendingValid
  <1>4. m.status \cup s \cup {} = s
    OBVIOUS
  <1>5. /\ DescriptorOK(seen) /\ seen.query = m.query /\ seen.bucket = m.next /\ seen.iterations = m.iterations
        /\ seen.status = s /\ seen.current = c /\ seen.pending = p /\ seen.rounds = m.rounds
        /\ seen.lightRounds = m.lightRounds /\ seen.publication = m.publication /\ seen.phase = "light"
        /\ seen.next = NoNext
    <2>1. s \in SUBSET Status
      BY DEF Status, BudgetFlags
    <2> QED BY <2>1, ControllerAssumption DEF DescriptorOK
  <1> HIDE DEF e, seen
  <1>6. n = IF s # {} THEN Model!FinishWith(seen, {})
            ELSE IF seen.rounds >= BatchSize THEN Model!PublishHostCheck(seen) ELSE [seen EXCEPT !.action = "continue"]
    BY <1>1, <1>2, <1>3, <1>4 DEF Model!BeginBucket, seen
  <1> HIDE DEF n
  <1>7. CASE s # {}
    <2>1. s = {"iterations"} /\ Model!TerminalAction(s) = "iterations" /\ s \cup {} = s
      BY <1>7, SingleStop DEF Status, BudgetFlags
    <2>2. n = [[seen EXCEPT !.status = s, !.phase = "finished", !.action = "iterations"] EXCEPT !.publication = @ + 1]
      BY <1>5, <1>6, <1>7, <2>1 DEF Model!FinishWith, Model!Published
    <2>3. /\ DescriptorOK(n) /\ n.query = seen.query /\ n.bucket = seen.bucket /\ n.iterations = seen.iterations
          /\ n.status = s /\ n.current = seen.current /\ n.pending = seen.pending /\ n.rounds = seen.rounds
          /\ n.lightRounds = seen.lightRounds /\ n.next = seen.next /\ n.publication = seen.publication + 1 /\ n.phase = "finished"
          /\ n.action = "iterations"
      BY <1>5, <2>1, <2>2 DEF DescriptorOK, Status
    <2> QED BY <1>5, <1>7, <2>3 DEF n, e
  <1>8. CASE s = {} /\ check
    <2>1. n = [[seen EXCEPT !.action = "check"] EXCEPT !.publication = @ + 1]
      BY <1>5, <1>6, <1>8 DEF Model!PublishHostCheck, Model!Published
    <2>2. /\ DescriptorOK(n) /\ n.query = seen.query /\ n.bucket = seen.bucket /\ n.iterations = seen.iterations
          /\ n.status = s /\ n.current = seen.current /\ n.pending = seen.pending /\ n.rounds = seen.rounds
          /\ n.lightRounds = seen.lightRounds /\ n.next = seen.next /\ n.publication = seen.publication + 1 /\ n.phase = "light"
          /\ n.action = "check"
      BY <1>5, <2>1 DEF DescriptorOK
    <2> QED BY <1>5, <1>8, <2>2 DEF n, e
  <1>9. CASE s = {} /\ ~check
    <2>1. n = [seen EXCEPT !.action = "continue"]
      BY <1>5, <1>6, <1>9
    <2>2. /\ DescriptorOK(n) /\ n.query = seen.query /\ n.bucket = seen.bucket /\ n.iterations = seen.iterations
          /\ n.status = s /\ n.current = seen.current /\ n.pending = seen.pending /\ n.rounds = seen.rounds
          /\ n.lightRounds = seen.lightRounds /\ n.next = seen.next /\ n.publication = seen.publication /\ n.phase = "light"
          /\ n.action = "continue"
      BY <1>5, <2>1 DEF DescriptorOK
    <2> QED BY <1>5, <1>9, <2>2 DEF n, e
  <1> QED BY <1>7, <1>8, <1>9

-----------------------------------------------------------------------------
(* Every step keeps the controller's invariant. *)

\* The controller's part of the inductive invariant.
ControlInv == ShapeInv /\ LoopInv /\ MarkInv /\ ModelInv

\* A step that ends outside the launch loop.
LEMMA QuietStep ==
  ASSUME ShapeInv, phase' \in {"idle", "bucket", "extract", "reset", "done"}, kernel' = "none",
         UNCHANGED <<descriptor, cursor, sequence>>, accepted' \in Nat, iter' \in Nat, bucket' = 0,
         DescriptorOK(model)', model'.query = sequence, model'.phase \in {"idle", "finished"},
         phase' = "bucket" => /\ accepted' = 0 /\ iter' = 0 /\ stop' \in {"none", "target"} /\ heavy' = EmptyQueue
                              /\ current'.count # 0 /\ spent' = EmptyQueue,
         ~Generations => inCurrent' = BooleanFlags'
  PROVE  ControlInv'
  <1>1. ShapeInv'
    BY DEF ShapeInv, DescriptorOK
  <1>2. LoopInv'
    BY DEF LoopInv, Launched, InBatch, Closing
  <1>3. MarkInv'
    BY DEF MarkInv, Closing
  <1>4. ModelInv'
    BY DEF ModelInv, Launched, InBatch, LightPart, Closing
  <1> QED BY <1>1, <1>2, <1>3, <1>4 DEF ControlInv

\* The start of a query.
LEMMA BeginKeeps ==
  ASSUME LoopState, ModelInv, SharedState', BeginCall, RecordSpent PROVE ControlInv'
  <1> USE DEF LoopState
  <1>1. PICK r \in Queries : Begin!(r)
    BY DEF BeginCall, Begin
  <1>2. phase = "idle" /\ kernel = "none" /\ kernel' = "none" /\ phase' = "bucket"
    BY <1>1 DEF ShapeInv, threads
  <1>3. current'.count # 0
    <2>1. current'.nodes = r.sources /\ query' = r
      BY <1>1 DEF QueueOf
    <2> QED BY <2>1 DEF SharedState, Listed
  <1>4. spent' = EmptyQueue
    BY <1>2 DEF RecordSpent
  <1>5. ~Generations => inCurrent' = BooleanFlags'
    <2>1. ASSUME ~Generations PROVE inCurrent = [v \in Vertex |-> 0] /\ Token = 1 /\ CurrentMarks = inCurrent
      BY <1>2, <2>1 DEF MarkInv, BooleanFlags, Token, CurrentMarks, Wraps
    <2>2. current'.nodes = r.sources
      BY <1>1 DEF QueueOf
    <2> QED BY <1>1, <1>2, <2>1, <2>2 DEF BooleanFlags
  <1>6. model.phase \in {"idle", "finished"}
    BY <1>2 DEF ModelInv, Launched, InBatch
  <1>7. stop' \in {"none", "target"} /\ heavy' = EmptyQueue /\ iter' = 0 /\ bucket' = 0 /\ accepted' = 0
    BY <1>1 DEF BeginCall
  <1> QED BY <1>2, <1>3, <1>4, <1>5, <1>6, <1>7, QuietStep DEF BeginCall, ShapeInv

\* A query with nothing to launch.
LEMMA BypassKeeps ==
  ASSUME LoopState, ModelInv, BypassController, RecordSpent PROVE ControlInv'
  <1> USE DEF LoopState
  <1>1. phase = "bucket" /\ kernel = "none" /\ kernel' = "none" /\ phase' = "extract"
    BY DEF BypassController, ShapeInv, threads
  <1>2. ~Generations => inCurrent' = BooleanFlags'
    BY <1>1 DEF BypassController, MarkInv, BooleanFlags, arrays, queues
  <1>3. model.phase \in {"idle", "finished"}
    BY <1>1 DEF ModelInv, Launched, InBatch
  <1>4. UNCHANGED <<control, iter, bucket>>
    BY <1>1 DEF BypassController, LoopInv, ShapeInv
  <1> QED BY <1>1, <1>2, <1>3, <1>4, QuietStep DEF control, ShapeInv

\* The answer and the reset.
LEMMA AnswerKeeps ==
  ASSUME LoopState, ModelInv, H!WorkspaceInv, Extract \/ Reset \/ Return \/ UpdateCosts, UNCHANGED control,
     RecordSpent
  PROVE  ControlInv'
  <1> USE DEF LoopState
  <1>1. /\ phase \in {"idle", "extract", "reset", "done"} /\ phase' \in {"idle", "reset", "done"}
        /\ kernel = "none" /\ kernel' = "none" /\ UNCHANGED <<iter, bucket, queues>>
    BY DEF Extract, Reset, Return, UpdateCosts, ShapeInv, threads, host
  <1>2. ~Generations => inCurrent' = BooleanFlags'
    <2>1. CASE Extract \/ Return \/ UpdateCosts
      BY <1>1, <2>1 DEF Extract, Return, UpdateCosts, MarkInv, BooleanFlags, arrays, queues, host
    <2>2. CASE Reset
      <3>1. BooleanFlags' = [v \in Vertex |-> 0]
        BY <2>2 DEF Reset, BooleanFlags
      <3>2. HostPhase = "reset"
        BY <2>2 DEF Reset, HostPhase
      <3>3. \A v \in Vertex \ touched.nodes : BooleanFlags[v] = 0
        BY <3>2, HostConstants DEF H!WorkspaceInv, H!QueueInv, H!TouchedInv, H!Busy
      <3> QED BY <2>2, <3>1, <3>3 DEF Reset, MarkInv
    <2> QED BY <2>1, <2>2
  <1>3. model.phase \in {"idle", "finished"}
    BY <1>1 DEF ModelInv, Launched, InBatch
  <1> QED BY <1>1, <1>2, <1>3, QuietStep DEF control, ShapeInv

\* A failure starts the model anew.
LEMMA FailureKeeps ==
  ASSUME LoopState, ControllerFails, RecordSpent PROVE ControlInv'
  <1> USE DEF LoopState
  <1>1. phase' = "idle" /\ kernel' = "none" /\ UNCHANGED <<descriptor, cursor, sequence, accepted, iter, bucket>>
    BY DEF ControllerFails, ShapeInv, threads
  <1>2. ~Generations => inCurrent' = BooleanFlags'
    BY <1>1 DEF ControllerFails, BooleanFlags
  <1>3. DescriptorOK(model)' /\ model'.query = sequence /\ model'.phase = "idle"
    BY ControllerAssumption DEF ControllerFails, Model!Idle, DescriptorOK, ShapeInv
  <1> QED BY <1>1, <1>2, <1>3, QuietStep DEF ShapeInv

\* The host's check changes nothing the model sees.
LEMMA CheckKeeps ==
  ASSUME LoopState, ModelInv, HostCheck, RecordSpent PROVE ControlInv'
  <1> USE DEF LoopState
  <1>1. /\ phase = "published" /\ kernel = "none" /\ kernel' = "none" /\ phase' \in {"extract", "host"}
        /\ accepted' = descriptor.publication /\ iter' = descriptor.iterations
        /\ UNCHANGED <<descriptor, cursor, sequence, model, query, bucket, inCurrent, queues>>
    BY DEF HostCheck, ShapeInv, threads, arrays
  <1>2. inCurrent = BooleanFlags => inCurrent' = BooleanFlags'
    BY <1>1 DEF BooleanFlags, queues
  <1>3. CASE Stopping(descriptor)
    <2>1. phase' = "extract"
      BY <1>3 DEF HostCheck
    <2>2. model.phase = "finished"
      BY <1>1, <1>3 DEF ModelInv, Agree, Compared, LoopInv, Ended, Stopping
    <2> QED BY <1>1, <1>2, <2>1, <2>2, QuietStep DEF ShapeInv, DescriptorOK, MarkInv
  <1>4. CASE ~Stopping(descriptor)
    <2>1. phase' = "host" /\ stop' = stop /\ descriptor.status = {} /\ spent' = spent
      BY <1>1, <1>4 DEF HostCheck, Stopping, RecordSpent
    <2>2. ShapeInv'
      BY <1>1, <2>1 DEF ShapeInv, DescriptorOK
    <2>3. LoopInv'
      BY <1>1, <2>1
         DEF LoopInv, Ended, Launched, InBatch, Closing, ShapeInv, DescriptorOK, queues,
             Limited, LastAllowed
    <2>4. MarkInv'
      BY <1>1, <1>2, <2>1 DEF MarkInv, Closing
    <2>5. ModelInv'
      BY <1>1, <2>1 DEF ModelInv, Agree, Compared, Launched, InBatch, LightPart, Closing, queues
    <2> QED BY <2>2, <2>3, <2>4, <2>5 DEF ControlInv
  <1> QED BY <1>3, <1>4

\* A query enters the launch loop with the descriptor its model starts from.
LEMMA EnterKeeps ==
  ASSUME LoopState, ModelInv, EnterController, RecordSpent PROVE ControlInv'
  <1> USE DEF LoopState
  <1>1. /\ phase = "bucket" /\ phase' = "host" /\ kernel = "none" /\ kernel' = "none" /\ stop' = stop /\ query' = query
        /\ accepted' = accepted /\ accepted = 0 /\ iter' = iter /\ bucket' = bucket /\ cursor' = cursor
        /\ stop = "none" /\ query.maxIters # 0 /\ current.count # 0 /\ current.count \in Nat /\ sequence' \in Nat
        /\ UNCHANGED <<queues, inCurrent>>
    BY ControllerAssumption
       DEF EnterController, ShapeInv, LoopInv, Launchable, Surroundings, SharedState, Listed,
           Queue, Model!NextQuery, threads, arrays
  <1>2. /\ DescriptorOK(descriptor') /\ descriptor'.query = sequence' /\ descriptor'.publication = 0
        /\ descriptor'.status = {} /\ descriptor'.phase = "light" /\ descriptor'.action = "continue"
        /\ descriptor'.rounds = 0 /\ descriptor'.lightRounds = 0 /\ descriptor'.current = current.count
        /\ descriptor'.pending = 0 /\ descriptor'.bucket = 0
    BY <1>1, ControllerAssumption DEF EnterController, Model!Idle, DescriptorOK
  <1>3. model' = descriptor'
    <2>1. model.phase \in {"idle", "finished"} /\ model.query = sequence
      BY <1>1 DEF ModelInv, Launched, InBatch, ShapeInv
    <2>2. model' = [[Model!Idle EXCEPT !.query = sequence', !.current = current.count] EXCEPT !.phase = "light"]
      BY <1>1, <2>1 DEF EnterController, Model!BeginQuery
    <2> QED BY <2>2 DEF EnterController, Model!Idle
  <1>4. spent' = EmptyQueue
    BY <1>1 DEF RecordSpent, LoopInv
  <1>5. ShapeInv'
    BY <1>1, <1>2, <1>3, DeltaAssumption DEF ShapeInv
  <1>6. LoopInv'
    BY <1>1, <1>2, <1>4 DEF LoopInv, Launched, InBatch, Closing, queues
  <1>7. MarkInv'
    BY <1>1 DEF MarkInv, Closing, BooleanFlags, queues
  <1>8. ModelInv'
    <2>1. pending'.count \in Nat
      BY <1>1 DEF SharedState, Listed, Queue, queues
    <2>2. model'.pending <= pending'.count
      BY <1>2, <1>3, <2>1
    <2>3. Agree(Compared)'
      BY <1>3 DEF Agree
    <2> QED BY <1>1, <2>2, <2>3 DEF ModelInv, Launched, InBatch, LightPart, Closing
  <1> QED BY <1>5, <1>6, <1>7, <1>8 DEF ControlInv

\* A batch starts where the last one ended.
LEMMA LaunchKeeps ==
  ASSUME LoopState, ModelInv, LaunchBatch, RecordSpent PROVE ControlInv'
  <1> USE DEF LoopState
  <1>1. /\ phase = "host" /\ phase' = "closure" /\ kernel = "none" /\ kernel' = "none"
        /\ UNCHANGED <<stop, query, accepted, iter, bucket, sequence, model, queues>>
        /\ descriptor' = [descriptor EXCEPT !.action = "continue", !.rounds = 0]
    BY DEF LaunchBatch, ShapeInv, LoopInv, threads, Surroundings
  <1>2. /\ DescriptorOK(descriptor') /\ descriptor'.rounds = 0
        /\ \A f \in {"query", "publication", "status", "phase", "lightRounds", "current", "bucket", "iterations"} :
              descriptor'[f] = descriptor[f]
    BY <1>1 DEF ShapeInv, DescriptorOK
  <1>3. descriptor'.lightRounds \in Nat /\ spent' = EmptyQueue
    BY <1>1, <1>2 DEF DescriptorOK, RecordSpent, LoopInv
  <1>4. cursor' \in Nat /\ (Generations => \A v \in Vertex : inCurrent'[v] < cursor')
    <2> DEFINE first == IF TokensRunOut THEN 1 ELSE generation + 1
    <2>1. CASE Generations
      <3>1. /\ inCurrent' = IF TokensRunOut THEN [v \in Vertex |-> 0] ELSE inCurrent
            /\ cursor' = first
        BY <2>1 DEF LaunchBatch
      <3>2. generation \in Nat /\ \A v \in Vertex : inCurrent[v] \in Nat /\ inCurrent[v] <= generation
        BY <2>1 DEF RangeInv
      <3> QED BY <3>1, <3>2
    <2>2. CASE ~Generations
      BY <2>2 DEF LaunchBatch
    <2> QED BY <2>1, <2>2
  <1>5. ShapeInv'
    BY <1>1, <1>2, <1>4 DEF ShapeInv
  <1>6. LoopInv'
    BY <1>1, <1>2, <1>3 DEF LoopInv, Launched, InBatch, Closing, queues
  <1>7. MarkInv'
    <2>1. ~Generations => inCurrent' = inCurrent
      BY DEF LaunchBatch
    <2> QED BY <1>1, <1>4, <2>1 DEF MarkInv, Closing, BooleanFlags, queues
  <1>8. ModelInv'
    <2>1. Agree(Compared) /\ descriptor.status = {} /\ descriptor.phase = "light"
          /\ descriptor.action \in {"continue", "check"} /\ (descriptor.action = "continue" => descriptor.rounds = 0)
      BY <1>1 DEF ModelInv, LoopInv
    <2>2. DescriptorOK(model) /\ model.phase = "light" /\ model.status = {} /\ model.rounds = descriptor.rounds
          /\ model.action = descriptor.action
      BY <2>1 DEF Agree, Compared, ShapeInv
    <2>3. Model!Resumed(model).phase = "light" /\ Model!Resumed(model).rounds = 0
          /\ Model!Resumed(model).lightRounds = model.lightRounds
      BY <2>1, <2>2, ResumedKeeps
    <2>4. Agree({"publication", "bucket", "iterations"})' /\ model.lightRounds = descriptor'.lightRounds
      BY <1>1, <1>2, <2>1 DEF Agree, Compared
    <2>5. model.pending <= pending.count
      BY <1>1 DEF ModelInv, Launched
    <2>6. Model!Resumed(model)' = Model!Resumed(model)
      BY <1>1 DEF Model!Resumed
    <2> QED BY <1>1, <1>2, <2>2, <2>3, <2>4, <2>5, <2>6
               DEF ModelInv, Launched, InBatch, LightPart, Closing, queues
  <1> QED BY <1>5, <1>6, <1>7, <1>8 DEF ControlInv

\* The threads of a round find no node marked for the queue they fill.
LEMMA RoundKeeps ==
  ASSUME LoopState, ModelInv, StartRound, RecordSpent PROVE ControlInv'
  <1> USE DEF LoopState
  <1>1. phase = "closure" /\ kernel = "none" /\ current.count \in 1 .. Rows /\ descriptor.bucket \in 0 .. NoBucket - 1
    <2>1. phase = "closure"
      BY DEF StartRound
    <2>2. Listed(current)
      BY DEF SharedState
    <2>3. current.count \in 1 .. Rows
      BY <2>1, <2>2, GraphTypes DEF LoopInv, Listed
    <2> QED BY <2>1, <2>3 DEF ShapeInv
  <1>2. /\ descriptor' = [descriptor EXCEPT !.phase = "light", !.current = current.count, !.next = NoNext]
        /\ next' = EmptyQueue /\ phase' = "kernel" /\ kernel' = "light"
        /\ UNCHANGED <<stop, query, accepted, iter, bucket, sequence, cursor, model, current, pending>>
        /\ inCurrent' = IF Generations THEN inCurrent
                        ELSE [v \in Vertex |-> IF v \in current.nodes THEN 0 ELSE inCurrent[v]]
    BY <1>1 DEF StartRound, Launch, Surroundings
  <1>3. /\ DescriptorOK(descriptor') /\ descriptor'.next = NoNext
        /\ \A f \in {"query", "publication", "status", "rounds", "lightRounds", "bucket", "iterations"} :
              descriptor'[f] = descriptor[f]
    BY <1>1, <1>2, ControllerAssumption DEF ShapeInv, DescriptorOK
  <1>4. spent' = EmptyQueue
    BY <1>1, <1>2 DEF RecordSpent, LoopInv, InBatch
  <1>5. ShapeInv'
    BY <1>2, <1>3 DEF ShapeInv
  <1>6. LoopInv'
    BY <1>1, <1>2, <1>3, <1>4 DEF LoopInv, Launched, InBatch, Closing
  <1>7. MarkInv'
    <2>1. BooleanFlags' = [v \in Vertex |-> 0] /\ next'.nodes = {}
      BY <1>2 DEF BooleanFlags, EmptyQueue
    <2>2. BooleanFlags = [v \in Vertex |-> IF v \in current.nodes THEN 1 ELSE 0]
      BY <1>1 DEF BooleanFlags
    <2>3. ~Generations => inCurrent' = BooleanFlags'
      BY <1>2, <2>1, <2>2 DEF MarkInv
    <2>4. Generations => \A v \in Vertex : inCurrent'[v] \in Nat /\ inCurrent'[v] < cursor'
      BY <1>1, <1>2 DEF MarkInv, RangeInv
    <2>5. cursor' \in Nat
      BY <1>2 DEF ShapeInv
    <2>6. Generations => \A v \in Vertex : inCurrent'[v] <= cursor' /\ (inCurrent'[v] = cursor' <=> v \in next'.nodes)
      BY <2>1, <2>4, <2>5
    <2> QED BY <1>2, <2>3, <2>6 DEF MarkInv, Closing
  <1>8. ModelInv'
    BY <1>1, <1>2, <1>3 DEF ModelInv, Agree, Launched, InBatch, LightPart, Closing, Model!Resumed
  <1> QED BY <1>5, <1>6, <1>7, <1>8 DEF ControlInv

\* A node claimed by a thread is one the thread appends to the next queue.
LEMMA MarksFollowThreads ==
  ASSUME LoopState, NEW u \in Vertex, LightThread(u) \/ HeavyThread(u) PROVE MarkInv'
  <1> USE DEF LoopState
  <1>1. /\ Device!Kernel(u) /\ UNCHANGED <<descriptor, cursor, phase, kernel, current>>
        /\ phase = "kernel" /\ kernel \in {"light", "heavy"}
    BY DEF LightThread, HeavyThread, Device!Kernel, Device!LoadLabel, Device!SkipEdge,
           Device!RelaxEdge, Device!FinishThread, Device!host, Device!queues
  <1>2. CASE UNCHANGED <<inCurrent, next>>
    BY <1>1, <1>2 DEF MarkInv, BooleanFlags, Closing
  <1>3. CASE Device!RelaxEdge(u) /\ ~UNCHANGED <<inCurrent, next>>
    <2> DEFINE v == to[epos[u]]
               c == Candidate(u)
    <2>1. /\ next' = Push(next, v) /\ inCurrent' = [inCurrent EXCEPT ![v] = Device!Claim]
          /\ Bucket(c) = descriptor.bucket
      BY <1>3, DeviceLeaves DEF Device!RelaxEdge
    <2>2. v \in Vertex
      <3>1. pc[u] = "edge" /\ epos[u] < rowptr[u + 1]
        BY <1>3 DEF Device!RelaxEdge
      <3> QED BY <3>1, GraphTypes, RowBounds DEF SharedState, Edge
    <2>3. kernel = "light"
      <3>1. kernel = "heavy" => Bucket(c) > descriptor.bucket
        BY <1>3, DeviceLeaves DEF Device!RelaxEdge, Device!Eligible, Device!IsHeavy
      <3> QED BY <1>1, <2>1, <3>1 DEF ShapeInv
    <2>4. next'.nodes = next.nodes \cup {v}
      BY <2>1 DEF Push
    <2>5. ~Generations => inCurrent' = BooleanFlags'
      BY <1>1, <2>1, <2>2, <2>3, <2>4 DEF MarkInv, BooleanFlags, Device!Claim
    <2>6. Generations => \A w \in Vertex : inCurrent'[w] <= cursor' /\ (inCurrent'[w] = cursor' <=> w \in next'.nodes)
      <3> SUFFICES ASSUME Generations, NEW w \in Vertex
                   PROVE  inCurrent'[w] <= cursor' /\ (inCurrent'[w] = cursor' <=> w \in next'.nodes)
        OBVIOUS
      <3>1. inCurrent \in [Vertex -> Nat] /\ cursor \in Nat /\ inCurrent' = [inCurrent EXCEPT ![v] = cursor]
        BY <2>1 DEF RangeInv, Device!Claim
      <3>2. inCurrent[w] <= cursor /\ (inCurrent[w] = cursor <=> w \in next.nodes)
        BY <1>1, <2>3 DEF MarkInv
      <3> HIDE DEF v
      <3> QED BY <1>1, <2>2, <2>4, <3>1, <3>2
    <2> QED BY <1>1, <2>3, <2>5, <2>6 DEF MarkInv, Closing
  <1> QED BY <1>1, <1>2, <1>3
             DEF Device!Kernel, Device!LoadLabel, Device!SkipEdge, Device!FinishThread,
                 Device!arrays, Device!queues

\* Threads change neither the descriptor nor the queue they run over.
LEMMA ThreadKeeps ==
  ASSUME LoopState, ModelInv, H!WorkspaceInv, NEW u \in Vertex, LightThread(u) \/ HeavyThread(u), RecordSpent
  PROVE  ControlInv'
  <1> USE DEF LoopState
  <1>1. /\ Device!Kernel(u) /\ UNCHANGED <<control, iter, bucket, phase, kernel, current, stop, query>>
        /\ phase = "kernel" /\ kernel \in {"light", "heavy"}
    BY DEF LightThread, HeavyThread, Device!Kernel, Device!LoadLabel, Device!SkipEdge,
           Device!RelaxEdge, Device!FinishThread, Device!host, Device!queues, control
  <1>2. pending.count \in Nat /\ pending'.count \in {pending.count, pending.count + 1}
    <2>1. pending' = pending \/ \E v : pending' = Device!Push(pending, v)
      BY <1>1
         DEF Device!Kernel, Device!LoadLabel, Device!SkipEdge, Device!RelaxEdge,
             Device!FinishThread, Device!queues
    <2> QED BY <2>1, DeviceLeaves DEF Push, SharedState, Listed, Queue
  <1>3. spent' = spent
    BY <1>1 DEF RecordSpent
  <1>4. ShapeInv'
    BY <1>1 DEF ShapeInv, control, DescriptorOK
  <1>5. LoopInv'
    BY <1>1, <1>3 DEF LoopInv, Launched, InBatch, Closing, control
  <1>6. ModelInv'
    <2>1. model.pending \in Nat /\ model.pending <= pending.count
      BY <1>1 DEF ModelInv, Launched, InBatch, ShapeInv, DescriptorOK
    <2>2. model'.pending <= pending'.count
      BY <1>1, <1>2, <2>1 DEF control
    <2>3. kernel = "heavy" => PendingSeen'
      <3> SUFFICES ASSUME kernel = "heavy" PROVE PendingSeen'
        OBVIOUS
      <3>1. PendingSeen /\ descriptor.pending \in Nat
        BY <1>1 DEF ModelInv, Closing, ShapeInv, DescriptorOK
      <3>2. HostBucket = descriptor.bucket /\ HostBucket' = descriptor'.bucket
        <4>1. UNCHANGED Surroundings
          BY <1>1
             DEF Device!Kernel, Device!LoadLabel, Device!SkipEdge, Device!RelaxEdge, Device!FinishThread,
                 Device!host, Surroundings
        <4> QED BY <1>1, <4>1, BucketView, BucketMoves DEF control
      <3>3. H!Successors = Device!Successors /\ (H!Successors)' = (Device!Successors)'
        BY <3>2, HostLeaves, DeviceLeaves DEF H!Successors, Device!Successors
      <3>4. /\ H!Successors # {} => (H!Successors)' # {}
            /\ pending'.count # pending.count => (H!Successors)' # {}
        BY ThreadMaps, HostAssumptions, HostConstants, H!SuccessorsStay
      <3> QED BY <1>1, <1>2, <3>1, <3>3, <3>4 DEF PendingSeen, control
    <2> QED BY <1>1, <2>2, <2>3 DEF ModelInv, Agree, Launched, InBatch, LightPart, Closing, Model!Resumed, control
  <1> QED BY <1>4, <1>5, <1>6, MarksFollowThreads DEF ControlInv

\* The sequential model counts a round as the leader does.
LEMMA EndRoundKeeps ==
  ASSUME LoopState, ModelInv, SharedState', RoundsFit, EndRound, RecordSpent PROVE ControlInv'
  <1> USE DEF LoopState
  <1>1. phase = "kernel" /\ kernel = "light" /\ kernel' = "none" /\ current' = next
    BY DEF EndRound, ThreadsDone
  <1>2. Overflow = {} /\ MaxCount \notin {descriptor.lightRounds, descriptor.rounds}
    <2>1. Overflow = {}
      BY <1>1, BucketView, NoOverflow
    <2>2. descriptor.rounds <= descriptor.lightRounds /\ descriptor.rounds \in Nat /\ descriptor.lightRounds \in Nat
      BY <1>1 DEF LoopInv, Launched, InBatch, ShapeInv, DescriptorOK
    <2> QED BY <2>1, <2>2, ControllerAssumption DEF RoundsFit
  <1> DEFINE counted == [descriptor EXCEPT !.current = next.count, !.pending = pending.count,
                                           !.lightRounds = @ + 1, !.rounds = @ + 1]
             round == Model!LightRound(model, Event(descriptor.bucket, next.count, pending.count, NoNext, {}))
  <1>3. /\ descriptor' = counted /\ cursor' = NextCursor
        /\ phase' = IF next.count = 0 THEN "boundary" ELSE IF GoesOn(counted) THEN "closure" ELSE "batchEnd"
        /\ model' = IF next.count = 0 THEN model ELSE round
    BY <1>2 DEF EndRound, Event
  <1>4. UNCHANGED <<inCurrent, next, pending, heavy, stop, query, accepted, iter, bucket, sequence>>
    BY DEF EndRound, Surroundings, arrays
  <1>5. next.count \in Nat /\ pending.count \in Nat
    BY DEF SharedState, Listed, Queue
  <1>6. /\ DescriptorOK(descriptor') /\ descriptor'.current = next.count
        /\ descriptor'.rounds = descriptor.rounds + 1 /\ descriptor'.lightRounds = descriptor.lightRounds + 1
        /\ descriptor'.next = NoNext /\ descriptor'.pending = pending.count
        /\ \A f \in {"query", "publication", "status", "phase", "bucket", "iterations"} : descriptor'[f] = descriptor[f]
    BY <1>1, <1>3, <1>5 DEF ShapeInv, DescriptorOK, LoopInv
  <1>7. /\ Agree({"publication", "bucket", "iterations"}) /\ model.status = {} /\ descriptor.status = {}
        /\ Model!Resumed(model).phase = "light" /\ Model!Resumed(model).rounds = descriptor.rounds
        /\ Model!Resumed(model).lightRounds = descriptor.lightRounds /\ model.pending <= pending.count
        /\ descriptor.query = sequence /\ model.query = sequence /\ descriptor.publication = accepted
    BY <1>1 DEF ModelInv, InBatch, LightPart, Launched, LoopInv, ShapeInv
  <1> DEFINE check == ~GoesOn(counted)
  <1>8. next.count # 0 =>
          /\ DescriptorOK(model') /\ model'.query = sequence /\ model'.bucket = descriptor'.bucket
          /\ model'.iterations = descriptor'.iterations /\ model'.status = {} /\ model'.phase = "light"
          /\ model'.current = next.count /\ model'.pending = pending.count /\ model'.next = NoNext
          /\ model'.rounds = descriptor'.rounds /\ model'.lightRounds = descriptor'.lightRounds
          /\ model'.action = IF check THEN "check" ELSE "continue"
          /\ model'.publication = IF check THEN descriptor'.publication + 1 ELSE descriptor'.publication
    <2>1. model.bucket = descriptor.bucket /\ model.iterations = descriptor.iterations
          /\ model.publication = descriptor.publication
      BY <1>7 DEF Agree
    <2>2. check <=> descriptor.rounds + 1 >= BatchSize
      BY <1>3, <1>6, ControllerAssumption DEF GoesOn, ShapeInv, DescriptorOK
    <2>3. next.count # 0 => model' = Model!LightRound(model, Event(model.bucket, next.count, pending.count, NoNext, {}))
      BY <1>3, <2>1
    <2>4. DescriptorOK(model)
      BY DEF ShapeInv
    <2> HIDE DEF counted, check
    <2> SUFFICES ASSUME next.count # 0 PROVE
          /\ DescriptorOK(model') /\ model'.query = model.query /\ model'.bucket = model.bucket
          /\ model'.iterations = model.iterations /\ model'.status = {} /\ model'.phase = "light"
          /\ model'.current = next.count /\ model'.pending = pending.count /\ model'.next = NoNext
          /\ model'.rounds = descriptor.rounds + 1 /\ model'.lightRounds = descriptor.lightRounds + 1
          /\ model'.action = IF descriptor.rounds + 1 >= BatchSize THEN "check" ELSE "continue"
          /\ model'.publication = IF descriptor.rounds + 1 >= BatchSize THEN model.publication + 1
                                  ELSE model.publication
      BY <1>6, <1>7, <2>1, <2>2
    <2>5. next.count \in Nat \ {0} /\ MaxCount \notin {Model!Resumed(model).lightRounds, Model!Resumed(model).rounds}
      BY <1>2, <1>5, <1>7
    <2>6. PICK c \in Nat \ {0}, p \in Nat : c = next.count /\ p = pending.count
      BY <1>5, <2>5
    <2> DEFINE n == Model!LightRound(model, Event(model.bucket, c, p, NoNext, {}))
    <2>7. n = model'
      BY <2>3, <2>6
    <2>8. Model!Resumed(model).phase = "light" /\ model.status = {} /\ model.pending <= p
      BY <1>7, <2>6
    <2>9. /\ DescriptorOK(n) /\ n.query = model.query /\ n.bucket = model.bucket /\ n.iterations = model.iterations
          /\ n.status = {} /\ n.phase = "light" /\ n.current = c /\ n.pending = p /\ n.next = NoNext
          /\ n.rounds = Model!Resumed(model).rounds + 1 /\ n.lightRounds = Model!Resumed(model).lightRounds + 1
          /\ n.action = IF Model!Resumed(model).rounds + 1 >= BatchSize THEN "check" ELSE "continue"
          /\ n.publication = IF Model!Resumed(model).rounds + 1 >= BatchSize THEN model.publication + 1
                             ELSE model.publication
      BY <2>4, <2>5, <2>8, OpenRound
    <2> HIDE DEF n
    <2> QED BY <1>7, <2>6, <2>7, <2>9
  <1>9. next.count = 0 => model' = model
    BY <1>3
  <1>10. phase' = IF next.count = 0 THEN "boundary" ELSE IF check THEN "batchEnd" ELSE "closure"
    BY <1>3
  <1> HIDE DEF counted, round, check
  <1>11. spent' = EmptyQueue
    BY <1>1, <1>10 DEF RecordSpent, LoopInv, InBatch
  <1>12. ShapeInv'
    <2>1. cursor' \in Nat
      BY <1>3 DEF NextCursor, ShapeInv
    <2> QED BY <1>1, <1>4, <1>6, <1>8, <1>9, <1>10, <2>1 DEF ShapeInv
  <1>13. LoopInv'
    <2>1. query.maxIters # 0 /\ stop = "none" /\ descriptor.rounds <= descriptor.lightRounds
          /\ descriptor.rounds \in Nat /\ descriptor.lightRounds \in Nat
      BY <1>1 DEF LoopInv, Launched, InBatch, ShapeInv, DescriptorOK
    <2>2. descriptor'.rounds <= descriptor'.lightRounds
      BY <1>6, <2>1
    <2> QED BY <1>1, <1>4, <1>6, <1>7, <1>10, <1>11, <2>1, <2>2 DEF LoopInv, Launched, InBatch, Closing, Ended
  <1>14. MarkInv'
    <2>1. ~Generations => inCurrent' = BooleanFlags'
      BY <1>1, <1>4, <1>10 DEF MarkInv, BooleanFlags
    <2>2. Generations => \A v \in Vertex : inCurrent'[v] < cursor'
      <3> SUFFICES ASSUME Generations, NEW v \in Vertex PROVE inCurrent'[v] < cursor'
        OBVIOUS
      <3>1. inCurrent[v] \in Nat /\ inCurrent[v] <= cursor /\ cursor \in Nat
        BY <1>1 DEF MarkInv, RangeInv
      <3> QED BY <1>3, <1>4, <3>1 DEF NextCursor
    <2> QED BY <1>1, <1>10, <2>1, <2>2 DEF MarkInv, Closing
  <1>15. ModelInv'
    <2>1. CASE next.count = 0
      <3>1. phase' = "boundary" /\ kernel' = "none" /\ model' = model
        BY <1>1, <1>9, <1>10, <2>1
      <3>2. Agree({"publication", "bucket", "iterations"})'
        BY <1>6, <1>7, <3>1 DEF Agree
      <3>3. Model!Resumed(model)' = Model!Resumed(model)
        BY <3>1 DEF Model!Resumed
      <3>4. PendingSeen'
        BY <1>4, <1>5, <1>6 DEF PendingSeen
      <3> QED BY <1>4, <1>6, <1>7, <3>1, <3>2, <3>3, <3>4 DEF ModelInv, Launched, InBatch, LightPart, Closing
    <2>2. CASE next.count # 0 /\ ~check
      <3>1. phase' = "closure" /\ model'.action = "continue" /\ model'.publication = descriptor'.publication
        BY <1>8, <1>10, <2>2
      <3>2. Model!Resumed(model)' = model'
        BY <3>1 DEF Model!Resumed
      <3>3. Agree({"publication", "bucket", "iterations"})'
        BY <1>8, <2>2, <3>1 DEF Agree
      <3> QED BY <1>1, <1>4, <1>5, <1>8, <2>2, <3>1, <3>2, <3>3 DEF ModelInv, Launched, InBatch, LightPart, Closing
    <2>3. CASE next.count # 0 /\ check
      <3>1. phase' = "batchEnd" /\ model'.action = "check" /\ model'.publication = descriptor'.publication + 1
        BY <1>8, <1>10, <2>3
      <3>2. Agree(Compared \ {"publication", "phase", "action"})'
        BY <1>6, <1>7, <1>8, <2>3 DEF Agree, Compared
      <3>3. LastCounts'
        BY <1>4, <1>6, <1>7, <1>8, <2>3 DEF LastCounts
      <3> QED BY <1>1, <1>4, <1>5, <1>6, <1>7, <1>8, <2>3, <3>1, <3>2, <3>3
                 DEF ModelInv, Launched, InBatch, LightPart, Closing, Stopping
    <2> QED BY <2>1, <2>2, <2>3
  <1> QED BY <1>12, <1>13, <1>14, <1>15 DEF ControlInv

\* Between the last round of a bucket and its boundary only labels change.
LEMMA ClosingKeeps ==
  ASSUME LoopState, ModelInv, StartHeavyRange \/ NoHeavyRange \/ EndHeavyRange, RecordSpent PROVE ControlInv'
  <1> USE DEF LoopState
  <1>1. /\ Closing /\ phase \in {"boundary", "kernel"} /\ (phase = "kernel" => kernel = "heavy")
        /\ (phase' = "settle" /\ kernel' = "none") \/ (phase' = "kernel" /\ kernel' = "heavy")
        /\ UNCHANGED <<control, queues, dist, inPending, inCurrent, stop, query, iter, bucket>>
    <2>1. CASE EndHeavyRange
      <3>1. phase = "kernel" /\ kernel = "heavy" /\ kernel' = "none"
        BY <2>1 DEF EndHeavyRange, ThreadsDone
      <3>2. Overflow = {}
        BY <3>1, BucketView, NoOverflow
      <3> QED BY <2>1, <3>1, <3>2 DEF EndHeavyRange, Closing, control, Surroundings, arrays
    <2>2. CASE StartHeavyRange \/ NoHeavyRange
      BY <2>2 DEF StartHeavyRange, NoHeavyRange, Launch, ShapeInv, Closing, control, Surroundings, arrays, threads
    <2> QED BY <2>1, <2>2
  <1>2. Closing' /\ spent' = spent
    BY <1>1 DEF Closing, RecordSpent
  <1>3. ShapeInv'
    BY <1>1 DEF ShapeInv, control, DescriptorOK
  <1>4. LoopInv'
    BY <1>1, <1>2 DEF LoopInv, Launched, InBatch, Closing, control, queues
  <1>5. MarkInv'
    <2>1. BooleanFlags' = BooleanFlags
      <3>1. kernel # "light" /\ kernel' # "light"
        BY <1>1 DEF ShapeInv
      <3> QED BY <1>1, <3>1 DEF BooleanFlags, queues
    <2>2. phase' \in {"settle", "kernel"} /\ (phase' = "kernel" => kernel' = "heavy") /\ UNCHANGED <<inCurrent, cursor>>
      BY <1>1 DEF control
    <2>3. ~Generations => inCurrent' = BooleanFlags'
      BY <2>1, <2>2 DEF MarkInv
    <2>4. Generations => \A v \in Vertex : inCurrent'[v] < cursor'
      BY <1>1, <2>2 DEF MarkInv
    <2> QED BY <2>2, <2>3, <2>4 DEF MarkInv
  <1>6. ModelInv'
    <2>1. PendingSeen'
      BY <1>1 DEF ModelInv, PendingSeen, Device!Successors, control, queues
    <2> QED BY <1>1, <1>2, <2>1
               DEF ModelInv, Agree, Launched, InBatch, LightPart, Closing, Model!Resumed, control, queues
  <1> QED BY <1>3, <1>4, <1>5, <1>6 DEF ControlInv

\* What the model has counted when a bucket closes.
LEMMA BoundaryCounts ==
  ASSUME ShapeInv, LoopInv, ModelInv, phase = "settle", RoundsFit
  PROVE  /\ MaxCount \notin {Model!Resumed(model).lightRounds, Model!Resumed(model).rounds}
         /\ Model!Resumed(model).phase = "light" /\ model.status = {} /\ model.pending <= pending.count
         /\ Model!Resumed(model).rounds + 1 = descriptor.rounds
         /\ Model!Resumed(model).lightRounds + 1 = descriptor.lightRounds
         /\ model.bucket = descriptor.bucket /\ model.iterations = descriptor.iterations
         /\ model.publication = descriptor.publication
  <1>1. /\ Model!Resumed(model).phase = "light" /\ model.status = {} /\ model.pending <= pending.count
        /\ Model!Resumed(model).rounds + 1 = descriptor.rounds
        /\ Model!Resumed(model).lightRounds + 1 = descriptor.lightRounds
        /\ Agree({"publication", "bucket", "iterations"})
    BY DEF ModelInv, InBatch, Launched, Closing
  <1>2. DescriptorOK(Model!Resumed(model))
    BY ResumedKeeps DEF ShapeInv
  <1>3. /\ Model!Resumed(model).lightRounds \in Nat /\ Model!Resumed(model).rounds \in Nat
        /\ descriptor.rounds <= descriptor.lightRounds /\ descriptor.lightRounds < MaxCount
    BY <1>2 DEF DescriptorOK, LoopInv, Launched, InBatch, RoundsFit
  <1> QED BY <1>1, <1>3, ControllerAssumption DEF Agree

\* The minimum of the pending buckets, as the device reduces it.
LEMMA LeastPendingRange ==
  ASSUME LoopState, H!WorkspaceInv, phase = "settle", Device!Successors # {}
  PROVE  /\ LeastPending \in 0 .. NoBucket - 1 /\ descriptor.bucket < LeastPending
         /\ \E v \in pending.nodes \cap inPending : Bucket(dist[v]) = LeastPending
  <1> USE DEF LoopState
  <1>1. HostBucket = descriptor.bucket
    BY BucketView
  <1>2. H!Successors # {} /\ H!NextBucket = LeastPending
    BY <1>1, SameDecisions
  <1>3. H!TypeOK
    BY DEF H!WorkspaceInv, H!TypeInv
  <1>4. LeastPending \in Nat /\ descriptor.bucket < LeastPending /\ LeastPending < NoBucket
    BY <1>1, <1>2, <1>3, HostAssumptions, H!NextBucketRange
  <1>5. LeastPending \in Device!Successors
    <2>1. Device!Successors \in SUBSET Nat
      <3>1. \A v \in pending.nodes \cap inPending : Device!Bucket(dist[v]) \in Nat
        <4>1. \A v \in pending.nodes : dist[v] \in Cost
          BY DEF SharedState, Listed
        <4> QED BY <4>1, HostAssumptions, HostConstants, H!BucketRange, HostLeaves, DeviceLeaves
      <3> QED BY <3>1 DEF Device!Successors
    <2>2. \E m \in Device!Successors : \A k \in Device!Successors : m <= k
      BY <2>1, LeastNat
    <2> QED BY <2>2 DEF LeastPending, Device!NextBucket
  <1>6. \E v \in pending.nodes \cap inPending : Bucket(dist[v]) = LeastPending
    BY <1>5, DeviceLeaves DEF Device!Successors
  <1> QED BY <1>4, <1>6, DeltaAssumption

\* Relaxation keeps every distance below the limit, so the pending nodes too lie
\* in buckets the limit allows.
LEMMA LeastPendingAllowed ==
  ASSUME LoopState, HostInv, phase = "settle", Device!Successors # {}
  PROVE  LeastPending <= LastAllowed
  <1> USE DEF LoopState
  <1>1. H!WorkspaceInv /\ H!TypeInv /\ H!ReachInv
    BY DEF HostInv, H!WorkspaceInv
  <1>2. PICK v \in pending.nodes \cap inPending : Bucket(dist[v]) = LeastPending
    BY <1>1, LeastPendingRange
  <1>3. v \in Vertex /\ dist[v] \in Cost
    BY DEF SharedState, Listed
  <1>4. HostPhase = "settle" /\ LeastPending \in 0 .. NoBucket - 1
    BY <1>1, BucketView, LeastPendingRange
  <1>5. dist[v] # Inf
    <2>1. H!Bucket(dist[v]) < NoBucket
      BY <1>2, <1>4, HostLeaves, DeltaAssumption
    <2>2. dist[v] \in H!Cost
      BY <1>3, HostConstants
    <2>3. dist[v] # H!Inf
      BY <2>1, <2>2, HostAssumptions, H!BucketRange
    <2> QED BY <2>3, HostConstants
  <1>6. (dist[v] < query.limit \/ dist[v] = 0) /\ query.limit # 0
    BY <1>1, <1>3, <1>4, <1>5, HostConstants DEF H!ReachInv, H!Measuring, H!Looping
  <1>7. query.limit \in Nat
    BY DeltaAssumption, CostEnds DEF SharedState
  <1>8. dist[v] < query.limit
    BY <1>6, <1>7
  <1> QED BY <1>1, <1>2, <1>3, <1>8, HostAssumptions, HostConstants, HostLeaves, H!BelowLimit

\* The device gives the query up where the model does.
LEMMA CloseKeeps ==
  ASSUME LoopState, ModelInv, HostInv, RoundsFit, CloseLast, RecordSpent PROVE ControlInv'
  <1> USE DEF LoopState
  <1> DEFINE s == IF Reason = "target" THEN "target" ELSE "complete"
             least == IF Reason = "target" \/ Device!Successors = {} THEN NoNext ELSE LeastPending
             closed == [descriptor EXCEPT !.iterations = @ + 1, !.next = least]
  <1>1. /\ phase = "settle" /\ phase' = "batchEnd" /\ kernel = "none" /\ kernel' = "none"
        /\ UNCHANGED <<arrays, queues, stop, query, iter, bucket, cursor, sequence, accepted>>
        /\ descriptor' = Finished(closed, {s})
        /\ model' = Model!LightRound(model, Event(descriptor.bucket, 0, pending.count, least, {s}))
    BY DEF CloseLast, ShapeInv, threads, Surroundings, Event
  <1>2. least = NoNext /\ least \in Nat /\ (s # "target" => Device!Successors = {})
    <2>1. Reason # "none"
      BY DEF CloseLast
    <2>2. ASSUME Reason # "target" PROVE Device!Successors = {}
      <3>1. Device!Successors # {} => LeastPending <= LastAllowed /\ LeastPending \in Nat /\ LastAllowed \in Int
        BY <1>1, LeastPendingAllowed, LeastPendingRange, DeltaAssumption DEF HostInv, SharedState
      <3>2. Device!Successors # {} => Limited /\ LeastPending > LastAllowed
        BY <2>1, <2>2, DeviceLeaves DEF Reason, Device!StopReason, LeastPending
      <3> QED BY <3>1, <3>2
    <2> QED BY <2>2, ControllerAssumption
  <1> HIDE DEF least
  <1>3. /\ query.maxIters # 0 /\ stop = "none" /\ descriptor.query = sequence /\ model.query = sequence
        /\ descriptor.publication = accepted /\ descriptor.current = 0 /\ descriptor.rounds <= descriptor.lightRounds
        /\ descriptor.status = {} /\ PendingSeen
    BY <1>1 DEF LoopInv, ModelInv, Launched, InBatch, Closing, ShapeInv
  <1>4. s \in {"target", "complete"} /\ s \in Status /\ Model!TerminalAction({s}) = s
    BY SingleStop DEF Status
  <1> HIDE DEF s
  <1>5. /\ DescriptorOK(closed) /\ closed.status = {} /\ closed.iterations = descriptor.iterations + 1
        /\ closed.next = NoNext
        /\ \A f \in {"query", "publication", "rounds", "lightRounds", "current", "pending", "bucket"} :
              closed[f] = descriptor[f]
    BY <1>2, <1>3 DEF ShapeInv, DescriptorOK
  <1> HIDE DEF closed
  <1>6. /\ DescriptorOK(descriptor') /\ descriptor'.status = {s} /\ descriptor'.phase = "finished" /\ descriptor'.action = s
        /\ \A f \in {"query", "publication", "rounds", "lightRounds", "current", "pending", "bucket", "next",
                     "iterations"} :
              descriptor'[f] = closed[f]
    <2>1. descriptor' = [closed EXCEPT !.status = {s}, !.phase = "finished", !.action = s]
      BY <1>1, <1>4, <1>5 DEF Finished
    <2> QED BY <1>4, <1>5, <2>1 DEF DescriptorOK
  <1>7. pending.count \in Nat
    BY DEF SharedState, Listed, Queue
  <1>8. /\ DescriptorOK(model') /\ model'.query = model.query /\ model'.bucket = model.bucket
        /\ model'.iterations = model.iterations + 1 /\ model'.status = {s} /\ model'.phase = "finished" /\ model'.action = s
        /\ model'.current = 0 /\ model'.pending = pending.count /\ model'.next = NoNext
        /\ model'.rounds = descriptor.rounds /\ model'.lightRounds = descriptor.lightRounds
        /\ model'.publication = model.publication + 1
        /\ model.bucket = descriptor.bucket /\ model.iterations = descriptor.iterations
        /\ model.publication = descriptor.publication
    <2>1. DescriptorOK(model)
      BY DEF ShapeInv
    <2>2. /\ MaxCount \notin {Model!Resumed(model).lightRounds, Model!Resumed(model).rounds}
          /\ Model!Resumed(model).phase = "light" /\ model.status = {} /\ model.pending <= pending.count
          /\ Model!Resumed(model).rounds + 1 = descriptor.rounds
          /\ Model!Resumed(model).lightRounds + 1 = descriptor.lightRounds
          /\ model.bucket = descriptor.bucket /\ model.iterations = descriptor.iterations
          /\ model.publication = descriptor.publication
      BY <1>1, BoundaryCounts
    <2>3. model' = Model!LightRound(model, Event(model.bucket, 0, pending.count, NoNext, {s}))
      BY <1>1, <1>2, <2>2
    <2>4. /\ DescriptorOK(model') /\ model'.query = model.query /\ model'.bucket = model.bucket
          /\ model'.iterations = model.iterations + 1 /\ model'.status = {s} /\ model'.phase = "finished"
          /\ model'.action = s /\ model'.current = 0 /\ model'.pending = pending.count /\ model'.next = NoNext
          /\ model'.rounds = Model!Resumed(model).rounds + 1
          /\ model'.lightRounds = Model!Resumed(model).lightRounds + 1
          /\ model'.publication = model.publication + 1
      <3>1. PICK st \in LastFlags : st = {s}
        BY <1>4 DEF LastFlags
      <3>2. PICK p \in Nat : p = pending.count
        BY <1>7
      <3> DEFINE n == Model!LightRound(model, Event(model.bucket, 0, p, NoNext, st))
      <3>3. n = model'
        BY <2>3, <3>1, <3>2
      <3>4. /\ Model!Resumed(model).phase = "light" /\ model.status = {} /\ model.pending <= p
            /\ MaxCount \notin {Model!Resumed(model).lightRounds, Model!Resumed(model).rounds}
        BY <2>2, <3>2
      <3>5. /\ DescriptorOK(n) /\ n.query = model.query /\ n.bucket = model.bucket
            /\ n.iterations = model.iterations + 1 /\ n.status = st /\ n.phase = "finished"
            /\ n.action = Model!TerminalAction(st) /\ n.current = 0 /\ n.pending = p /\ n.next = NoNext
            /\ n.rounds = Model!Resumed(model).rounds + 1
            /\ n.lightRounds = Model!Resumed(model).lightRounds + 1
            /\ n.publication = model.publication + 1
        BY <2>1, <3>4, LastRound
      <3> HIDE DEF n
      <3> QED BY <1>4, <3>1, <3>2, <3>3, <3>5
    <2> QED BY <2>2, <2>4
  <1>9. ShapeInv'
    BY <1>1, <1>3, <1>5, <1>6, <1>8 DEF ShapeInv
  <1>10. LoopInv'
    <2>1. Ended'
      BY <1>4, <1>6 DEF Ended
    <2> QED BY <1>1, <1>3, <1>5, <1>6, <2>1 DEF LoopInv, Launched, InBatch, Closing
  <1>11. MarkInv'
    BY <1>1 DEF MarkInv, Closing, BooleanFlags, arrays, queues
  <1>12. ModelInv'
    <2>1. Agree((Compared \ {"publication", "phase", "action"}) \cup {"phase", "action"})'
      BY <1>3, <1>5, <1>6, <1>8 DEF Agree, Compared
    <2>2. Agree(Compared \ {"publication", "phase", "action"})' /\ Agree({"phase", "action"})'
      BY <2>1 DEF Agree
    <2>3. Stopping(descriptor)' /\ model'.publication = descriptor'.publication + 1
      BY <1>5, <1>6, <1>8 DEF Stopping
    <2>4. LastCounts'
      <3>1. pending' = pending /\ descriptor'.pending = descriptor.pending
        BY <1>1, <1>5, <1>6 DEF queues
      <3>2. descriptor.pending <= pending.count /\ (s # "target" => descriptor.pending = pending.count)
        BY <1>2, <1>3 DEF PendingSeen
      <3>3. descriptor'.next = NoNext /\ descriptor'.status = {s}
        BY <1>5, <1>6
      <3> QED BY <1>8, <3>1, <3>2, <3>3 DEF LastCounts
    <2> QED BY <1>1, <1>7, <1>8, <2>2, <2>3, <2>4 DEF ModelInv, Launched, InBatch, LightPart, Closing, queues
  <1> QED BY <1>9, <1>10, <1>11, <1>12 DEF ControlInv

\* Compaction puts every pending node of the next bucket on the current queue,
\* and no node on both queues.
LEMMA Compacted ==
  ASSUME LoopState, H!WorkspaceInv, Compact, SharedState'
  PROVE  /\ current'.nodes # {} /\ current'.nodes \in SUBSET Vertex
         /\ inCurrent' = [v \in Vertex |-> IF v \in current'.nodes THEN Device!Claim ELSE inCurrent[v]]
         /\ current'.count \in Nat /\ current'.count # 0 /\ pending'.count \in Nat /\ pending.count \in Nat
         /\ current'.count + pending'.count <= pending.count
         /\ LeastPending \in 0 .. NoBucket - 1 /\ descriptor.bucket < LeastPending
         /\ Limited => LeastPending <= LastAllowed
  <1> USE DEF LoopState
  <1> DEFINE active   == pending.nodes \cap inPending
             selected == {v \in active : Bucket(dist[v]) = LeastPending}
             kept     == {v \in active : LeastPending < Bucket(dist[v]) /\ Bucket(dist[v]) < NoBucket}
  <1>1. phase = "settle" /\ Reason = "none"
    BY DEF Compact
  <1>2. Device!Successors # {} /\ (Limited => ~(LeastPending > LastAllowed))
    BY <1>1, DeviceLeaves DEF Reason, Device!StopReason, LeastPending
  <1>3. /\ LeastPending \in 0 .. NoBucket - 1 /\ descriptor.bucket < LeastPending
        /\ \E v \in active : Bucket(dist[v]) = LeastPending
    BY <1>1, <1>2, LeastPendingRange
  <1>4. Limited => LeastPending <= LastAllowed
    BY <1>2, <1>3, DeltaAssumption DEF SharedState
  <1>5. active \subseteq Vertex /\ active \subseteq pending.nodes /\ pending.nodes \subseteq Vertex
    BY DEF SharedState, Listed
  <1>6. {v \in selected : Device!Unclaimed(v)} = selected
    <2>1. \A v \in Vertex : Device!Unclaimed(v)
      <3>1. CASE Generations
        <4>1. \A v \in Vertex : inCurrent[v] \in Nat /\ inCurrent[v] < cursor
          BY <1>1, <3>1 DEF MarkInv, Closing, RangeInv
        <4>2. cursor \in Nat
          BY DEF ShapeInv
        <4> QED BY <3>1, <4>1, <4>2 DEF Device!Unclaimed
      <3>2. CASE ~Generations
        <4>1. current.nodes = {} /\ kernel = "none"
          BY <1>1 DEF ShapeInv, LoopInv, Closing, SharedState, Listed
        <4>2. BooleanFlags = [v \in Vertex |-> 0]
          BY <1>1, <4>1 DEF BooleanFlags
        <4> QED BY <3>2, <4>2 DEF MarkInv, Device!Unclaimed
      <3> QED BY <3>1, <3>2
    <2> QED BY <1>5, <2>1
  <1>7. /\ current' = QueueOf(selected) /\ pending' = QueueOf(kept)
        /\ inCurrent' = [v \in Vertex |-> IF v \in selected THEN Device!Claim ELSE inCurrent[v]]
    BY <1>6 DEF Compact
  <1>8. selected # {} /\ selected \subseteq active /\ kept \subseteq active
    BY <1>3
  <1>9. selected \cap kept = {}
    <2>1. \A v \in selected : v \notin kept
      BY <1>3
    <2> QED BY <2>1
  <1> HIDE DEF selected, kept, active
  <1>10. Cardinality(selected) + Cardinality(kept) <= Cardinality(pending.nodes)
    <2>1. IsFiniteSet(pending.nodes)
      BY <1>5, FiniteNodes, FS_Subset
    <2>2. IsFiniteSet(selected) /\ IsFiniteSet(kept) /\ selected \cup kept \subseteq pending.nodes
      BY <1>5, <1>8, <2>1, FS_Subset
    <2>3. Cardinality(selected \cup kept) = Cardinality(selected) + Cardinality(kept)
      <3>1. /\ Cardinality(selected \cup kept)
                  = Cardinality(selected) + Cardinality(kept) - Cardinality(selected \cap kept)
            /\ Cardinality(selected) \in Nat /\ Cardinality(kept) \in Nat
        BY <2>2, FS_Union, FS_CardinalityType
      <3>2. Cardinality(selected \cap kept) = 0
        BY <1>9, FS_EmptySet
      <3> QED BY <3>1, <3>2
    <2>4. Cardinality(selected \cup kept) <= Cardinality(pending.nodes)
      BY <2>1, <2>2, FS_Subset
    <2> QED BY <2>3, <2>4
  <1>11. current'.nodes = selected /\ current'.count = Cardinality(selected) /\ pending'.count = Cardinality(kept)
    BY <1>7 DEF QueueOf
  <1>12. /\ current'.count \in Nat /\ current'.count # 0 /\ pending'.count \in Nat
         /\ pending.count \in Nat /\ pending.count = Cardinality(pending.nodes)
    <2>1. Listed(current)' /\ Listed(pending)' /\ Listed(pending)
      BY DEF SharedState
    <2> QED BY <1>8, <1>11, <2>1 DEF Listed, Queue
  <1> QED BY <1>3, <1>4, <1>5, <1>7, <1>8, <1>10, <1>11, <1>12

\* The model sees the round that closed the bucket and its successor.
LEMMA CompactKeeps ==
  ASSUME LoopState, ModelInv, H!WorkspaceInv, SharedState', RoundsFit, Compact, RecordSpent PROVE ControlInv'
  <1> USE DEF LoopState
  <1>1. /\ phase = "settle" /\ phase' = "compacted" /\ kernel = "none" /\ kernel' = "none"
        /\ UNCHANGED <<stop, query, iter, bucket, cursor, sequence, accepted>>
        /\ descriptor' = [descriptor EXCEPT !.iterations = @ + 1, !.next = LeastPending]
        /\ model' = Model!LightRound(model, Event(descriptor.bucket, 0, pending.count, LeastPending, {}))
    BY DEF Compact, ShapeInv, threads, Surroundings, Event
  <1>2. /\ inCurrent' = [v \in Vertex |-> IF v \in current'.nodes THEN Device!Claim ELSE inCurrent[v]]
        /\ current'.count \in Nat /\ current'.count # 0 /\ pending'.count \in Nat /\ pending.count \in Nat
        /\ current'.count + pending'.count <= pending.count
        /\ LeastPending \in 0 .. NoBucket - 1 /\ descriptor.bucket < LeastPending
        /\ Limited => LeastPending <= LastAllowed
    BY Compacted
  <1>3. /\ query.maxIters # 0 /\ stop = "none" /\ descriptor.query = sequence /\ model.query = sequence
        /\ descriptor.publication = accepted /\ descriptor.rounds <= descriptor.lightRounds
        /\ descriptor.status = {} /\ spent = EmptyQueue
    BY <1>1 DEF LoopInv, Launched, InBatch, ShapeInv
  <1>4. /\ DescriptorOK(descriptor') /\ descriptor'.iterations = descriptor.iterations + 1
        /\ descriptor'.next = LeastPending
        /\ \A f \in {"query", "publication", "status", "rounds", "lightRounds", "bucket"} :
              descriptor'[f] = descriptor[f]
    BY <1>1, <1>2, DeltaAssumption DEF ShapeInv, DescriptorOK
  <1>5. /\ DescriptorOK(model') /\ model'.query = model.query /\ model'.bucket = descriptor.bucket
        /\ model'.iterations = descriptor.iterations + 1 /\ model'.status = {} /\ model'.phase = "boundary"
        /\ model'.pending = pending.count /\ model'.next = LeastPending /\ model'.action = "advance"
        /\ model'.rounds = descriptor.rounds /\ model'.lightRounds = descriptor.lightRounds
        /\ model'.publication = descriptor.publication
    <2>1. DescriptorOK(model)
      BY DEF ShapeInv
    <2>2. /\ MaxCount \notin {Model!Resumed(model).lightRounds, Model!Resumed(model).rounds}
          /\ Model!Resumed(model).phase = "light" /\ model.status = {} /\ model.pending <= pending.count
          /\ Model!Resumed(model).rounds + 1 = descriptor.rounds
          /\ Model!Resumed(model).lightRounds + 1 = descriptor.lightRounds
          /\ model.bucket = descriptor.bucket /\ model.iterations = descriptor.iterations
          /\ model.publication = descriptor.publication
      BY <1>1, BoundaryCounts
    <2>3. PICK p \in Nat \ {0}, x \in Nat : p = pending.count /\ x = LeastPending
      BY <1>2, DeltaAssumption
    <2>4. x # NoNext /\ model.bucket < x
      BY <1>2, <2>2, <2>3, ControllerAssumption
    <2> DEFINE n == Model!LightRound(model, Event(model.bucket, 0, p, x, {}))
    <2>5. n = model'
      BY <1>1, <2>2, <2>3
    <2>6. /\ Model!Resumed(model).phase = "light" /\ model.status = {} /\ model.pending <= p
          /\ MaxCount \notin {Model!Resumed(model).lightRounds, Model!Resumed(model).rounds}
      BY <2>2, <2>3
    <2>7. /\ DescriptorOK(n) /\ n.query = model.query /\ n.bucket = model.bucket /\ n.iterations = model.iterations + 1
          /\ n.status = {} /\ n.phase = "boundary" /\ n.pending = p /\ n.next = x /\ n.action = "advance"
          /\ n.rounds = Model!Resumed(model).rounds + 1 /\ n.lightRounds = Model!Resumed(model).lightRounds + 1
          /\ n.publication = model.publication
      BY <2>1, <2>4, <2>6, ClosedRound
    <2> HIDE DEF n
    <2> QED BY <2>2, <2>3, <2>5, <2>7
  <1>6. spent' = EmptyQueue
    BY <1>1, <1>3 DEF RecordSpent
  <1>7. ShapeInv'
    BY <1>1, <1>3, <1>4, <1>5 DEF ShapeInv
  <1>8. LoopInv'
    <2>1. Limited' = Limited /\ LastAllowed' = LastAllowed
      BY <1>1 DEF Limited, LastAllowed
    <2> QED BY <1>1, <1>2, <1>3, <1>4, <1>6, <2>1 DEF LoopInv, Launched, InBatch, Closing
  <1>9. MarkInv'
    <2>1. ~Generations => inCurrent' = BooleanFlags'
      <3>1. current.nodes = {}
        BY <1>1 DEF LoopInv, Closing, SharedState, Listed
      <3>2. BooleanFlags = [v \in Vertex |-> 0]
        BY <1>1, <3>1 DEF BooleanFlags
      <3> QED BY <1>1, <1>2, <3>2 DEF MarkInv, BooleanFlags, Device!Claim
    <2>2. Generations => \A v \in Vertex : inCurrent'[v] <= cursor'
      <3> SUFFICES ASSUME Generations, NEW v \in Vertex PROVE inCurrent'[v] <= cursor'
        OBVIOUS
      <3>1. inCurrent[v] \in Nat /\ inCurrent[v] < cursor /\ cursor \in Nat
        BY <1>1 DEF MarkInv, Closing, RangeInv
      <3>2. inCurrent'[v] \in {cursor, inCurrent[v]}
        BY <1>2 DEF Device!Claim
      <3> QED BY <1>1, <3>1, <3>2
    <2> QED BY <1>1, <2>1, <2>2 DEF MarkInv, Closing
  <1>10. ModelInv'
    <2>1. Agree({"publication", "bucket", "iterations"})' /\ Agree({"rounds", "lightRounds"})'
      BY <1>4, <1>5 DEF Agree
    <2>2. model'.next = descriptor'.next /\ current'.count + pending'.count <= model'.pending
      BY <1>2, <1>4, <1>5
    <2> QED BY <1>1, <1>5, <2>1, <2>2 DEF ModelInv, Launched, InBatch, LightPart, Closing
  <1> QED BY <1>7, <1>8, <1>9, <1>10 DEF ControlInv

\* The leader opens the bucket, or ends the query, as the model does.
LEMMA CommitKeeps ==
  ASSUME LoopState, ModelInv, Commit, RecordSpent PROVE ControlInv'
  <1> USE DEF LoopState
  <1> DEFINE out == query.maxIters >= 0 /\ descriptor.iterations >= query.maxIters
             s == IF out THEN {"iterations"} ELSE {}
             opened == [descriptor EXCEPT !.bucket = descriptor.next, !.current = current.count,
                            !.pending = pending.count, !.next = NoNext, !.phase = "light", !.action = "continue"]
             check == ~GoesOn(descriptor)
  <1>1. /\ phase = "compacted" /\ kernel = "none" /\ kernel' = "none" /\ cursor' = NextCursor
        /\ UNCHANGED <<inCurrent, current, pending, stop, query, iter, bucket, sequence, accepted>>
        /\ current.count # 0
    BY DEF Commit, ShapeInv, LoopInv, threads, Surroundings, arrays
  <1>2. /\ descriptor' = IF s = {} THEN opened ELSE Finished(opened, s)
        /\ model' = Model!BeginBucket(model, Event(descriptor.next, current.count, pending.count, NoNext, s))
        /\ phase' = IF s = {} /\ ~check THEN "closure" ELSE "batchEnd"
    BY <1>1 DEF Commit, Event
  <1>3. /\ query.maxIters # 0 /\ stop = "none" /\ descriptor.query = sequence /\ model.query = sequence
        /\ descriptor.publication = accepted /\ descriptor.rounds <= descriptor.lightRounds
        /\ descriptor.status = {} /\ spent = EmptyQueue
        /\ descriptor.next \in 0 .. NoBucket - 1
    BY <1>1 DEF LoopInv, Launched, InBatch, ShapeInv
  <1>4. current.count \in Nat \ {0} /\ pending.count \in Nat
    BY <1>1 DEF SharedState, Listed, Queue
  <1>5. /\ s \in BudgetFlags /\ s \in SUBSET Status /\ (s # {} => s = {"iterations"})
        /\ s # {} => 0 <= query.maxIters /\ query.maxIters <= descriptor.iterations
    <2>1. query.maxIters \in Int /\ descriptor.iterations \in Nat
      BY DEF SharedState, ShapeInv, DescriptorOK
    <2> QED BY <2>1 DEF Status, BudgetFlags
  <1>6. s # {} => Model!TerminalAction(s) = "iterations"
    BY <1>5, SingleStop DEF Status
  <1> HIDE DEF s
  <1>7. /\ DescriptorOK(opened) /\ opened.bucket = descriptor.next /\ opened.current = current.count
        /\ opened.pending = pending.count /\ opened.next = NoNext /\ opened.phase = "light" /\ opened.action = "continue"
        /\ \A f \in {"query", "publication", "status", "rounds", "lightRounds", "iterations"} :
              opened[f] = descriptor[f]
    BY <1>3, <1>4, ControllerAssumption, DeltaAssumption DEF ShapeInv, DescriptorOK
  <1> HIDE DEF opened
  <1>8. /\ DescriptorOK(descriptor') /\ descriptor'.status = s
        /\ s = {} => descriptor'.phase = "light" /\ descriptor'.action = "continue"
        /\ s # {} => descriptor'.phase = "finished" /\ descriptor'.action = "iterations"
        /\ \A f \in {"query", "publication", "rounds", "lightRounds", "current", "pending", "bucket", "next",
                     "iterations"} :
              descriptor'[f] = opened[f]
    <2>1. CASE s = {}
      BY <1>2, <1>3, <1>7, <2>1
    <2>2. CASE s # {}
      <3>1. descriptor' = [opened EXCEPT !.status = s, !.phase = "finished", !.action = "iterations"]
        BY <1>2, <1>3, <1>6, <1>7, <2>2 DEF Finished
      <3> QED BY <1>5, <1>7, <2>2, <3>1 DEF DescriptorOK, Status
    <2> QED BY <2>1, <2>2
  <1>9. /\ DescriptorOK(model') /\ model'.query = model.query /\ model'.bucket = descriptor.next
        /\ model'.iterations = descriptor.iterations /\ model'.status = s /\ model'.current = current.count
        /\ model'.pending = pending.count /\ model'.next = NoNext /\ model'.rounds = descriptor.rounds
        /\ model'.lightRounds = descriptor.lightRounds
        /\ s # {} => /\ model'.phase = "finished" /\ model'.action = "iterations"
                     /\ model'.publication = descriptor.publication + 1
        /\ s = {} => /\ model'.phase = "light" /\ model'.action = IF check THEN "check" ELSE "continue"
                     /\ model'.publication = IF check THEN descriptor.publication + 1 ELSE descriptor.publication
    <2>1. /\ model.phase = "boundary" /\ model.action = "advance" /\ model.next = descriptor.next
          /\ Agree({"rounds", "lightRounds"}) /\ Agree({"publication", "bucket", "iterations"}) /\ model.status = {}
          /\ current.count + pending.count <= model.pending
      BY <1>1 DEF ModelInv, InBatch
    <2>2. /\ model.rounds = descriptor.rounds /\ model.lightRounds = descriptor.lightRounds
          /\ model.publication = descriptor.publication /\ model.iterations = descriptor.iterations
      BY <2>1 DEF Agree
    <2>3. DescriptorOK(model)
      BY DEF ShapeInv
    <2>4. check <=> model.rounds >= BatchSize
      BY <2>2, <2>3, ControllerAssumption DEF GoesOn, DescriptorOK
    <2>5. PICK c \in Nat \ {0}, p \in Nat : c = current.count /\ p = pending.count
      BY <1>4
    <2> DEFINE n == Model!BeginBucket(model, Event(model.next, c, p, NoNext, s))
    <2>6. n = model'
      BY <1>2, <2>1, <2>5
    <2>7. model.phase = "boundary" /\ model.action = "advance" /\ model.status = {} /\ c + p <= model.pending
      BY <2>1, <2>5
    <2>8. s \in BudgetFlags
      BY <1>5
    <2>9. /\ DescriptorOK(n) /\ n.query = model.query /\ n.bucket = model.next /\ n.iterations = model.iterations
          /\ n.status = s /\ n.current = c /\ n.pending = p /\ n.rounds = model.rounds
          /\ n.lightRounds = model.lightRounds /\ n.next = NoNext
          /\ s # {} => n.phase = "finished" /\ n.action = "iterations" /\ n.publication = model.publication + 1
          /\ s = {} => /\ n.phase = "light" /\ n.action = IF model.rounds >= BatchSize THEN "check" ELSE "continue"
                       /\ n.publication = IF model.rounds >= BatchSize THEN model.publication + 1 ELSE model.publication
      BY <2>3, <2>7, <2>8, NextBucketOpened
    <2> HIDE DEF n, check
    <2> QED BY <2>1, <2>2, <2>4, <2>5, <2>6, <2>9
  <1> HIDE DEF check
  <1>10. spent' = EmptyQueue \/ s # {}
    BY <1>1, <1>2, <1>3, <1>8 DEF RecordSpent, Stopping
  <1>11. ShapeInv'
    <2>1. cursor' \in Nat
      BY <1>1 DEF NextCursor, ShapeInv
    <2> QED BY <1>1, <1>2, <1>3, <1>7, <1>8, <1>9, <2>1 DEF ShapeInv
  <1>12. LoopInv'
    <2>1. phase' = "batchEnd" => Ended'
      <3>1. CASE s = {}
        BY <1>1, <1>7, <1>8, <1>10, <3>1 DEF Ended
      <3>2. CASE s # {}
        <4>1. s = {"iterations"} /\ 0 <= query'.maxIters /\ query'.maxIters <= descriptor'.iterations
          BY <1>1, <1>5, <1>7, <1>8, <3>2
        <4> QED BY <1>6, <1>8, <3>2, <4>1 DEF Ended
      <3> QED BY <3>1, <3>2
    <2> QED BY <1>1, <1>2, <1>3, <1>7, <1>8, <1>10, <2>1 DEF LoopInv, Launched, InBatch, Closing
  <1>13. MarkInv'
    <2>1. ~Generations => inCurrent' = BooleanFlags'
      BY <1>1, <1>2 DEF MarkInv, BooleanFlags
    <2>2. Generations => \A v \in Vertex : inCurrent'[v] < cursor'
      <3> SUFFICES ASSUME Generations, NEW v \in Vertex PROVE inCurrent'[v] < cursor'
        OBVIOUS
      <3>1. inCurrent[v] \in Nat /\ inCurrent[v] <= cursor /\ cursor \in Nat
        BY <1>1 DEF MarkInv, RangeInv
      <3> QED BY <1>1, <3>1 DEF NextCursor
    <2> QED BY <1>1, <1>2, <2>1, <2>2 DEF MarkInv, Closing
  <1>14. ModelInv'
    <2>1. CASE s = {} /\ ~check
      <3>1. phase' = "closure" /\ Model!Resumed(model)' = model'
        BY <1>2, <1>9, <2>1 DEF Model!Resumed
      <3>2. Agree({"publication", "bucket", "iterations"})'
        BY <1>7, <1>8, <1>9, <2>1 DEF Agree
      <3> QED BY <1>1, <1>4, <1>7, <1>8, <1>9, <2>1, <3>1, <3>2 DEF ModelInv, Launched, InBatch, LightPart, Closing
    <2>2. CASE ~(s = {} /\ ~check)
      <3>1. phase' = "batchEnd" /\ model'.publication = descriptor'.publication + 1
        BY <1>2, <1>7, <1>8, <1>9, <2>2
      <3>2. Agree(Compared \ {"publication", "phase", "action"})'
        BY <1>3, <1>7, <1>8, <1>9 DEF Agree, Compared
      <3>3. s # {} => Agree({"phase", "action"})'
        BY <1>8, <1>9 DEF Agree
      <3>4. s = {} => model'.phase = "light" /\ model'.action = "check"
        BY <1>9, <2>2
      <3>5. LastCounts'
        <4>1. descriptor'.pending = pending.count /\ descriptor'.next = NoNext
              /\ (descriptor'.status = {} \/ descriptor'.status = {"iterations"})
          BY <1>5, <1>7, <1>8
        <4> QED BY <1>1, <1>4, <1>9, <4>1 DEF LastCounts
      <3> QED BY <1>1, <1>4, <1>8, <1>9, <3>1, <3>2, <3>3, <3>4, <3>5
                 DEF ModelInv, Launched, InBatch, LightPart, Closing, Stopping
    <2> QED BY <2>1, <2>2
  <1> QED BY <1>11, <1>12, <1>13, <1>14 DEF ControlInv

\* The leader's last block brings the descriptor to what the model published.
LEMMA PublishKeeps ==
  ASSUME LoopState, ModelInv, Publish, RecordSpent PROVE ControlInv'
  <1> USE DEF LoopState
  <1>1. /\ phase = "batchEnd" /\ phase' = "published" /\ kernel = "none" /\ kernel' = "none"
        /\ UNCHANGED <<inCurrent, queues, stop, query, iter, bucket, cursor, sequence, accepted, model>>
        /\ descriptor' = [descriptor EXCEPT !.publication = PublicationOf(descriptor),
                                            !.phase = IF Stopping(descriptor) THEN @ ELSE "light",
                                            !.action = IF Stopping(descriptor) THEN @ ELSE "check"]
    BY DEF Publish, ShapeInv, threads, Surroundings, arrays
  <1>2. /\ DescriptorOK(descriptor') /\ descriptor'.publication = descriptor.publication + 1
        /\ descriptor'.phase = (IF Stopping(descriptor) THEN descriptor.phase ELSE "light")
        /\ descriptor'.action = (IF Stopping(descriptor) THEN descriptor.action ELSE "check")
        /\ \A f \in {"query", "status", "rounds", "lightRounds", "current", "pending", "bucket", "next",
                     "iterations"} :
              descriptor'[f] = descriptor[f]
    BY <1>1 DEF ShapeInv, DescriptorOK, PublicationOf
  <1>3. /\ query.maxIters # 0 /\ stop = "none" /\ descriptor.query = sequence
        /\ descriptor.publication = accepted /\ descriptor.rounds <= descriptor.lightRounds /\ Ended
    BY <1>1 DEF LoopInv, Launched, InBatch
  <1>4. spent' = spent
    BY <1>1 DEF RecordSpent
  <1>5. ShapeInv'
    BY <1>1, <1>2 DEF ShapeInv, DescriptorOK
  <1>6. LoopInv'
    <2>1. Ended'
      <3>1. CASE descriptor.status = {}
        BY <1>1, <1>2, <1>3, <1>4, <3>1 DEF Ended, queues
      <3>2. CASE descriptor.status # {}
        <4>1. descriptor'.phase = descriptor.phase /\ descriptor'.action = descriptor.action
              /\ descriptor'.status = descriptor.status /\ descriptor'.iterations = descriptor.iterations
          BY <1>2, <3>2 DEF Stopping
        <4> QED BY <1>1, <1>3, <3>2, <4>1 DEF Ended
      <3> QED BY <3>1, <3>2
    <2> QED BY <1>1, <1>2, <1>3, <2>1 DEF LoopInv, Launched, InBatch, Closing, Stopping
  <1>7. MarkInv'
    BY <1>1 DEF MarkInv, Closing, BooleanFlags, queues
  <1>8. ModelInv'
    <2>1. /\ Agree(Compared \ {"publication", "phase", "action"}) /\ model.publication = descriptor.publication + 1
          /\ IF Stopping(descriptor) THEN Agree({"phase", "action"}) ELSE model.phase = "light" /\ model.action = "check"
          /\ model.pending <= pending.count /\ LastCounts
      BY <1>1 DEF ModelInv, Launched
    <2>2. Agree(Compared)'
      <3>1. \A f \in {"query", "status", "rounds", "lightRounds", "current", "bucket", "iterations"} :
               model[f] = descriptor[f]
        BY <2>1 DEF Agree, Compared
      <3>2. model.publication = descriptor'.publication /\ model.phase = descriptor'.phase
            /\ model.action = descriptor'.action
        BY <1>2, <2>1 DEF Agree
      <3>3. \A f \in Compared : model[f] = descriptor'[f]
        BY <1>2, <3>1, <3>2 DEF Compared
      <3> QED BY <1>1, <3>3 DEF Agree
    <2>3. LastCounts'
      BY <1>1, <1>2, <2>1 DEF LastCounts, queues
    <2> QED BY <1>1, <2>1, <2>2, <2>3 DEF ModelInv, Launched, InBatch, LightPart, Closing, queues
  <1> QED BY <1>5, <1>6, <1>7, <1>8 DEF ControlInv

\* No step breaks the controller's part of the invariant.
LEMMA ControlStep ==
  ASSUME LoopState, ModelInv, HostInv, SharedState', RoundsFit, [RefinementNext]_<<controllerVars, spent>>
  PROVE  ControlInv'
  <1>0. H!WorkspaceInv
    BY DEF HostInv
  <1>1. CASE UNCHANGED <<controllerVars, spent>>
    BY <1>1
       DEF LoopState, ControlInv, ShapeInv, LoopInv, MarkInv, ModelInv, DescriptorOK, Ended,
           Launched, InBatch, Closing, LightPart, Agree, Model!Resumed, BooleanFlags, Stopping,
           Limited, LastAllowed, PendingSeen, Device!Successors, LastCounts, controllerVars, vars,
           control, arrays, host, queues, threads
  <1>2. CASE RefinementNext
    <2> USE <1>2 DEF RefinementNext
    <2>1. CASE BeginCall \/ EnterController \/ BypassController
      BY <2>1, BeginKeeps, EnterKeeps, BypassKeeps
    <2>2. CASE LaunchBatch \/ StartRound \/ EndRound
      BY <2>2, LaunchKeeps, RoundKeeps, EndRoundKeeps
    <2>3. ASSUME NEW u \in Vertex, LightThread(u) \/ HeavyThread(u) PROVE ControlInv'
      BY <1>0, <2>3, ThreadKeeps
    <2>4. CASE StartHeavyRange \/ NoHeavyRange \/ EndHeavyRange
      BY <2>4, ClosingKeeps
    <2>5. CASE CloseLast \/ Compact \/ Commit \/ Publish
      BY <1>0, <2>5, CloseKeeps, CompactKeeps, CommitKeeps, PublishKeeps
    <2>6. CASE HostCheck \/ ControllerFails
      BY <2>6, CheckKeeps, FailureKeeps
    <2>7. CASE (Extract \/ Reset \/ UpdateCosts \/ Return) /\ UNCHANGED control
      BY <1>0, <2>7, AnswerKeeps
    <2> QED BY <2>1, <2>2, <2>3, <2>4, <2>5, <2>6, <2>7 DEF ControllerNext, ControllerWork, Batch
  <1> QED BY <1>1, <1>2

-----------------------------------------------------------------------------
(* The whole controller. *)

\* The inductive invariant.
Inv == RangeInv /\ ControlInv /\ HostInv

\* What the two share, after a step.
LEMMA SharedNext == H!WorkspaceInv' => SharedState'
  <1>1. H!WorkspaceInv => SharedState
    BY SharedFacts
  <1> QED BY <1>1, PTL

\* A new workspace is a new workspace of the host's loop.
LEMMA InitMaps == RefinementInit => H!Init
  <1> SUFFICES ASSUME RefinementInit PROVE H!Init
    OBVIOUS
  <1> USE DEF RefinementInit, ControllerInit, Init
  <1>1. phase = "idle" /\ accepted = 0 /\ iter = 0 /\ bucket = 0 /\ stop = "none" /\ spent = EmptyQueue
    OBVIOUS
  <1>2. HostPhase = "idle" /\ HostIter = 0 /\ HostBucket = 0 /\ HostStop = "none" /\ HostHeavy = EmptyQueue
    BY <1>1 DEF HostPhase, HostIter, HostBucket, HostStop, HostHeavy, Entered
  <1>3. BooleanFlags = [v \in Vertex |-> 0]
    BY <1>1 DEF BooleanFlags
  <1> QED BY <1>2, <1>3, HostConstants, HostLeaves
             DEF H!Init, H!NoKey, NoKey, H!NoResult, NoResult, H!IdleThreads, IdleThreads

\* It holds of a new workspace,
LEMMA InvInit == RefinementInit => Inv
  <1> SUFFICES ASSUME RefinementInit PROVE Inv
    OBVIOUS
  <1>1. HostInv
    <2>1. H!WorkspaceInv
      BY InitMaps, HostAssumptions, H!TypeInit, H!QueueInit DEF H!WorkspaceInv
    <2>2. HostPhase = "idle"
      BY InitMaps DEF H!Init
    <2> QED BY <2>1, <2>2 DEF HostInv, H!BucketInv, H!ReachInv, H!Measuring, H!Looping
  <1> USE DEF RefinementInit, ControllerInit, Init
  <1>2. RangeInv
    BY DeltaAssumption DEF IdleThreads, RangeInv, LightPart, HeavyPart, Model!Idle
  <1>3. ShapeInv
    BY ControllerAssumption, DeltaAssumption DEF IdleThreads, ShapeInv, Model!Idle, DescriptorOK
  <1>4. LoopInv /\ MarkInv /\ ModelInv
    BY DEF LoopInv, MarkInv, ModelInv, Launched, InBatch, LightPart, Closing, BooleanFlags, Model!Idle
  <1> QED BY <1>1, <1>2, <1>3, <1>4 DEF Inv, ControlInv

\* it is kept by every step, which is one of the host's loop or a failed call,
LEMMA InvStep ==
  ASSUME Inv, RoundsFit, [RefinementNext]_<<controllerVars, spent>>
  PROVE  /\ Inv'
         /\ [H!Next]_H!vars \/ (HostCallFails' /\ UNCHANGED <<costs, hasCosts, query>>)
  <1>1. LoopState /\ ModelInv /\ HostInv /\ H!WorkspaceInv
    BY SharedFacts DEF Inv, HostInv, LoopState, ControlInv
  <1>2. /\ [H!Next]_H!vars \/ (HostCallFails' /\ UNCHANGED <<costs, hasCosts, query>>)
        /\ H!WorkspaceInv'
    BY <1>1, StepMaps
  <1>3. SharedState'
    BY <1>2, SharedNext
  <1>4. RangeInv'
    BY RangeStep DEF Inv, RefinementNext
  <1>5. ControlInv'
    BY <1>1, <1>3, ControlStep
  <1>6. HostInv'
    <2>1. CASE [H!Next]_H!vars
      BY <1>1, <1>2, <2>1, HostAssumptions, H!BucketStep, H!ReachStep DEF HostInv
    <2>2. CASE HostCallFails'
      <3>1. HostPhase' = "idle"
        BY <2>2 DEF HostCallFails, HostPhase
      <3> QED BY <1>2, <3>1 DEF HostInv, H!BucketInv, H!ReachInv, H!Measuring, H!Looping
    <2> QED BY <1>2, <2>1, <2>2
  <1> QED BY <1>2, <1>4, <1>5, <1>6 DEF Inv

\* and so it holds throughout.
LEMMA Invariant == RefinementSpec /\ []RoundsFit => []Inv
  <1>1. Inv /\ RoundsFit /\ [RefinementNext]_<<controllerVars, spent>> => Inv'
    BY InvStep
  <1> QED BY <1>1, InvInit, PTL DEF RefinementSpec

\* As long as the 32-bit round counter of a query does not fill up, the host
\* never refuses a descriptor.
THEOREM HostAlwaysAccepts == RefinementSpec /\ []RoundsFit => []HostAccepts
  <1>1. Inv => HostAccepts
    <2> SUFFICES ASSUME Inv, phase = "published" PROVE Acceptable
      BY DEF HostAccepts
    <2>1. /\ descriptor.query = sequence /\ descriptor.publication = accepted + 1 /\ Ended
          /\ descriptor.status = {} => descriptor.phase = "light" /\ descriptor.action = "check"
      BY DEF Inv, ControlInv, LoopInv, Launched
    <2>2. CASE descriptor.status = {}
      <3>1. descriptor.current # 0 /\ descriptor.next = NoNext
        BY <2>1, <2>2 DEF Ended
      <3> QED BY <2>1, <2>2, <3>1 DEF Acceptable, Model!Valid, Model!LightPendingValid
    <2>3. CASE descriptor.status # {}
      <3>1. /\ descriptor.status \in {{"target"}, {"complete"}, {"iterations"}}
            /\ descriptor.phase = "finished" /\ descriptor.action = Model!TerminalAction(descriptor.status)
        BY <2>1, <2>3 DEF Ended
      <3>2. descriptor.status \cap {"invalid", "overflow"} = {}
        BY <3>1
      <3> QED BY <2>1, <2>3, <3>1, <3>2 DEF Acceptable, Model!Valid
    <2> QED BY <2>2, <2>3
  <1> QED BY <1>1, Invariant, PTL

\* Under the same condition every published descriptor is the sequential
\* model's in all its fields, but for the pending count of a query its targets
\* end, which may be smaller.
THEOREM DeviceFollowsModel == RefinementSpec /\ []RoundsFit => []FollowsModel
  <1>1. Inv => FollowsModel
    <2> SUFFICES ASSUME Inv, phase = "published" PROVE FollowsModel
      BY DEF FollowsModel
    <2>1. Agree(Compared) /\ LastCounts /\ DescriptorOK(descriptor)
      BY DEF Inv, ControlInv, ModelInv, ShapeInv
    <2>2. DOMAIN descriptor \ {"pending"} = Compared \cup {"next"}
      BY <2>1 DEF DescriptorOK, Compared
    <2> QED BY <2>1, <2>2 DEF FollowsModel, Agree, LastCounts
  <1> QED BY <1>1, Invariant, PTL

\* And every behaviour of the controller is one of the host-checked loop, but
\* for HIP calls that fail.
THEOREM ControllerImplementsHostLoop == RefinementSpec /\ []RoundsFit => ImplementsHostLoop
  <1>1. RefinementInit => HostLoop!Init
    BY InitMaps, BInit
  <1>2. ASSUME Inv, RoundsFit, [RefinementNext]_<<controllerVars, spent>>
        PROVE  [HostLoop!Next \/ (HostCallFails' /\ UNCHANGED <<costs, hasCosts, query>>)]_HostLoop!vars
    <2>1. [H!Next]_H!vars \/ (HostCallFails' /\ UNCHANGED <<costs, hasCosts, query>>)
      BY <1>2, InvStep
    <2>2. CASE H!Next
      BY <2>2, HostNext
    <2>3. CASE UNCHANGED H!vars
      <3>1. UNCHANGED HostLoop!vars
        BY <2>3
           DEF H!vars, HostLoop!vars, H!arrays, HostLoop!arrays, H!host, HostLoop!host,
               H!queues, HostLoop!queues, H!threads, HostLoop!threads
      <3> QED BY <3>1
    <2> QED BY <2>1, <2>2, <2>3
  <1>3. /\ Inv /\ RoundsFit /\ [RefinementNext]_<<controllerVars, spent>>
        => [HostLoop!Next \/ (HostCallFails' /\ UNCHANGED <<costs, hasCosts, query>>)]_HostLoop!vars
    BY <1>2
  <1> QED BY <1>1, <1>3, Invariant, PTL DEF RefinementSpec, ImplementsHostLoop
=============================================================================
