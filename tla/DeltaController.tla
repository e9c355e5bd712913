--------------------------- MODULE DeltaController ---------------------------
(***************************************************************************)
(* The reduced-round-trip controller of a Delta-Stepping workspace: one    *)
(* cooperative grid runs several rounds and bucket boundaries by itself    *)
(* and then publishes a descriptor, from which the host learns whether to  *)
(* launch another batch or to stop.                                        *)
(*                                                                         *)
(* The arrays, the relaxation threads and what surrounds the bucket loop   *)
(* are those of DeltaStepping.  The device works from its own copies of    *)
(* the loop's scalars: current_bucket and iterations in the descriptor,    *)
(* and a cursor into the range of generation tokens the host reserved.     *)
(* Grid barriers separate the phases of a batch, so what the leader does   *)
(* between two barriers is one step.  The queues that swap parities carry  *)
(* the names of their roles.                                               *)
(***************************************************************************)
EXTENDS DeltaStepping

CONSTANTS
    BatchSize, MaxSequence, MaxCount, NoNext,   \* see ControllerModel
    HipFails        \* a HIP call of the controller may fail

ASSUME ControllerAssumption ==
    /\ BatchSize \in Nat \ {0} /\ MaxSequence \in Nat \ {0} /\ MaxCount \in Nat \ {0}
    /\ Generations => 2 * BatchSize < MaxGeneration     \* a batch's tokens are representable
    /\ NoNext \in Nat \ (0 .. NoBucket - 1)             \* no bucket
    /\ HipFails \in BOOLEAN

VARIABLES
    descriptor,     \* CooperativeDeltaControllerState's descriptor
    cursor,         \* its generation_cursor
    sequence,       \* controller_query_sequence
    accepted,       \* previous_publication
    model           \* history: what the sequential model publishes

control == <<descriptor, cursor, sequence, accepted, model>>
controllerVars == <<vars, control>>

Model  == INSTANCE ControllerModel
Device == INSTANCE DeltaStepping WITH
              generation <- cursor, bucket <- descriptor.bucket, iter <- descriptor.iterations

ControllerInit == /\ Init /\ descriptor = Model!Idle /\ model = Model!Idle
                  /\ cursor = 0 /\ sequence = 0 /\ accepted = 0

\* Between the device's phases: nothing of the surrounding query changes.
Surroundings == <<costs, hasCosts, query, iter, stop, result, bucket>>

Finished(d, status) ==
    LET all == d.status \cup status
    IN  [d EXCEPT !.status = all, !.phase = "finished", !.action = Model!TerminalAction(all)]

\* An append beyond the last slot is dropped and reported.
Overflow == IF \E q \in {touched, next, pending, heavy} : q.count > Rows THEN {"overflow"} ELSE {}

Stopping(d) == d.status # {}
-----------------------------------------------------------------------------
(* The host. *)

Launchable == /\ stop = "none" /\ query.maxIters # 0
              /\ Limited => 0 <= LastAllowed

\* The local variables of a call.
BeginCall == Begin /\ accepted' = 0 /\ UNCHANGED <<descriptor, cursor, sequence, model>>

\* The controller state a query starts with.
EnterController ==
    /\ phase = "bucket" /\ Launchable
    /\ sequence' = Model!NextQuery(sequence)
    /\ descriptor' = [Model!Idle EXCEPT !.query = sequence', !.phase = "light",
                                        !.current = current.count]
    /\ model' = Model!BeginQuery(model, current.count)
    /\ phase' = "host"
    /\ UNCHANGED <<Surroundings, arrays, settled, queues, threads, cursor, accepted>>

\* Nothing to launch: the answer is there, or no bucket may be processed.
BypassController ==
    /\ phase = "bucket" /\ ~Launchable
    /\ stop' = IF stop # "none" THEN stop
               ELSE IF Limited /\ LastAllowed < 0 THEN "limit" ELSE "maxIters"
    /\ phase' = "extract"
    /\ UNCHANGED <<costs, hasCosts, arrays, query, iter, result, bucket, settled, queues,
                   threads, control>>

\* Mutant of TokensPerBatch: one token for every round, none for compactions.
OneTokenPerRound == BatchSize

\* A round and a compaction take a token each.
TokensPerBatch == 2 * BatchSize

TokensRunOut == generation + TokensPerBatch > MaxGeneration

\* reserve_controller_generations, the launch, and the leader's first block.
LaunchBatch ==
    LET first     == IF TokensRunOut THEN 1 ELSE generation + 1
        resumable == /\ descriptor.status = {} /\ descriptor.phase = "light"
                     /\ descriptor.action \in {"continue", "check"} /\ descriptor.current # 0
    IN
    /\ phase = "host"
    /\ IF Generations
       THEN /\ inCurrent' = IF TokensRunOut THEN [v \in Vertex |-> 0] ELSE inCurrent
            /\ generation' = first - 1 + TokensPerBatch
            /\ cursor' = first
       ELSE UNCHANGED <<inCurrent, generation>> /\ cursor' = 1
    /\ IF resumable
       THEN /\ descriptor' = [descriptor EXCEPT !.action = "continue", !.rounds = 0]
            /\ phase' = "closure"
       ELSE descriptor' = Finished(descriptor, {"invalid"}) /\ phase' = "batchEnd"
    /\ UNCHANGED <<Surroundings, dist, key, inPending, inHeavy, touched, settled, queues,
                   threads, sequence, accepted, model>>

\* What the copy of the descriptor must look like.
Acceptable == /\ Model!Valid(descriptor) /\ descriptor.query = sequence
              /\ descriptor.publication = accepted + 1
              /\ descriptor.status = {} => descriptor.action = "check"
              /\ descriptor.status \cap {"invalid", "overflow"} = {}

StatusStop(status) == IF "target" \in status THEN "target"
                      ELSE IF "complete" \in status THEN IF Limited THEN "limit" ELSE "converged"
                      ELSE "maxIters"

\* The host copies the descriptor, and launches again or leaves the loop.
HostCheck ==
    /\ phase = "published" /\ Acceptable
    /\ accepted' = descriptor.publication /\ iter' = descriptor.iterations
    /\ IF Stopping(descriptor)
       THEN stop' = StatusStop(descriptor.status) /\ phase' = "extract"
       ELSE phase' = "host" /\ UNCHANGED stop
    /\ UNCHANGED <<costs, hasCosts, arrays, query, result, bucket, settled, queues, threads,
                   descriptor, cursor, sequence, model>>

\* A HIP call fails or the descriptor is refused.  Nothing on the device is trusted
\* any more: fully_reinitialize_after_controller_error writes every array, and the
\* exception propagates.
ControllerFails ==
    /\ phase \in {"host", "published"}
    /\ (phase = "published" /\ Acceptable) \/ phase = "host" => HipFails
    /\ dist' = [v \in Vertex |-> Inf] /\ key' = [v \in Vertex |-> NoKey]
    /\ inCurrent' = [v \in Vertex |-> 0] /\ generation' = 0
    /\ inPending' = {} /\ inHeavy' = {}
    /\ touched' = EmptyQueue /\ current' = EmptyQueue /\ next' = EmptyQueue
    /\ pending' = EmptyQueue /\ heavy' = EmptyQueue
    /\ stop' = "threw" /\ phase' = "idle"
    /\ model' = [Model!Idle EXCEPT !.query = sequence]
    /\ UNCHANGED <<costs, hasCosts, query, iter, result, bucket, settled, threads,
                   descriptor, cursor, sequence, accepted>>
-----------------------------------------------------------------------------
(* One action of a batch: a round, and the boundary of a bucket it closed. *)

StartRound ==
    LET malformed == current.count \notin 1 .. Rows \/ descriptor.bucket \notin 0 .. NoBucket - 1
    IN
    /\ phase = "closure"
    /\ IF malformed
       THEN /\ descriptor' = Finished(descriptor, {"invalid"}) /\ phase' = "batchEnd"
            /\ UNCHANGED <<inCurrent, next, threads>>
       ELSE /\ descriptor' = [descriptor EXCEPT !.phase = "light", !.current = current.count,
                                                !.next = NoNext]
            /\ next' = EmptyQueue
            /\ inCurrent' = IF Generations THEN inCurrent
                            ELSE [v \in Vertex |-> IF v \in current.nodes THEN 0 ELSE inCurrent[v]]
            /\ Launch("light", current.nodes)
    /\ UNCHANGED <<Surroundings, dist, key, generation, inPending, inHeavy, touched, settled,
                   current, pending, heavy, cursor, sequence, accepted, model>>

\* cooperative_relax_light_range: the same relaxation as the light kernels.
LightThread(u) == /\ kernel = "light"
                  /\ UNCHANGED <<descriptor, cursor, sequence, accepted, model, iter, bucket, generation>>
                  /\ Device!Kernel(u)

\* cooperative_relax_heavy_range
HeavyThread(u) == /\ kernel = "heavy"
                  /\ UNCHANGED <<descriptor, cursor, sequence, accepted, model, iter, bucket, generation>>
                  /\ Device!Kernel(u)

ThreadsDone == phase = "kernel" /\ \A v \in Vertex : pc[v] = "off"

\* Mutant of NextCursor: the token of the round is used again.
SameCursor == cursor

NextCursor == IF Generations THEN cursor + 1 ELSE cursor

\* Mutant of GoesOn: a batch runs one action too many.
GoesOnOnce(d) == d.rounds <= BatchSize

\* Every action of a batch has one round.
GoesOn(d) == d.rounds < BatchSize

\* The leader's block after a round; the parity of the current queue flips.
EndRound ==
    LET bad == Overflow \cup (IF MaxCount \in {descriptor.lightRounds, descriptor.rounds}
                              THEN {"invalid"} ELSE {})
        counted == [descriptor EXCEPT !.current = next.count, !.pending = pending.count,
                                      !.lightRounds = @ + 1, !.rounds = @ + 1]
    IN
    /\ ThreadsDone /\ kernel = "light"
    /\ kernel' = "none" /\ current' = next
    /\ IF bad # {}
       THEN /\ descriptor' = Finished(descriptor, bad) /\ phase' = "batchEnd"
            /\ UNCHANGED <<cursor, model>>
       ELSE /\ descriptor' = counted
            /\ cursor' = NextCursor
            /\ phase' = IF next.count = 0 THEN "boundary"
                        ELSE IF GoesOn(counted) THEN "closure" ELSE "batchEnd"
            /\ model' = IF next.count = 0 THEN model
                        ELSE Model!LightRound(model, [bucket |-> descriptor.bucket,
                                 current |-> next.count, pending |-> pending.count,
                                 next |-> NoNext, status |-> {}])
    /\ UNCHANGED <<Surroundings, arrays, settled, next, pending, heavy, pc, epos, from,
                   sequence, accepted>>

HeavyRange == Device!HeavyPhase

StartHeavyRange ==
    /\ phase = "boundary" /\ HeavyRange
    /\ Launch("heavy", heavy.nodes)
    /\ UNCHANGED <<Surroundings, arrays, settled, queues, control>>

NoHeavyRange ==
    /\ phase = "boundary" /\ ~HeavyRange
    /\ phase' = "settle"
    /\ UNCHANGED <<Surroundings, arrays, settled, queues, threads, control>>

EndHeavyRange ==
    /\ ThreadsDone /\ kernel = "heavy"
    /\ kernel' = "none"
    /\ IF Overflow # {}
       THEN descriptor' = Finished(descriptor, Overflow) /\ phase' = "batchEnd"
       ELSE UNCHANGED descriptor /\ phase' = "settle"
    /\ UNCHANGED <<Surroundings, arrays, settled, queues, pc, epos, from,
                   cursor, sequence, accepted, model>>

Reason == Device!StopReason

\* cooperative_reduce_min_pending
LeastPending == Device!NextBucket

\* The bucket is closed: targets at or below it are settled, and the batch ends
\* when all are, when no node is pending, or when the next one is beyond the limit.
\* The last does not leave a node behind: only distances below the limit are stored
\* (2531-2543, 2677-2682), so there is no pending node beyond it.
CloseLast ==
    LET status == IF Reason = "target" THEN {"target"} ELSE {"complete"}
        least  == IF Reason = "target" \/ Device!Successors = {} THEN NoNext
                  ELSE LeastPending
    IN
    /\ phase = "settle" /\ Reason # "none"
    /\ settled' = Device!NowSettled
    /\ descriptor' = Finished([descriptor EXCEPT !.iterations = @ + 1, !.next = least], status)
    /\ model' = Model!LightRound(model, [bucket |-> descriptor.bucket, current |-> 0,
                    pending |-> pending.count, next |-> least, status |-> status])
    /\ phase' = "batchEnd"
    /\ UNCHANGED <<Surroundings, arrays, queues, threads, cursor, sequence, accepted>>

\* The next bucket, and cooperative_compact_pending into it.
Compact ==
    LET b        == LeastPending
        active   == pending.nodes \cap inPending
        selected == {v \in active : Bucket(dist[v]) = b}
        kept     == {v \in active : b < Bucket(dist[v]) /\ Bucket(dist[v]) < NoBucket}
        free     == {v \in selected : Device!Unclaimed(v)}
    IN
    /\ phase = "settle" /\ Reason = "none"
    /\ settled' = Device!NowSettled
    /\ descriptor' = [descriptor EXCEPT !.iterations = @ + 1, !.next = b]
    /\ model' = Model!LightRound(model, [bucket |-> descriptor.bucket, current |-> 0,
                    pending |-> pending.count, next |-> b, status |-> {}])
    /\ inCurrent' = [v \in Vertex |-> IF v \in free THEN Device!Claim ELSE inCurrent[v]]
    /\ current' = QueueOf(free) /\ pending' = QueueOf(kept)
    /\ inPending' = inPending \ (active \ kept)
    /\ phase' = "compacted"
    /\ UNCHANGED <<Surroundings, dist, key, generation, inHeavy, touched, next, heavy, threads,
                   cursor, sequence, accepted>>

\* The leader commits the compacted bucket, and looks at the iteration budget
\* only now: a query out of budget still publishes its next bucket.
Commit ==
    LET status == IF current.count = 0 THEN {"invalid"}
                  ELSE IF query.maxIters >= 0 /\ descriptor.iterations >= query.maxIters
                  THEN {"iterations"} ELSE {}
        opened == [descriptor EXCEPT !.bucket = descriptor.next, !.current = current.count,
                       !.pending = pending.count, !.next = NoNext, !.phase = "light",
                       !.action = "continue"]
    IN
    /\ phase = "compacted"
    /\ heavy' = EmptyQueue /\ cursor' = NextCursor
    /\ descriptor' = IF status = {} THEN opened ELSE Finished(opened, status)
    /\ model' = Model!BeginBucket(model, [bucket |-> descriptor.next, current |-> current.count,
                    pending |-> pending.count, next |-> NoNext, status |-> status])
    /\ phase' = IF status = {} /\ GoesOn(descriptor) THEN "closure" ELSE "batchEnd"
    /\ UNCHANGED <<Surroundings, arrays, settled, current, next, pending, threads,
                   sequence, accepted>>

\* Mutant of PublicationOf: a batch that ends the query is not counted.
CountsHostChecks(d) == IF d.status = {} THEN d.publication + 1 ELSE d.publication

PublicationOf(d) == d.publication + 1

\* The leader's last block.
Publish ==
    /\ phase = "batchEnd"
    /\ descriptor' = [descriptor EXCEPT !.publication = PublicationOf(descriptor),
                                        !.phase = IF Stopping(descriptor) THEN @ ELSE "light",
                                        !.action = IF Stopping(descriptor) THEN @ ELSE "check"]
    /\ phase' = "published"
    /\ UNCHANGED <<Surroundings, arrays, settled, queues, threads,
                   cursor, sequence, accepted, model>>
-----------------------------------------------------------------------------
Batch == \/ LaunchBatch \/ StartRound \/ EndRound
         \/ \E u \in Vertex : LightThread(u) \/ HeavyThread(u)
         \/ StartHeavyRange \/ NoHeavyRange \/ EndHeavyRange
         \/ CloseLast \/ Compact \/ Commit \/ Publish

ControllerWork == \/ EnterController \/ BypassController \/ Batch \/ HostCheck
                  \/ (Extract \/ Reset) /\ UNCHANGED control

ControllerNext == \/ BeginCall \/ ControllerWork \/ ControllerFails
                  \/ (UpdateCosts \/ Return) /\ UNCHANGED control

ControllerSpec == ControllerInit /\ [][ControllerNext]_controllerVars
-----------------------------------------------------------------------------
\* Every membership token the device writes was reserved by the host before the
\* launch: a batch never runs into tokens a later batch will be given.
TokensReserved ==
    Generations =>
        /\ phase \in {"kernel", "settle", "compacted"} => cursor <= generation
        /\ \A v \in Vertex : inCurrent[v] <= generation

\* The host never refuses what the device publishes: the descriptor is well
\* formed, of this query, the successor of the last one and free of errors.
HostAccepts == phase = "published" => Acceptable

\* What the device publishes after a batch is what the host's sequential model
\* of the controller publishes when it is shown what the device has seen, in all
\* twelve fields, with one exception: a query its targets end after the heavy
\* range of a bucket publishes the pending count from before that range, because
\* the leader breaks off before it reads the count again (delta_stepping.cpp:3009
\* and 3093-3099).
FollowsModel ==
    phase = "published" =>
        /\ \A f \in DOMAIN descriptor \ {"pending"} : descriptor[f] = model[f]
        /\ model.pending = pending.count
        /\ IF "target" \in descriptor.status THEN descriptor.pending <= model.pending
           ELSE descriptor.pending = model.pending
=============================================================================
