------------------------ MODULE ControllerRefinement ------------------------
(***************************************************************************)
(* The reduced-round-trip controller is invisible: batches of rounds that  *)
(* the device decides about, with generation tokens reserved ahead, behave *)
(* as the established loop of DeltaStepping in which the host decides      *)
(* after every round and membership is a Boolean flag.                     *)
(***************************************************************************)
EXTENDS DeltaController

VARIABLE spent      \* history: the heavy queue emptied when the budget ran out

RefinementInit == ControllerInit /\ spent = EmptyQueue

\* The device empties the heavy queue before it looks at the budget, the host
\* loop only when it starts another bucket or another call.
RecordSpent == spent' = IF phase = "compacted" /\ Stopping(descriptor') THEN heavy
                        ELSE IF phase' = "bucket" \/ (phase \in {"host", "published"} /\ phase' = "idle")
                        THEN EmptyQueue ELSE spent

RefinementNext == ControllerNext /\ RecordSpent
RefinementSpec == RefinementInit /\ [][RefinementNext]_<<controllerVars, spent>>

\* The launch loop has been entered in this call.
Entered == accepted # 0 \/ phase \in {"host", "closure", "kernel", "boundary", "settle",
                                      "compacted", "batchEnd", "published"}

HostBucket == IF ~Entered THEN bucket
              ELSE IF phase = "compacted" THEN descriptor.next ELSE descriptor.bucket
HostIter   == IF Entered THEN descriptor.iterations ELSE iter

\* Where the host loop is: at the top of its loop when a bucket has just been
\* opened, past it when the device has found a reason to stop.
HostPhase ==
    CASE phase = "boundary"  -> "closure"
      [] phase = "compacted" -> "bucket"
      [] phase \in {"host", "batchEnd", "published"} ->
            IF ~Stopping(descriptor) THEN "closure"
            ELSE IF descriptor.status = {"iterations"} THEN "bucket" ELSE "extract"
      [] OTHER -> phase

\* A query with neither budget nor limit to work with is reported as stopped by
\* the limit here and as out of budget by the host loop.
HostStop ==
    IF phase \in {"batchEnd", "published"} /\ Stopping(descriptor)
    THEN IF descriptor.status = {"iterations"} THEN "none" ELSE StatusStop(descriptor.status)
    ELSE IF stop = "limit" /\ query.maxIters = 0 THEN "maxIters" ELSE stop

HostHeavy == IF spent = EmptyQueue THEN heavy ELSE spent

\* A flag is set for the members of the queue that is being filled or waits.
BooleanFlags ==
    LET members == IF phase \in {"idle", "done"} THEN {}
                   ELSE IF kernel = "light" THEN next.nodes ELSE current.nodes
    IN  [v \in Vertex |-> IF v \in members THEN 1 ELSE 0]

HostLoop == INSTANCE DeltaStepping WITH
    Generations <- FALSE, MaxGeneration <- 1, generation <- 0, inCurrent <- BooleanFlags,
    bucket <- HostBucket, iter <- HostIter, phase <- HostPhase, stop <- HostStop,
    heavy <- HostHeavy

\* What a HIP call that fails may do to the loop: end the call with an exception
\* and every array as new.
HostCallFails ==
    /\ phase = "idle" /\ stop = "threw"
    /\ \A v \in Vertex : dist[v] = Inf /\ key[v] = NoKey
    /\ inPending = {} /\ inHeavy = {} /\ BooleanFlags = [v \in Vertex |-> 0]
    /\ \A q \in {touched, current, next, pending, heavy} : q = EmptyQueue

\* Every behaviour of the controller is one of the host-checked loop, but for HIP
\* calls that fail: those throw and leave a workspace as good as new.
ImplementsHostLoop ==
    /\ HostLoop!Init
    /\ [][HostLoop!Next \/ (HostCallFails' /\ UNCHANGED <<costs, hasCosts, query>>)]_HostLoop!vars
=============================================================================
