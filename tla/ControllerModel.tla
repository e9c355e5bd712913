--------------------------- MODULE ControllerModel ---------------------------
(***************************************************************************)
(* DeltaSteppingCsrControllerSequentialModel, the host's executable model  *)
(* of what the reduced-round-trip controller publishes: a descriptor that  *)
(* consumes one event after another.  Descriptors and events are records,  *)
(* and every event is a function from the descriptor before it to the one  *)
(* after it.  A status is a set of flags: none is ever erased.             *)
(***************************************************************************)
EXTENDS Integers, Sequences

CONSTANTS
    BatchSize,      \* light rounds between two host checks
    MaxSequence,    \* the last query sequence number before it wraps
    MaxCount,       \* the last value a 32-bit round counter can hold
    NoNext          \* kDeltaSteppingCsrNoControllerBucket

Idle == [query |-> 0, publication |-> 0, status |-> {}, phase |-> "idle", action |-> "continue",
         rounds |-> 0, lightRounds |-> 0, current |-> 0, pending |-> 0,
         bucket |-> 0, next |-> NoNext, iterations |-> 0]

\* Invalid state dominates overflow, which dominates every ordinary stop; the
\* stop takes the name of the flag that wins.
Precedence == <<"invalid", "overflow", "iterations", "target", "complete">>

TerminalAction(status) ==
    IF status = {} THEN "continue"
    ELSE Precedence[CHOOSE i \in 1 .. 5 : /\ Precedence[i] \in status
                                          /\ \A j \in 1 .. i - 1 : Precedence[j] \notin status]

\* Once work is closed, a pending queue has a later successor and an empty one none.
ClosedPendingValid(pending, bucket, next) ==
    IF pending = 0 THEN next = NoNext ELSE next # NoNext /\ next > bucket

\* While light work is left the minimum has not been looked for.
LightPendingValid(pending, bucket, next) ==
    next = NoNext \/ ClosedPendingValid(pending, bucket, next)

\* delta_stepping_controller_descriptor_is_valid: what the host accepts.
Valid(d) ==
    IF d.status # {} THEN d.phase = "finished" /\ d.action = TerminalAction(d.status)
    ELSE CASE d.phase = "idle" ->
                /\ d.action = "continue" /\ d.current = 0 /\ d.pending = 0 /\ d.next = NoNext
           [] d.phase = "light" ->
                /\ d.current # 0 /\ d.action \in {"continue", "check"}
                /\ LightPendingValid(d.pending, d.bucket, d.next)
           [] d.phase = "boundary" ->
                /\ d.current = 0 /\ d.pending # 0 /\ d.action \in {"advance", "check"}
                /\ ClosedPendingValid(d.pending, d.bucket, d.next)
           [] d.phase = "finished" -> FALSE

NextQuery(query) == IF query = MaxSequence THEN 1 ELSE query + 1
-----------------------------------------------------------------------------
Published(d) == [d EXCEPT !.publication = @ + 1]

FinishWith(d, status) ==
    LET all == IF d.status \cup status = {} THEN {"invalid"} ELSE d.status \cup status
    IN  Published([d EXCEPT !.status = all, !.phase = "finished", !.action = TerminalAction(all)])

PublishHostCheck(d) == Published([d EXCEPT !.action = "check"])

\* The first event after a host check starts a new batch.
Resumed(d) ==
    IF d.action # "check" THEN d
    ELSE [d EXCEPT !.rounds = 0,
                   !.action = IF d.phase = "boundary" THEN "advance" ELSE "continue"]

BeginQuery(d, count) ==
    LET fresh == [Idle EXCEPT !.query = NextQuery(d.query), !.current = count]
    IN  IF d.phase \notin {"idle", "finished"} THEN FinishWith(d, {"invalid"})
        ELSE IF count = 0 THEN FinishWith(fresh, {"complete"})
        ELSE [fresh EXCEPT !.phase = "light"]

\* A round of light closure, with the reduction of the pending queue when it
\* closed the bucket: what the device saw is e.
LightRound(before, e) ==
    LET d == Resumed(before)
        closed == e.current = 0
        pendingValid ==
            IF closed /\ e.status \cap {"target", "overflow", "invalid", "complete"} = {}
            THEN ClosedPendingValid(e.pending, d.bucket, e.next)
            ELSE LightPendingValid(e.pending, d.bucket, e.next)
        malformed ==
            \/ e.bucket # d.bucket \/ e.pending < d.pending \/ ~pendingValid
            \/ "complete" \in e.status /\ (~closed \/ e.next # NoNext)
            \/ "target" \in e.status /\ ~closed
            \/ "iterations" \in e.status
        spent == MaxCount \in {d.lightRounds, d.rounds}
        status == d.status \cup e.status \cup (IF malformed \/ spent THEN {"invalid"} ELSE {})
        counted == IF spent THEN d
                   ELSE [d EXCEPT !.lightRounds = @ + 1, !.rounds = @ + 1,
                                  !.iterations = IF closed THEN @ + 1 ELSE @]
        seen == [counted EXCEPT !.current = e.current, !.pending = e.pending,
                                !.next = e.next, !.status = status]
    IN  IF d.phase # "light" THEN FinishWith(d, {"invalid"})
        ELSE IF status # {} THEN FinishWith(seen, {})
        ELSE IF ~closed THEN IF seen.rounds >= BatchSize THEN PublishHostCheck(seen)
                             ELSE [seen EXCEPT !.action = "continue"]
        ELSE IF e.pending # 0 THEN [seen EXCEPT !.phase = "boundary", !.action = "advance"]
        ELSE FinishWith(seen, {"complete"})

\* The successor bucket, compacted out of the pending queue.
BeginBucket(before, e) ==
    LET d == Resumed(before)
        malformed == \/ d.phase # "boundary" \/ e.current = 0 \/ e.bucket # d.next
                     \/ e.current + e.pending > d.pending
                     \/ e.status \cap {"complete", "target"} # {}
                     \/ ~LightPendingValid(e.pending, e.bucket, e.next)
        status == d.status \cup e.status \cup (IF malformed THEN {"invalid"} ELSE {})
        seen == [d EXCEPT !.current = e.current, !.pending = e.pending, !.bucket = e.bucket,
                          !.next = e.next, !.phase = "light", !.status = status]
    IN  IF status # {} THEN FinishWith(seen, {})
        ELSE IF seen.rounds >= BatchSize THEN PublishHostCheck(seen)
        ELSE [seen EXCEPT !.action = "continue"]
=============================================================================
