----------------------------- MODULE RouteWorkers -----------------------------
(***************************************************************************)
(* How PathFinder routes the nets of a design: route_all_nets_with_        *)
(* workspace starts worker threads that claim net indices from one atomic  *)
(* counter, each routing on a workspace and scratch arrays of its own.     *)
(* They share the counter, the result vector (one slot per net), a failure *)
(* flag, the first exception and the progress report.  route_net itself    *)
(* returns or throws here; RouteNet models what it does.                   *)
(***************************************************************************)
EXTENDS Integers, Sequences, FiniteSets

CONSTANTS
    NetCount,       \* route_request_count
    WorkerCount,    \* worker_count: the requested workers, at most one per net
    ReportSteps     \* progress is printed about this many times (100)

ASSUME PoolAssumption ==
    /\ NetCount \in Nat \ {0, 1} /\ ReportSteps \in Nat \ {0}
    /\ WorkerCount \in 2 .. NetCount    \* otherwise nets are routed in a plain loop

Worker == 1 .. WorkerCount
Net    == 0 .. NetCount - 1
NoError == 0

VARIABLES
    main,           \* the calling thread: spawn, join, unwind, returned, threw
    spawned,        \* threads constructed so far
    pc,             \* where each worker stands
    claimed,        \* net_index of each worker
    tally,          \* the completion number each worker is about to report
    nextNet, completed, failed,         \* the shared atomics
    firstError,     \* first_exception: the worker it came from, or NoError
    lastReported, printed,              \* guarded by progress_mutex
    routed          \* the slots of nets already assigned

shared == <<nextNet, completed, failed, firstError, lastReported, printed, routed>>
local  == <<pc, claimed, tally>>
vars   == <<main, spawned, shared, local>>

Init ==
    /\ main = "spawn" /\ spawned = 0
    /\ pc = [w \in Worker |-> "unborn"]
    /\ claimed = [w \in Worker |-> 0] /\ tally = [w \in Worker |-> 0]
    /\ nextNet = 0 /\ completed = 0 /\ failed = FALSE /\ firstError = NoError
    /\ lastReported = 0 /\ printed = <<>> /\ routed = {}

Goto(w, label) == pc' = [pc EXCEPT ![w] = label]
-----------------------------------------------------------------------------
(* The calling thread. *)

Spawn ==
    /\ main = "spawn" /\ spawned < WorkerCount
    /\ spawned' = spawned + 1
    /\ Goto(spawned + 1, "setup")
    /\ UNCHANGED <<main, shared, claimed, tally>>

\* Constructing a std::thread throws: stop the workers already running.
SpawnFails ==
    /\ main = "spawn" /\ spawned < WorkerCount
    /\ failed' = TRUE /\ main' = "unwind"
    /\ UNCHANGED <<spawned, nextNet, completed, firstError, lastReported, printed, routed, local>>

AllSpawned ==
    /\ main = "spawn" /\ spawned = WorkerCount
    /\ main' = "join"
    /\ UNCHANGED <<spawned, shared, local>>

\* Mutant of Joined: waits for threads that were never constructed.
EveryoneExited == \A w \in Worker : pc[w] = "exited"

\* Every constructed thread has run to its end.
Joined == \A w \in 1 .. spawned : pc[w] = "exited"

\* Mutant of Join: the recorded exception is not rethrown.
JoinQuietly ==
    /\ main = "join" /\ Joined
    /\ main' = "returned"
    /\ UNCHANGED <<spawned, shared, local>>

Join ==
    /\ main = "join" /\ Joined
    /\ main' = IF firstError = NoError THEN "returned" ELSE "threw"
    /\ UNCHANGED <<spawned, shared, local>>

\* Mutant of Unwind: the construction error leaves before the join.
UnwindAtOnce ==
    /\ main = "unwind"
    /\ main' = "threw"
    /\ UNCHANGED <<spawned, shared, local>>

\* Rethrow the construction error after joining.
Unwind ==
    /\ main = "unwind" /\ Joined
    /\ main' = "threw"
    /\ UNCHANGED <<spawned, shared, local>>
-----------------------------------------------------------------------------
(* A worker thread. *)

\* Device, stream, workspace and scratch: any of them may throw.
Setup(w) ==
    /\ pc[w] = "setup"
    /\ Goto(w, "test") \/ Goto(w, "raise")
    /\ UNCHANGED <<main, spawned, shared, claimed, tally>>

\* The loop condition reads the failure flag.
Test(w) ==
    /\ pc[w] = "test"
    /\ Goto(w, IF failed THEN "exited" ELSE "claim")
    /\ UNCHANGED <<main, spawned, shared, claimed, tally>>

\* Mutant of Claim: the increments of workers that meet at the counter are lost.
ClaimRacy(w) ==
    /\ pc[w] = "claim"
    /\ claimed' = [claimed EXCEPT ![w] = nextNet]
    /\ nextNet' = IF \E x \in Worker \ {w} : pc[x] = "claim" THEN nextNet ELSE nextNet + 1
    /\ Goto(w, IF nextNet >= NetCount THEN "exited" ELSE "route")
    /\ UNCHANGED <<main, spawned, completed, failed, firstError, lastReported, printed, routed, tally>>

\* next_net.fetch_add(1)
Claim(w) ==
    /\ pc[w] = "claim"
    /\ claimed' = [claimed EXCEPT ![w] = nextNet]
    /\ nextNet' = nextNet + 1
    /\ Goto(w, IF nextNet >= NetCount THEN "exited" ELSE "route")
    /\ UNCHANGED <<main, spawned, completed, failed, firstError, lastReported, printed, routed, tally>>

\* route_net returns and its result is stored in the net's slot.
Route(w) ==
    /\ pc[w] = "route"
    /\ routed' = routed \cup {claimed[w]}
    /\ Goto(w, "count")
    /\ UNCHANGED <<main, spawned, nextNet, completed, failed, firstError, lastReported, printed,
                   claimed, tally>>

\* route_net throws.
RouteThrows(w) ==
    /\ pc[w] = "route"
    /\ Goto(w, "raise")
    /\ UNCHANGED <<main, spawned, shared, claimed, tally>>

\* completed_nets.fetch_add(1) + 1
Count(w) ==
    /\ pc[w] = "count"
    /\ completed' = completed + 1
    /\ tally' = [tally EXCEPT ![w] = completed + 1]
    /\ Goto(w, "report")
    /\ UNCHANGED <<main, spawned, nextNet, failed, firstError, lastReported, printed, routed, claimed>>

ProgressInterval == IF NetCount \div ReportSteps = 0 THEN 1 ELSE NetCount \div ReportSteps

\* Mutant of WorthReporting: without the early return, an unsigned difference
\* of a late report wraps around and is large.
WorthReportingWrapped(c) ==
    \/ c = NetCount
    \/ c < lastReported
    \/ c - lastReported >= ProgressInterval

\* Workers may reach the mutex in another order than they counted.
WorthReporting(c) ==
    /\ c > lastReported
    /\ c = NetCount \/ c - lastReported >= ProgressInterval

Report(w) ==
    /\ pc[w] = "report"
    /\ IF WorthReporting(tally[w])
       THEN lastReported' = tally[w] /\ printed' = Append(printed, tally[w])
       ELSE UNCHANGED <<lastReported, printed>>
    /\ Goto(w, "test")
    /\ UNCHANGED <<main, spawned, nextNet, completed, failed, firstError, routed, claimed, tally>>

\* The handler raises the flag, then takes exception_mutex.
Raise(w) ==
    /\ pc[w] = "raise"
    /\ failed' = TRUE
    /\ Goto(w, "record")
    /\ UNCHANGED <<main, spawned, nextNet, completed, firstError, lastReported, printed, routed,
                   claimed, tally>>

Record(w) ==
    /\ pc[w] = "record"
    /\ firstError' = IF firstError = NoError THEN w ELSE firstError
    /\ Goto(w, "exited")
    /\ UNCHANGED <<main, spawned, nextNet, completed, failed, lastReported, printed, routed,
                   claimed, tally>>

Work(w) == \/ Setup(w) \/ Test(w) \/ Claim(w) \/ Route(w) \/ RouteThrows(w)
           \/ Count(w) \/ Report(w) \/ Raise(w) \/ Record(w)
Call    == Spawn \/ SpawnFails \/ AllSpawned \/ Join \/ Unwind
Next    == Call \/ \E w \in Worker : Work(w)

Spec == Init /\ [][Next]_vars

\* Threads are scheduled and route_net returns (BF11!QueryEnds).
FairSpec == Spec /\ WF_vars(Call) /\ \A w \in Worker : WF_vars(Work(w))
-----------------------------------------------------------------------------
Labels == {"unborn", "setup", "test", "claim", "route", "count", "report",
           "raise", "record", "exited"}

\* The shape of the state.
TypeOK ==
    /\ main \in {"spawn", "join", "unwind", "returned", "threw"}
    /\ spawned \in 0 .. WorkerCount
    /\ pc \in [Worker -> Labels]
    /\ claimed \in [Worker -> Nat] /\ tally \in [Worker -> Nat]
    /\ nextNet \in Nat /\ completed \in Nat /\ failed \in BOOLEAN
    /\ firstError \in Worker \cup {NoError}
    /\ lastReported \in Nat /\ printed \in Seq(Nat)
    /\ routed \subseteq Net

\* A result slot is written by one thread only, and only once: workers hold
\* different nets, and none of the nets they are routing has been routed.
OneWriterPerNet ==
    \A w \in Worker : pc[w] = "route" =>
        /\ claimed[w] \in Net \ routed
        /\ \A x \in Worker \ {w} : pc[x] = "route" => claimed[x] # claimed[w]

\* The completion counter counts the nets routed, those of workers on their way
\* to increment it aside.
CountMatchesResults ==
    completed + Cardinality({w \in Worker : pc[w] = "count"}) = Cardinality(routed)

\* Returning without an exception means that every net has its result.
NoNetLost == main = "returned" => routed = Net

\* The call never ends, normally or not, before its threads have: a joinable
\* std::thread that is destroyed terminates the process.
ThreadsJoined == main \in {"returned", "threw"} => \A w \in Worker : pc[w] \in {"unborn", "exited"}

\* Progress only moves forward, although workers report out of order, and a
\* call that returns has reported the last net.
ProgressForward ==
    /\ \A i \in 1 .. Len(printed) - 1 : printed[i] < printed[i + 1]
    /\ main = "returned" => printed # <<>> /\ printed[Len(printed)] = NetCount

\* The exception the caller sees is the first one recorded.
FirstErrorKept == [][firstError # NoError => firstError' = firstError]_vars

\* The call ends: no worker waits for another, and main waits only for threads
\* that exist.
CallEnds == <>(main \in {"returned", "threw"})
=============================================================================
