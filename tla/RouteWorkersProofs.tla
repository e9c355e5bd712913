-------------------------- MODULE RouteWorkersProofs --------------------------
(***************************************************************************)
(* Theorems about RouteWorkers for every number of nets and workers.       *)
(***************************************************************************)
EXTENDS RouteWorkers, FiniteSetTheorems, SequenceTheorems, TLAPS

Counting  == {w \in Worker : pc[w] = "count"}
Reporting == {w \in Worker : pc[w] = "report"}

\* Claimed indices lie below the counter, differ, and wait for their result.
ClaimInv ==
    /\ \A i \in routed : i < nextNet
    /\ \A w \in Worker : pc[w] = "route" =>
          claimed[w] < nextNet /\ claimed[w] \in Net \ routed
    /\ \A w, x \in Worker : pc[w] = "route" /\ pc[x] = "route" /\ w # x => claimed[w] # claimed[x]

\* An exception is on its way to the caller.
Failing == firstError # NoError \/ \E w \in Worker : pc[w] \in {"raise", "record"}

\* A claimed net has its result, a worker that routes it, or was dropped by an
\* exception; workers stop early only because of one.
CoverInv ==
    /\ \A i \in Net : i < nextNet =>
          i \in routed \/ Failing \/ \E w \in Worker : pc[w] = "route" /\ claimed[w] = i
    /\ failed => Failing \/ main \in {"unwind", "threw"}
    /\ \A w \in Worker : pc[w] = "exited" => Failing \/ failed \/ nextNet >= NetCount

\* Which threads exist, and that the caller leaves after them.
ThreadInv ==
    /\ \A w \in Worker : pc[w] = "unborn" <=> w > spawned
    /\ main \in {"join", "returned"} => spawned = WorkerCount
    /\ main \in {"returned", "threw"} => Joined
    /\ main = "returned" => firstError = NoError

CountInv == completed + Cardinality(Counting) = Cardinality(routed)

\* What has been printed, and who still has to report the last net.
ReportInv ==
    /\ \A i \in 1 .. Len(printed) - 1 : printed[i] < printed[i + 1]
    /\ printed = <<>> => lastReported = 0
    /\ printed # <<>> => printed[Len(printed)] = lastReported
    /\ lastReported <= completed
    /\ \A w \in Reporting : tally[w] <= completed
    /\ completed = NetCount =>
          lastReported = NetCount \/ \E w \in Reporting : tally[w] = NetCount

PoolInv == TypeOK /\ ClaimInv /\ CoverInv /\ ThreadInv /\ CountInv /\ ReportInv
-----------------------------------------------------------------------------
LEMMA PoolTypes ==
  /\ NetCount \in Nat /\ NetCount > 1 /\ WorkerCount \in Nat /\ WorkerCount > 1
  /\ ProgressInterval \in Nat \ {0}
  /\ 0 \notin Worker
  <1>1. NetCount \in Nat /\ NetCount > 1 /\ WorkerCount \in Nat /\ WorkerCount > 1
    BY PoolAssumption
  <1>2. NetCount \div ReportSteps \in Nat
    BY PoolAssumption, <1>1
  <1> QED BY <1>1, <1>2 DEF ProgressInterval, Worker

LEMMA TypeInit == Init => TypeOK
  <1> SUFFICES ASSUME Init PROVE TypeOK
    OBVIOUS
  <1>1. printed \in Seq(Nat) /\ routed \subseteq Net
    BY DEF Init
  <1>2. spawned \in 0 .. WorkerCount
    BY PoolTypes DEF Init
  <1>3. pc \in [Worker -> Labels] /\ claimed \in [Worker -> Nat] /\ tally \in [Worker -> Nat]
    BY DEF Init, Labels
  <1> QED BY <1>1, <1>2, <1>3 DEF Init, TypeOK

LEMMA TypeStep == TypeOK /\ ClaimInv /\ [Next]_vars => TypeOK'
  <1> SUFFICES ASSUME TypeOK, ClaimInv, [Next]_vars PROVE TypeOK'
    OBVIOUS
  <1>1. CASE Spawn
    BY <1>1, PoolTypes DEF Spawn, Goto, shared, TypeOK, Labels, Worker
  <1>2. CASE SpawnFails \/ AllSpawned \/ Join \/ Unwind
    BY <1>2 DEF SpawnFails, AllSpawned, Join, Unwind, shared, local, TypeOK
  <1>3. ASSUME NEW w \in Worker, Work(w) PROVE TypeOK'
    <2>1. CASE Setup(w) \/ Test(w) \/ RouteThrows(w)
      BY <2>1 DEF Setup, Test, RouteThrows, Goto, shared, TypeOK, Labels
    <2>2. CASE Claim(w)
      BY <2>2 DEF Claim, Goto, TypeOK, Labels
    <2>3. CASE Route(w)
      <3>1. claimed[w] \in Net
        BY <2>3 DEF Route, ClaimInv
      <3> QED BY <2>3, <3>1 DEF Route, Goto, TypeOK, Labels
    <2>4. CASE Count(w)
      BY <2>4 DEF Count, Goto, TypeOK, Labels
    <2>5. CASE Report(w)
      <3>1. printed' \in Seq(Nat) /\ lastReported' \in Nat
        <4>1. tally[w] \in Nat
          BY DEF TypeOK
        <4>2. printed \in Seq(Nat) /\ Append(printed, tally[w]) \in Seq(Nat)
          BY <4>1, AppendProperties DEF TypeOK
        <4> QED BY <2>5, <4>1, <4>2 DEF Report, TypeOK
      <3>2. pc' \in [Worker -> Labels]
        BY <2>5 DEF Report, Goto, TypeOK, Labels
      <3> QED BY <2>5, <3>1, <3>2 DEF Report, TypeOK
    <2>6. CASE Raise(w) \/ Record(w)
      BY <2>6 DEF Raise, Record, Goto, TypeOK, Labels
    <2> QED BY <1>3, <2>1, <2>2, <2>3, <2>4, <2>5, <2>6 DEF Work
  <1>4. CASE UNCHANGED vars
    BY <1>4 DEF vars, shared, local, TypeOK
  <1> QED BY <1>1, <1>2, <1>3, <1>4 DEF Next, Call

-----------------------------------------------------------------------------
(* Claims. *)

LEMMA ClaimInit == Init => ClaimInv
  BY DEF Init, ClaimInv

LEMMA ClaimStep == TypeOK /\ ClaimInv /\ [Next]_vars => ClaimInv'
  <1> SUFFICES ASSUME TypeOK, ClaimInv, [Next]_vars PROVE ClaimInv'
    OBVIOUS
  <1>1. CASE Spawn
    BY <1>1, PoolTypes DEF Spawn, Goto, shared, ClaimInv, TypeOK, Worker
  <1>2. CASE SpawnFails \/ AllSpawned \/ Join \/ Unwind
    BY <1>2 DEF SpawnFails, AllSpawned, Join, Unwind, shared, local, ClaimInv
  <1>3. ASSUME NEW w \in Worker, Work(w) PROVE ClaimInv'
    <2>1. CASE Setup(w) \/ Test(w) \/ RouteThrows(w)
      BY <2>1 DEF Setup, Test, RouteThrows, Goto, shared, ClaimInv, TypeOK
    <2>2. CASE Claim(w)
      <3>1. /\ nextNet \in Nat /\ nextNet' = nextNet + 1 /\ routed' = routed
            /\ claimed'[w] = nextNet /\ \A x \in Worker : x # w => claimed'[x] = claimed[x] /\ pc'[x] = pc[x]
            /\ pc'[w] = "route" => nextNet < NetCount
        BY <2>2, PoolTypes DEF Claim, Goto, TypeOK
      <3>2. routed \subseteq Net /\ \A i \in routed : i \in Nat /\ i < nextNet
        BY DEF ClaimInv, TypeOK, Net
      <3>3. pc'[w] = "route" => claimed'[w] \in Net \ routed
        BY <3>1, <3>2, PoolTypes DEF Net
      <3>4. \A x \in Worker : claimed[x] \in Nat
        BY DEF TypeOK
      <3>5. \A x \in Worker : pc'[x] = "route" =>
                claimed'[x] < nextNet' /\ claimed'[x] \in Net \ routed'
        BY <3>1, <3>3, <3>4 DEF ClaimInv
      <3>6. \A x, y \in Worker : pc'[x] = "route" /\ pc'[y] = "route" /\ x # y => claimed'[x] # claimed'[y]
        BY <3>1, <3>4 DEF ClaimInv
      <3>7. \A i \in routed' : i < nextNet'
        BY <3>1, <3>2
      <3> QED BY <3>5, <3>6, <3>7 DEF ClaimInv
    <2>3. CASE Route(w)
      <3>1. /\ UNCHANGED <<nextNet, claimed>> /\ routed' = routed \cup {claimed[w]}
            /\ pc[w] = "route" /\ pc'[w] = "count" /\ \A x \in Worker : x # w => pc'[x] = pc[x]
        BY <2>3 DEF Route, Goto, TypeOK
      <3> QED BY <3>1 DEF ClaimInv
    <2>4. CASE Count(w) \/ Report(w) \/ Raise(w) \/ Record(w)
      BY <2>4 DEF Count, Report, Raise, Record, Goto, ClaimInv, TypeOK
    <2> QED BY <1>3, <2>1, <2>2, <2>3, <2>4 DEF Work
  <1>4. CASE UNCHANGED vars
    BY <1>4 DEF vars, shared, local, ClaimInv
  <1> QED BY <1>1, <1>2, <1>3, <1>4 DEF Next, Call

-----------------------------------------------------------------------------
(* Threads and coverage. *)

LEMMA ThreadInit == Init => ThreadInv
  BY DEF Init, ThreadInv, Worker

LEMMA ThreadStep == TypeOK /\ ThreadInv /\ [Next]_vars => ThreadInv'
  <1> SUFFICES ASSUME TypeOK, ThreadInv, [Next]_vars PROVE ThreadInv'
    OBVIOUS
  <1>0. 1 .. spawned \subseteq Worker /\ spawned \in Nat
    BY PoolTypes DEF TypeOK, Worker
  <1>1. CASE Spawn
    <2>1. /\ main = "spawn" /\ main' = "spawn" /\ spawned' = spawned + 1 /\ spawned + 1 \in Worker
          /\ pc' = [pc EXCEPT ![spawned + 1] = "setup"]
      BY <1>1, PoolTypes DEF Spawn, Goto, TypeOK, Worker
    <2>2. \A w \in Worker : pc'[w] = "unborn" <=> w > spawned'
      BY <2>1, <1>0 DEF ThreadInv, TypeOK, Worker
    <2> QED BY <2>1, <2>2 DEF ThreadInv
  <1>2. CASE SpawnFails
    BY <1>2 DEF SpawnFails, local, ThreadInv
  <1>3. CASE AllSpawned
    BY <1>3 DEF AllSpawned, shared, local, ThreadInv
  <1>4. CASE Join \/ Unwind
    BY <1>4 DEF Join, Unwind, shared, local, ThreadInv, Joined
  <1>5. ASSUME NEW w \in Worker, Work(w) PROVE ThreadInv'
    <2>1. /\ UNCHANGED <<main, spawned>> /\ pc[w] \notin {"unborn", "exited"}
          /\ pc'[w] # "unborn" /\ \A x \in Worker : x # w => pc'[x] = pc[x]
      BY <1>5 DEF Work, Setup, Test, Claim, Route, RouteThrows, Count, Report, Raise, Record, Goto,
                  shared, TypeOK
    <2>2. w \in 1 .. spawned
      BY <2>1, <1>0 DEF ThreadInv, Worker
    <2>3. main \notin {"returned", "threw"}
      BY <2>1, <2>2 DEF ThreadInv, Joined
    <2> QED BY <2>1, <2>3 DEF ThreadInv
  <1>6. CASE UNCHANGED vars
    BY <1>6 DEF vars, shared, local, ThreadInv, Joined
  <1> QED BY <1>1, <1>2, <1>3, <1>4, <1>5, <1>6 DEF Next, Call

\* Once raised, an exception stays until the caller sees it.
LEMMA FailingStays == TypeOK /\ ThreadInv /\ Failing /\ [Next]_vars => Failing'
  <1> SUFFICES ASSUME TypeOK, ThreadInv, Failing, [Next]_vars PROVE Failing'
    OBVIOUS
  <1>1. CASE Spawn
    <2>1. spawned + 1 \in Worker /\ pc[spawned + 1] = "unborn" /\ firstError' = firstError
          /\ pc' = [pc EXCEPT ![spawned + 1] = "setup"]
      BY <1>1, PoolTypes DEF Spawn, Goto, TypeOK, Worker, ThreadInv, shared
    <2> QED BY <2>1 DEF Failing, TypeOK
  <1>2. CASE SpawnFails \/ AllSpawned \/ Join \/ Unwind
    BY <1>2 DEF SpawnFails, AllSpawned, Join, Unwind, shared, local, Failing
  <1>3. ASSUME NEW w \in Worker, Work(w) PROVE Failing'
    <2>1. CASE Record(w)
      <3>1. firstError' # NoError
        BY <2>1, PoolTypes DEF Record, NoError, TypeOK
      <3> QED BY <3>1 DEF Failing
    <2>2. CASE Raise(w)
      BY <2>2 DEF Raise, Goto, Failing, TypeOK
    <2>3. CASE Setup(w) \/ Test(w) \/ Claim(w) \/ Route(w) \/ RouteThrows(w) \/ Count(w) \/ Report(w)
      BY <2>3 DEF Setup, Test, Claim, Route, RouteThrows, Count, Report, Goto, shared, Failing, TypeOK
    <2> QED BY <1>3, <2>1, <2>2, <2>3 DEF Work
  <1>4. CASE UNCHANGED vars
    BY <1>4 DEF vars, shared, local, Failing
  <1> QED BY <1>1, <1>2, <1>3, <1>4 DEF Next, Call

LEMMA CoverInit == Init => CoverInv
  BY DEF Init, CoverInv, Net

LEMMA CoverStep == TypeOK /\ ClaimInv /\ ThreadInv /\ CoverInv /\ [Next]_vars => CoverInv'
  <1> SUFFICES ASSUME TypeOK, ClaimInv, ThreadInv, CoverInv, [Next]_vars PROVE CoverInv'
    OBVIOUS
  <1>0. Failing => Failing'
    BY FailingStays
  <1>1. CASE Spawn
    <2>1. /\ UNCHANGED <<main, nextNet, routed, claimed, failed>>
          /\ spawned + 1 \in Worker /\ pc[spawned + 1] = "unborn" /\ pc'[spawned + 1] = "setup"
          /\ \A x \in Worker : x # spawned + 1 => pc'[x] = pc[x]
      BY <1>1, PoolTypes DEF Spawn, Goto, TypeOK, Worker, ThreadInv, shared
    <2> QED BY <2>1, <1>0 DEF CoverInv
  <1>2. CASE SpawnFails
    BY <1>2, <1>0 DEF SpawnFails, local, CoverInv
  <1>3. CASE AllSpawned \/ Join \/ Unwind
    <2>1. /\ UNCHANGED <<shared, local>>
          /\ main \in {"unwind", "threw"} => main' \in {"unwind", "threw"}
      BY <1>3 DEF AllSpawned, Join, Unwind
    <2> QED BY <2>1, <1>0 DEF shared, local, CoverInv
  <1>4. ASSUME NEW w \in Worker, Work(w) PROVE CoverInv'
    <2>1. CASE Setup(w)
      BY <2>1, <1>0 DEF Setup, Goto, shared, CoverInv, TypeOK
    <2>2. CASE Test(w)
      BY <2>2, <1>0 DEF Test, Goto, shared, CoverInv, TypeOK
    <2>3. CASE Claim(w)
      <3>1. /\ nextNet \in Nat /\ nextNet' = nextNet + 1 /\ UNCHANGED <<routed, failed, main>>
            /\ claimed'[w] = nextNet /\ pc[w] = "claim"
            /\ \A x \in Worker : x # w => claimed'[x] = claimed[x] /\ pc'[x] = pc[x]
            /\ pc'[w] = (IF nextNet >= NetCount THEN "exited" ELSE "route")
        BY <2>3, PoolTypes DEF Claim, Goto, TypeOK
      <3>2. ASSUME NEW i \in Net, i < nextNet'
            PROVE  i \in routed' \/ Failing' \/ \E x \in Worker : pc'[x] = "route" /\ claimed'[x] = i
        <4>1. i \in Nat /\ i < NetCount
          BY PoolTypes DEF Net
        <4>2. CASE i = nextNet
          <5>1. ~(nextNet >= NetCount)
            BY <4>1, <4>2, <3>1, PoolTypes
          <5>2. pc'[w] = "route" /\ claimed'[w] = i
            BY <5>1, <4>2, <3>1
          <5> QED BY <5>2
        <4>3. CASE i < nextNet
          BY <4>3, <3>1, <1>0 DEF CoverInv
        <4> QED BY <4>1, <4>2, <4>3, <3>1, <3>2
      <3>3. \A x \in Worker : pc'[x] = "exited" => Failing' \/ failed' \/ nextNet' >= NetCount
        BY <3>1, <1>0, PoolTypes DEF CoverInv
      <3> QED BY <3>1, <3>2, <3>3, <1>0 DEF CoverInv
    <2>4. CASE Route(w)
      BY <2>4, <1>0 DEF Route, Goto, CoverInv, TypeOK
    <2>5. CASE RouteThrows(w) \/ Raise(w)
      <3>1. Failing' /\ UNCHANGED <<nextNet, routed, main>>
        BY <2>5 DEF RouteThrows, Raise, Goto, shared, Failing, TypeOK
      <3> QED BY <3>1 DEF CoverInv
    <2>6. CASE Count(w) \/ Report(w)
      BY <2>6, <1>0 DEF Count, Report, Goto, CoverInv, TypeOK
    <2>7. CASE Record(w)
      <3>1. Failing'
        BY <2>7, <1>0 DEF Record, Failing
      <3> QED BY <3>1 DEF CoverInv
    <2> QED BY <1>4, <2>1, <2>2, <2>3, <2>4, <2>5, <2>6, <2>7 DEF Work
  <1>5. CASE UNCHANGED vars
    BY <1>5, <1>0 DEF vars, shared, local, CoverInv
  <1> QED BY <1>1, <1>2, <1>3, <1>4, <1>5 DEF Next, Call
-----------------------------------------------------------------------------
(* The completion counter and the progress report. *)

LEMMA FiniteSets ==
  /\ IsFiniteSet(Net) /\ Cardinality(Net) = NetCount
  /\ \A S \in SUBSET Net : /\ IsFiniteSet(S) /\ Cardinality(S) \in Nat /\ Cardinality(S) <= NetCount
                           /\ Cardinality(S) = NetCount => S = Net
  /\ \A S \in SUBSET Worker : IsFiniteSet(S) /\ Cardinality(S) \in Nat
  <1>1. IsFiniteSet(Net) /\ Cardinality(Net) = NetCount
    <2>1. 0 \in Int /\ NetCount - 1 \in Int /\ ~(0 > NetCount - 1) /\ (NetCount - 1) - 0 + 1 = NetCount
      BY PoolTypes
    <2> QED BY <2>1, FS_Interval DEF Net
  <1>2. IsFiniteSet(Worker)
    <2>1. 1 \in Int /\ WorkerCount \in Int
      BY PoolTypes
    <2> QED BY <2>1, FS_Interval DEF Worker
  <1> QED BY <1>1, <1>2, FS_Subset, FS_CardinalityType

LEMMA CountInit == Init => CountInv
  <1> SUFFICES ASSUME Init PROVE CountInv
    OBVIOUS
  <1>1. Counting = {}
    BY DEF Init, Counting
  <1>2. Cardinality({}) = 0
    BY FS_EmptySet
  <1> QED BY <1>1, <1>2 DEF Init, CountInv

LEMMA CountStep == TypeOK /\ ClaimInv /\ ThreadInv /\ CountInv /\ [Next]_vars => CountInv'
  <1> SUFFICES ASSUME TypeOK, ClaimInv, ThreadInv, CountInv, [Next]_vars PROVE CountInv'
    OBVIOUS
  <1>0. Counting \in SUBSET Worker /\ routed \in SUBSET Net /\ completed \in Nat
    BY DEF Counting, TypeOK
  <1>1. ASSUME UNCHANGED <<completed, routed>>, Counting' = Counting PROVE CountInv'
    BY <1>1 DEF CountInv
  <1>2. CASE Spawn
    <2>1. Counting' = Counting
      BY <1>2, PoolTypes DEF Spawn, Goto, Counting, TypeOK, Worker, ThreadInv
    <2> QED BY <1>2, <1>1, <2>1 DEF Spawn, shared
  <1>3. CASE SpawnFails \/ AllSpawned \/ Join \/ Unwind
    BY <1>3, <1>1 DEF SpawnFails, AllSpawned, Join, Unwind, shared, local, Counting
  <1>4. ASSUME NEW w \in Worker, Work(w) PROVE CountInv'
    <2>1. CASE Setup(w) \/ Test(w) \/ Claim(w) \/ RouteThrows(w) \/ Report(w) \/ Raise(w) \/ Record(w)
      <3>1. Counting' = Counting /\ UNCHANGED <<completed, routed>>
        BY <2>1 DEF Setup, Test, Claim, RouteThrows, Report, Raise, Record, Goto, shared, Counting, TypeOK
      <3> QED BY <3>1, <1>1
    <2>2. CASE Route(w)
      <3>1. Counting' = Counting \cup {w} /\ w \notin Counting
        BY <2>2 DEF Route, Goto, Counting, TypeOK
      <3>2. routed' = routed \cup {claimed[w]} /\ claimed[w] \in Net /\ claimed[w] \notin routed
        BY <2>2 DEF Route, ClaimInv
      <3>3. Cardinality(Counting') = Cardinality(Counting) + 1
        BY <3>1, <1>0, FiniteSets, FS_AddElement
      <3>4. Cardinality(routed') = Cardinality(routed) + 1
        BY <3>2, <1>0, FiniteSets, FS_AddElement
      <3>5. completed' = completed
        BY <2>2 DEF Route
      <3> QED BY <3>3, <3>4, <3>5, <1>0, FiniteSets DEF CountInv
    <2>3. CASE Count(w)
      <3>1. Counting' = Counting \ {w} /\ w \in Counting
        BY <2>3 DEF Count, Goto, Counting, TypeOK
      <3>2. Cardinality(Counting') = Cardinality(Counting) - 1
        BY <3>1, <1>0, FiniteSets, FS_RemoveElement
      <3>3. completed' = completed + 1 /\ routed' = routed
        BY <2>3 DEF Count
      <3> QED BY <3>2, <3>3, <1>0, FiniteSets DEF CountInv
    <2> QED BY <1>4, <2>1, <2>2, <2>3 DEF Work
  <1>5. CASE UNCHANGED vars
    BY <1>5, <1>1 DEF vars, shared, local, Counting
  <1> QED BY <1>2, <1>3, <1>4, <1>5 DEF Next, Call

LEMMA ReportInit == Init => ReportInv
  <1> SUFFICES ASSUME Init PROVE ReportInv
    OBVIOUS
  <1>1. Len(printed) = 0 /\ Reporting = {}
    BY EmptySeq DEF Init, Reporting
  <1> QED BY <1>1, PoolTypes DEF Init, ReportInv

LEMMA ReportStep == TypeOK /\ ThreadInv /\ ReportInv /\ CountInv /\ [Next]_vars => ReportInv'
  <1> SUFFICES ASSUME TypeOK, ThreadInv, ReportInv, CountInv, [Next]_vars PROVE ReportInv'
    OBVIOUS
  <1>0. /\ completed \in Nat /\ lastReported \in Nat /\ \A x \in Worker : tally[x] \in Nat
        /\ printed \in Seq(Nat) /\ Reporting \subseteq Worker
    BY DEF TypeOK, Reporting
  <1>1. ASSUME UNCHANGED <<completed, lastReported, printed, tally>>, Reporting' = Reporting
        PROVE  ReportInv'
    BY <1>1 DEF ReportInv
  <1>2. CASE Spawn
    <2>1. Reporting' = Reporting
      BY <1>2, PoolTypes DEF Spawn, Goto, Reporting, TypeOK, Worker, ThreadInv
    <2> QED BY <1>2, <1>1, <2>1 DEF Spawn, shared
  <1>3. CASE SpawnFails \/ AllSpawned \/ Join \/ Unwind
    BY <1>3, <1>1 DEF SpawnFails, AllSpawned, Join, Unwind, shared, local, Reporting
  <1>4. ASSUME NEW w \in Worker, Work(w) PROVE ReportInv'
    <2>1. CASE Setup(w) \/ Test(w) \/ Claim(w) \/ Route(w) \/ RouteThrows(w) \/ Raise(w) \/ Record(w)
      <3>1. Reporting' = Reporting /\ UNCHANGED <<completed, lastReported, printed, tally>>
        BY <2>1 DEF Setup, Test, Claim, Route, RouteThrows, Raise, Record, Goto, shared, Reporting, TypeOK
      <3> QED BY <3>1, <1>1
    <2>2. CASE Count(w)
      <3>1. /\ completed' = completed + 1 /\ UNCHANGED <<lastReported, printed>>
            /\ tally'[w] = completed + 1 /\ \A x \in Worker : x # w => tally'[x] = tally[x]
            /\ Reporting' = Reporting \cup {w} /\ w \notin Reporting
        BY <2>2 DEF Count, Goto, TypeOK, Reporting
      <3>2. \A x \in Reporting' : tally'[x] <= completed'
        BY <3>1, <1>0 DEF ReportInv
      <3>3. completed' = NetCount => \E x \in Reporting' : tally'[x] = NetCount
        BY <3>1
      <3>4. lastReported' <= completed'
        BY <3>1, <1>0 DEF ReportInv
      <3> QED BY <3>1, <3>2, <3>3, <3>4 DEF ReportInv
    <2>3. CASE Report(w)
      <3>1. Reporting' = Reporting \ {w} /\ w \in Reporting /\ UNCHANGED <<completed, tally>>
        BY <2>3 DEF Report, Goto, TypeOK, Reporting
      <3>2. tally[w] <= completed /\ tally[w] \in Nat
        BY <3>1, <1>0 DEF ReportInv
      <3>3. CASE WorthReporting(tally[w])
        <4>1. lastReported' = tally[w] /\ printed' = Append(printed, tally[w]) /\ tally[w] > lastReported
          BY <2>3, <3>3 DEF Report, WorthReporting
        <4>2. /\ Len(printed') = Len(printed) + 1 /\ printed'[Len(printed) + 1] = tally[w]
              /\ \A i \in 1 .. Len(printed) : printed'[i] = printed[i]
              /\ Len(printed) \in Nat /\ (Len(printed) = 0 <=> printed = <<>>)
          BY <4>1, <3>2, <1>0, AppendProperties, EmptySeq, LenProperties
        <4>3. \A i \in 1 .. Len(printed') - 1 : printed'[i] < printed'[i + 1]
          <5> SUFFICES ASSUME NEW i \in 1 .. Len(printed') - 1 PROVE printed'[i] < printed'[i + 1]
            OBVIOUS
          <5>1. CASE i = Len(printed)
            <6>1. printed # <<>> /\ printed'[i] = lastReported
              BY <5>1, <4>2 DEF ReportInv
            <6> QED BY <6>1, <5>1, <4>1, <4>2, <3>2, <1>0
          <5>2. CASE i \in 1 .. Len(printed) - 1
            <6>1. i + 1 \in 1 .. Len(printed) /\ i \in 1 .. Len(printed)
              BY <5>2, <4>2
            <6> QED BY <6>1, <5>2, <4>2 DEF ReportInv
          <5> QED BY <5>1, <5>2, <4>2
        <4>4. \A x \in Reporting' : tally'[x] <= completed'
          BY <3>1 DEF ReportInv
        <4>5. completed' = NetCount =>
                 lastReported' = NetCount \/ \E x \in Reporting' : tally'[x] = NetCount
          BY <3>1, <3>2, <4>1, <1>0, PoolTypes DEF ReportInv
        <4>6. printed' # <<>> /\ printed'[Len(printed')] = lastReported'
          BY <4>1, <4>2, <1>0, <3>2
        <4> QED BY <4>1, <4>3, <4>4, <4>5, <4>6, <3>1, <3>2 DEF ReportInv
      <3>4. CASE ~WorthReporting(tally[w])
        <4>1. UNCHANGED <<lastReported, printed>>
          BY <2>3, <3>4 DEF Report
        <4>2. tally[w] = NetCount => lastReported >= NetCount
          BY <3>4, <3>2, <1>0, PoolTypes DEF WorthReporting
        <4>3. completed' = NetCount =>
                 lastReported' = NetCount \/ \E x \in Reporting' : tally'[x] = NetCount
          BY <3>1, <3>2, <4>1, <4>2, <1>0, PoolTypes DEF ReportInv
        <4> QED BY <3>1, <4>1, <4>3 DEF ReportInv
      <3> QED BY <3>3, <3>4
    <2> QED BY <1>4, <2>1, <2>2, <2>3 DEF Work
  <1>5. CASE UNCHANGED vars
    BY <1>5, <1>1 DEF vars, shared, local, Reporting
  <1> QED BY <1>2, <1>3, <1>4, <1>5 DEF Next, Call

-----------------------------------------------------------------------------
(* The invariant and what it says. *)

LEMMA PoolInvariant == Spec => []PoolInv
  <1>1. Init => PoolInv
    BY TypeInit, ClaimInit, CoverInit, ThreadInit, CountInit, ReportInit DEF PoolInv
  <1>2. PoolInv /\ [Next]_vars => PoolInv'
    BY TypeStep, ClaimStep, CoverStep, ThreadStep, CountStep, ReportStep DEF PoolInv
  <1> QED BY <1>1, <1>2, PTL DEF Spec

\* The state of the pool keeps its shape.
THEOREM PoolTypeCorrect == Spec => []TypeOK
  <1>1. PoolInv => TypeOK
    BY DEF PoolInv
  <1> QED BY <1>1, PoolInvariant, PTL

\* Workers that claim from the counter never share a net (route_all_nets_with_
\* workspace writes nets[net_index] without a lock).
THEOREM SlotsHaveOneWriter == Spec => []OneWriterPerNet
  <1>1. PoolInv => OneWriterPerNet
    BY DEF PoolInv, ClaimInv, OneWriterPerNet
  <1> QED BY <1>1, PoolInvariant, PTL

\* completed_nets agrees with the results stored.
THEOREM CounterMatches == Spec => []CountMatchesResults
  <1>1. PoolInv => CountMatchesResults
    BY DEF PoolInv, CountInv, Counting, CountMatchesResults
  <1> QED BY <1>1, PoolInvariant, PTL

\* When the call returns, nobody is on the way to an exception.
LEMMA ReturnedFacts ==
  PoolInv /\ main = "returned" => routed = Net /\ Counting = {} /\ Reporting = {}
  <1> SUFFICES ASSUME PoolInv, main = "returned"
               PROVE  routed = Net /\ Counting = {} /\ Reporting = {}
    OBVIOUS
  <1>1. \A w \in Worker : pc[w] = "exited"
    BY PoolTypes DEF PoolInv, ThreadInv, Joined, Worker
  <1>2. ~Failing
    BY <1>1 DEF Failing, PoolInv, ThreadInv
  <1>3. ~failed
    BY <1>2 DEF PoolInv, CoverInv
  <1>4. 1 \in Worker
    BY PoolTypes DEF Worker
  <1>5. nextNet >= NetCount
    BY <1>1, <1>2, <1>3, <1>4 DEF PoolInv, CoverInv
  <1>6. ASSUME NEW i \in Net PROVE i \in routed
    <2>1. i < nextNet
      BY <1>5, PoolTypes DEF Net, PoolInv, TypeOK
    <2> QED BY <2>1, <1>1, <1>2 DEF PoolInv, CoverInv
  <1>7. routed = Net
    BY <1>6 DEF PoolInv, TypeOK
  <1> QED BY <1>1, <1>7 DEF Counting, Reporting

\* A call that returns without an exception has routed every net, whatever
\* workers failed to start, threw or left early.
THEOREM NothingLost == Spec => []NoNetLost
  <1>1. PoolInv => NoNetLost
    BY ReturnedFacts DEF NoNetLost
  <1> QED BY <1>1, PoolInvariant, PTL

\* The call leaves after every thread it started.
THEOREM AllJoined == Spec => []ThreadsJoined
  <1>1. PoolInv => ThreadsJoined
    <2> SUFFICES ASSUME PoolInv, main \in {"returned", "threw"}, NEW w \in Worker
                 PROVE  pc[w] \in {"unborn", "exited"}
      BY DEF ThreadsJoined
    <2>1. spawned \in Nat /\ w \in Nat /\ w >= 1
      BY PoolTypes DEF PoolInv, TypeOK, Worker
    <2>2. CASE w > spawned
      BY <2>2 DEF PoolInv, ThreadInv
    <2>3. CASE w <= spawned
      <3>1. w \in 1 .. spawned
        BY <2>1, <2>3
      <3> QED BY <3>1 DEF PoolInv, ThreadInv, Joined
    <2> QED BY <2>1, <2>2, <2>3
  <1> QED BY <1>1, PoolInvariant, PTL

\* Reports are strictly increasing and end with the number of nets.
THEOREM ProgressCorrect == Spec => []ProgressForward
  <1>1. PoolInv => ProgressForward
    <2> SUFFICES ASSUME PoolInv, main = "returned"
                 PROVE  printed # <<>> /\ printed[Len(printed)] = NetCount
      BY DEF ProgressForward, PoolInv, ReportInv
    <2>1. Cardinality(routed) = NetCount /\ Cardinality(Counting) = 0 /\ Reporting = {}
      BY ReturnedFacts, FiniteSets, FS_EmptySet
    <2>2. completed = NetCount
      BY <2>1 DEF PoolInv, CountInv, TypeOK
    <2>3. lastReported = NetCount
      BY <2>1, <2>2 DEF PoolInv, ReportInv
    <2> QED BY <2>3, PoolTypes DEF PoolInv, ReportInv
  <1> QED BY <1>1, PoolInvariant, PTL

\* No step replaces a recorded exception.
THEOREM FirstErrorStays == Spec => FirstErrorKept
  <1>1. [Next]_vars => [firstError # NoError => firstError' = firstError]_vars
    BY DEF Next, Call, Spawn, SpawnFails, AllSpawned, Join, Unwind, Work, Setup, Test, Claim, Route,
           RouteThrows, Count, Report, Raise, Record, shared, local, vars
  <1> QED BY <1>1, PTL DEF Spec, FirstErrorKept
=============================================================================
