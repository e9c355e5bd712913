--------------------------- MODULE PublicationProofs ---------------------------
(***************************************************************************)
(* Theorems about the publication of artifacts, for any number of          *)
(* conversions, readers, paths and faults: markers keep conversions apart  *)
(* and half-published pairs out of sight, conversions that contend do not  *)
(* all give up, and readers see one register.                              *)
(***************************************************************************)
EXTENDS PublicationRefinement, TLAPS

-----------------------------------------------------------------------------
(* The inductive invariants of the conversions. *)

Step == {"check", "stage", "mark", "csr", "meta", "gen", "clear", "undo",
         "done", "kept", "failed", "crashed",
         "look", "sample", "look again", "compare", "load graph", "load metadata",
         "load routes", "route", "load output", "write"}

TypeInv ==
    /\ setup \in Setups
    /\ file \in [Path -> Content] /\ gen \in [Path -> PairId]
    /\ markers \subseteq Path /\ routes \in PairId \cup {Absent}
    /\ faults \in Nat
    /\ pc \in [Process -> Step] /\ todo \in [Process -> SUBSET Path]
    /\ exposed \in [Converter -> SUBSET Path] /\ stuck \subseteq Converter
    /\ stage \in [Reader -> {"open", "verify", "confirm", "recheck"}]
    /\ sampled \in [Reader -> PairId] /\ snap \in [Reader -> PairId]
    /\ csr \in [Reader -> Content \cup PairId]
    /\ meta \in [Reader -> Content] /\ out \in [Reader -> Content]

\* A file of w is in place.
HasFile(w) == \E p \in Path : file[p] = w

\* Where a conversion is with its markers and with the files it must withdraw.
Place(w) ==
    /\ todo[w] \subseteq Pair(w) /\ exposed[w] \subseteq Pair(w)
    /\ pc[w] \in {"check", "mark", "clear"} => todo[w] # {}
    /\ pc[w] = "stage" => todo[w] = Pair(w)
    /\ pc[w] = "mark" => \A p \in Pair(w) \ todo[w] : \A q \in todo[w] : p < q
    /\ exposed[w] # {} => pc[w] \in {"meta", "gen", "undo", "crashed"}
    /\ w \in stuck => pc[w] \in {"undo", "failed", "crashed"}
    /\ pc[w] = "undo" /\ (exposed[w] # {} \/ w \in stuck) => todo[w] = Pair(w)
    /\ \A p \in Path : file[p] = w =>
          /\ p \in Pair(w)
          /\ p \in exposed[w] \/ w \in stuck \/ pc[w] \in {"clear", "done", "kept"}

PlaceInv == \A w \in Converter : Place(w)

\* The marker beside p is w's: w owns it, or w ended with a file exposed and
\* nobody removes what it left.
Keeps(w, p) ==
    /\ p \in Pair(w)
    /\ \/ Publishing(w)
       \/ pc[w] = "mark" /\ p \notin todo[w]
       \/ pc[w] \in {"clear", "undo"} /\ p \in todo[w]
       \/ pc[w] \in {"failed", "crashed"} /\ ~setup.inspections /\ HasFile(w)

\* A marker that is kept exists, and belongs to one conversion.
MarkerInv ==
    \A w \in Converter : \A p \in Path :
        Keeps(w, p) => p \in markers /\ \A v \in Converter : Keeps(v, p) => v = w

\* Somebody publishes, has published, or has taken a marker at p or beyond.
Leads(w, p) == \/ pc[w] \in {"csr", "meta", "gen", "clear", "done"}
               \/ pc[w] = "mark" /\ \E q \in Pair(w) \ todo[w] : p <= q

\* Somebody has come to p.
Reach(p) == \E w \in Converter : Leads(w, p)

\* As long as no call fails every marker is kept, and whoever is turned away by
\* one leaves behind a conversion that holds a later marker or has them all.
ContendInv ==
    faults = 0 =>
        /\ stuck = {} /\ \A w \in Converter : pc[w] \notin {"kept", "crashed"}
        /\ \A p \in markers : Reach(p) /\ \E w \in Converter : Keeps(w, p)
        /\ (\E w \in Converter : pc[w] \in {"undo", "failed"}) => \E p \in Path : Reach(p)

-----------------------------------------------------------------------------
(* The inductive invariant of the readers. *)

\* Where a reader is, and that what it goes on with carries the identity it
\* sampled first.
Reads(r) ==
    /\ pc[r] \in {"load graph", "load metadata"} => stage[r] = "open"
    /\ pc[r] = "load routes" => stage[r] = "verify" /\ r \in Exporter
    /\ pc[r] = "load output" => stage[r] \in {"verify", "confirm"}
    /\ pc[r] = "route" => stage[r] = IF EarlyOutput(r) THEN "recheck" ELSE "verify"
    /\ pc[r] = "write" => stage[r] = "recheck"
    /\ pc[r] = "done" => stage[r] \in {"verify", "recheck"}
    /\ Progress(r) \in {"accepted", "confirmed", "wrote"}
          => Partner(r) = snap[r] /\ IdOf(meta[r]) = snap[r]
    /\ stage[r] = "recheck" /\ pc[r] \in {"route", "write", "done"}
          => IdOf(out[r]) = snap[r] /\ sampled[r] = snap[r]

ReaderInv == \A r \in Reader : Reads(r)

-----------------------------------------------------------------------------
(* Types and frames. *)

LEMMA SetupTypes ==
  ASSUME TypeInv, NEW x \in Process
  PROVE  /\ CsrOf[x] \in Path /\ MetaOf[x] \in Path /\ CsrOf[x] # MetaOf[x]
         /\ setup.faults \in Nat /\ setup.readers \subseteq Reader
  BY PublicationAssumption DEF TypeInv, CsrOf, MetaOf

\* A marker loop takes the least path that is left.
LEMMA FirstPath ==
  ASSUME NEW S \in SUBSET Nat, NEW a, NEW b, S \subseteq {a, b}, S # {}
  PROVE  LET p == CHOOSE p \in S : \A q \in S : p <= q
         IN  p \in S /\ \A q \in S : p <= q
  <1>1. \E p \in S : \A q \in S : p <= q
    <2>1. CASE a \in S /\ (b \in S => a <= b)
      BY <2>1
    <2>2. CASE b \in S /\ (a \in S => b <= a)
      BY <2>2
    <2>3. \A x, y \in S : x <= y \/ y <= x
      OBVIOUS
    <2> QED BY <2>1, <2>2, <2>3
  <1> QED BY <1>1

\* The marker taken next is the least of those not yet taken.
LEMMA FirstMarkerFacts ==
  ASSUME TypeInv, NEW w \in Converter, todo[w] \subseteq Pair(w), todo[w] # {}
  PROVE  /\ FirstMarker(w) \in todo[w] /\ FirstMarker(w) \in Path
         /\ \A q \in todo[w] : FirstMarker(w) <= q
  <1>1. todo[w] \in SUBSET Nat /\ todo[w] \subseteq {CsrOf[w], MetaOf[w]} /\ todo[w] \subseteq Path
    BY PublicationAssumption DEF TypeInv, Pair, Process
  <1> QED BY <1>1, FirstPath DEF FirstMarker

\* A step of x moves nobody else.
Moves(x) == \E l \in Step, T \in SUBSET Path :
                pc' = [pc EXCEPT ![x] = l] /\ todo' = [todo EXCEPT ![x] = T]

\* A conversion moves only its own program counter and markers to do.
LEMMA ConvertMoves ==
  ASSUME TypeInv, PlaceInv, NEW w \in Converter, Convert(w)
  PROVE  Moves(w)
  <1>0. /\ pc = [pc EXCEPT ![w] = pc[w]] /\ todo = [todo EXCEPT ![w] = todo[w]] /\ pc[w] \in Step
        /\ todo[w] \in SUBSET Path /\ Pair(w) \in SUBSET Path
    BY SetupTypes DEF TypeInv, Process, Pair
  <1>s. {"check", "stage", "mark", "csr", "meta", "gen", "clear", "undo",
         "done", "kept", "failed", "crashed"} \subseteq Step
    BY DEF Step
  <1>t. \A S \in SUBSET Path : \A p : S \ {p} \in SUBSET Path /\ Pair(w) \ S \in SUBSET Path
    BY <1>0
  <1>1. CASE Check(w)
    <2>1. CASE GraphFirst(w) \in markers
      BY <1>0, <1>s, <1>1, <2>1 DEF Check, Goto, Moves
    <2>2. CASE GraphFirst(w) \notin markers
      BY <1>0, <1>s, <1>t, <1>1, <2>2 DEF Check, Goto, Moves
    <2> QED BY <2>1, <2>2
  <1>2. CASE Stage(w)
    BY <1>0, <1>s, <1>2 DEF Stage, Goto, Moves
  <1>3. CASE Crash(w)
    BY <1>0, <1>s, <1>3 DEF Crash, Goto, Moves
  <1>4. CASE Mark(w)
    BY <1>0, <1>s, <1>t, <1>4 DEF Mark, Goto, Moves
  <1>5. CASE Unmark(w)
    BY <1>0, <1>t, <1>5 DEF Unmark, Moves
  <1>6. CASE Clear(w)
    BY <1>0, <1>s, <1>t, <1>6 DEF Clear, Goto, Moves
  <1>7. CASE MarkFails(w)
    BY <1>0, <1>s, <1>t, <1>7 DEF MarkFails, Goto, Moves
  <1>8. CASE RenameCsr(w) \/ RenameMetadata(w) \/ RenameGeneration(w) \/ RenameFails(w)
    BY <1>0, <1>s, <1>8 DEF RenameCsr, RenameMetadata, RenameGeneration, RenameFails, Goto, Moves
  <1>9. CASE Withdraw(w) \/ Undone(w)
    BY <1>0, <1>s, <1>9 DEF Withdraw, Undone, Goto, Moves
  <1> QED BY <1>1, <1>2, <1>3, <1>4, <1>5, <1>6, <1>7, <1>8, <1>9 DEF Convert

\* Conversions and readers change their own entries only.
LEMMA UseMoves ==
  ASSUME TypeInv, NEW r \in Reader, Use(r)
  PROVE  Moves(r) /\ UNCHANGED <<file, gen, markers, local>>
  <1>0. /\ pc = [pc EXCEPT ![r] = pc[r]] /\ todo = [todo EXCEPT ![r] = todo[r]] /\ pc[r] \in Step
        /\ todo[r] \in SUBSET Path /\ MarkerPaths(r) \in SUBSET Path
    BY SetupTypes DEF TypeInv, Process, Pair, MarkerPaths
  <1>s. {"done", "failed", "look", "sample", "look again", "compare", "load graph", "load metadata",
         "load routes", "route", "load output", "write"} \subseteq Step
    BY DEF Step
  <1>t. \A p : todo[r] \ {p} \in SUBSET Path
    BY <1>0
  <1>1. CASE ReadFails(r)
    BY <1>0, <1>s, <1>1 DEF ReadFails, Goto, Moves, disk
  <1>2. CASE Look(r)
    <2>1. UNCHANGED <<file, gen, markers, local>>
      BY <1>2 DEF Look, disk
    <2>2. CASE GraphFirst(r) \in markers
      BY <1>0, <1>s, <1>2, <2>1, <2>2 DEF Look, Goto, Moves
    <2>3. CASE GraphFirst(r) \notin markers
      BY <1>0, <1>s, <1>t, <1>2, <2>1, <2>3 DEF Look, Goto, Moves
    <2> QED BY <2>2, <2>3
  <1>3. CASE Sample(r)
    BY <1>0, <1>s, <1>3 DEF Sample, Goto, Moves, disk
  <1>4. CASE Compare(r)
    <2>1. stage[r] \in {"open", "verify", "confirm", "recheck"}
      BY DEF TypeInv
    <2>2. AfterStage(r) \in Step
      BY <1>s, <2>1 DEF AfterStage
    <2> QED BY <1>0, <1>s, <1>4, <2>2 DEF Compare, Goto, Moves, disk
  <1>5. CASE LoadGraph(r) \/ LoadMetadata(r)
    BY <1>0, <1>s, <1>5 DEF LoadGraph, LoadMetadata, Goto, Moves, disk
  <1>6. CASE LoadRoutes(r) \/ LoadOutput(r)
    BY <1>0, <1>s, <1>6 DEF LoadRoutes, LoadOutput, Goto, Moves, disk
  <1>7. CASE Route(r) \/ WriteRoutes(r)
    BY <1>0, <1>s, <1>7 DEF Route, WriteRoutes, Goto, Moves, disk
  <1> QED BY <1>1, <1>2, <1>3, <1>4, <1>5, <1>6, <1>7 DEF Use

\* The initial state is well typed.
LEMMA TypeInit == Init => TypeInv
  <1> SUFFICES ASSUME Init PROVE TypeInv
    OBVIOUS
  <1>1. setup \in Setups /\ \A x \in Process : CsrOf[x] \in Path /\ MetaOf[x] \in Path
    BY PublicationAssumption DEF Init, CsrOf, MetaOf
  <1>2. pc \in [Process -> Step] /\ todo \in [Process -> SUBSET Path]
    BY <1>1 DEF Init, Step, Pair
  <1>3. file \in [Path -> Content] /\ gen \in [Path -> PairId] /\ routes \in PairId \cup {Absent}
    BY PublicationAssumption DEF Init, Content, PairId
  <1>4. /\ stage \in [Reader -> {"open", "verify", "confirm", "recheck"}]
        /\ sampled \in [Reader -> PairId] /\ snap \in [Reader -> PairId]
        /\ csr \in [Reader -> Content \cup PairId]
        /\ meta \in [Reader -> Content] /\ out \in [Reader -> Content]
    BY DEF Init, Content, PairId
  <1> QED BY <1>1, <1>2, <1>3, <1>4 DEF Init, TypeInv

\* What remains of a type when nobody but x has moved.
LEMMA TypeMoves ==
  ASSUME TypeInv, NEW x \in Process, Moves(x)
  PROVE  pc' \in [Process -> Step] /\ todo' \in [Process -> SUBSET Path]
  BY DEF TypeInv, Moves

\* A conversion's step keeps the types.
LEMMA TypeConvert ==
  ASSUME TypeInv, PlaceInv, NEW w \in Converter, Convert(w), UNCHANGED setup
  PROVE  TypeInv'
  <1>0. /\ w \in Process /\ w \in PairId /\ w \in Content /\ Absent \in Content
        /\ CsrOf[w] \in Path /\ MetaOf[w] \in Path /\ Pair(w) \subseteq Path /\ todo[w] \subseteq Pair(w)
    BY SetupTypes DEF Process, PairId, Content, Pair, PlaceInv, Place
  <1>m. pc' \in [Process -> Step] /\ todo' \in [Process -> SUBSET Path]
    BY <1>0, ConvertMoves, TypeMoves
  <1> SUFFICES /\ file' \in [Path -> Content] /\ gen' \in [Path -> PairId]
               /\ markers' \subseteq Path /\ routes' = routes /\ faults' \in Nat
               /\ exposed' \in [Converter -> SUBSET Path] /\ stuck' \subseteq Converter
               /\ UNCHANGED read
    BY <1>m DEF TypeInv, read
  <1> USE <1>0
  <1>1. CASE Check(w) \/ Stage(w) \/ MarkFails(w) \/ RenameFails(w) \/ Undone(w) \/ Crash(w)
    BY <1>1 DEF Check, Stage, MarkFails, RenameFails, Undone, Crash, Fault, TypeInv, disk, local
  <1>2. CASE Mark(w) \/ Unmark(w) \/ Clear(w)
    <2>1. FirstMarker(w) \in Path
      <3>1. todo[w] # {}
        BY <1>2 DEF Mark, Unmark, Clear, PlaceInv, Place
      <3> QED BY <3>1, FirstMarkerFacts
    <2>2. markers' \subseteq markers \cup {FirstMarker(w)} /\ faults' \in Nat /\ routes' = routes
          /\ UNCHANGED <<file, gen, local, read>>
      BY <1>2 DEF Mark, Unmark, Clear, Fault, TypeInv
    <2> QED BY <2>1, <2>2 DEF TypeInv, local
  <1>3. CASE RenameCsr(w) \/ RenameMetadata(w) \/ RenameGeneration(w)
    BY <1>3 DEF RenameCsr, RenameMetadata, RenameGeneration, TypeInv
  <1>4. CASE Withdraw(w)
    <2>1. \E p \in Path : exposed' = [exposed EXCEPT ![w] = @ \ {p}] /\ file' \in {file, [file EXCEPT ![p] = Absent]}
      BY <1>4 DEF Withdraw
    <2>2. exposed' \in [Converter -> SUBSET Path] /\ file' \in [Path -> Content]
      BY <2>1 DEF TypeInv
    <2> QED BY <1>4, <2>2 DEF Withdraw, Fault, TypeInv
  <1> QED BY <1>1, <1>2, <1>3, <1>4 DEF Convert

\* A reader's step keeps the types.
LEMMA TypeUse ==
  ASSUME TypeInv, NEW r \in Reader, Use(r), UNCHANGED setup
  PROVE  TypeInv'
  <1>0. /\ r \in Process /\ CsrOf[r] \in Path /\ MetaOf[r] \in Path
        /\ \A c \in Content : IdOf(c) \in PairId \cup {Absent}
        /\ \A p \in Path : file[p] \in Content /\ gen[p] \in PairId
    BY SetupTypes DEF Process, PairId, Content, IdOf, TypeInv
  <1>m. /\ pc' \in [Process -> Step] /\ todo' \in [Process -> SUBSET Path]
        /\ UNCHANGED <<file, gen, markers, exposed, stuck>>
    BY <1>0, UseMoves, TypeMoves DEF local
  <1> SUFFICES /\ routes' \in PairId \cup {Absent} /\ faults' \in Nat
               /\ stage' \in [Reader -> {"open", "verify", "confirm", "recheck"}]
               /\ sampled' \in [Reader -> PairId] /\ snap' \in [Reader -> PairId]
               /\ csr' \in [Reader -> Content \cup PairId]
               /\ meta' \in [Reader -> Content] /\ out' \in [Reader -> Content]
    BY <1>m DEF TypeInv
  <1> USE <1>0
  <1>1. CASE ReadFails(r) \/ Look(r) \/ Compare(r)
    <2>1. UNCHANGED <<routes, read>> /\ faults' \in {faults, faults + 1}
      BY <1>1 DEF ReadFails, Look, Compare, Fault, disk
    <2> QED BY <2>1 DEF TypeInv, read
  <1>2. CASE Sample(r)
    BY <1>2 DEF Sample, TypeInv, disk
  <1>3. CASE LoadGraph(r) \/ LoadMetadata(r) \/ LoadRoutes(r) \/ LoadOutput(r)
    BY <1>3 DEF LoadGraph, LoadMetadata, LoadRoutes, LoadOutput, TypeInv, Content, disk
  <1>4. CASE Route(r) \/ WriteRoutes(r)
    BY <1>4 DEF Route, WriteRoutes, TypeInv, disk, read
  <1> QED BY <1>1, <1>2, <1>3, <1>4 DEF Use
-----------------------------------------------------------------------------
(* The conversions. *)

\* What a conversion does to another one: it may rename over a file of it.
LEMMA ConvertFrame ==
  ASSUME TypeInv, PlaceInv, NEW w \in Converter, Convert(w), UNCHANGED setup,
         NEW v \in Converter, v # w
  PROVE  /\ pc'[v] = pc[v] /\ todo'[v] = todo[v] /\ exposed'[v] = exposed[v]
         /\ (v \in stuck' <=> v \in stuck) /\ Pair(v)' = Pair(v)
         /\ \A p \in Path : file'[p] = v => file[p] = v
  <1>1. pc'[v] = pc[v] /\ todo'[v] = todo[v]
    BY ConvertMoves DEF Moves, TypeInv, Process
  <1>2. Pair(v)' = Pair(v)
    BY DEF Pair, CsrOf, MetaOf
  <1>3. w \in Process /\ v \in Process /\ v # Absent /\ CsrOf[w] \in Path /\ MetaOf[w] \in Path
    BY SetupTypes, PublicationAssumption DEF Process
  <1>4. CASE Check(w) \/ Stage(w) \/ MarkFails(w) \/ RenameFails(w) \/ Undone(w) \/ Crash(w)
    BY <1>1, <1>2, <1>4 DEF Check, Stage, MarkFails, RenameFails, Undone, Crash, disk, local
  <1>5. CASE Mark(w) \/ Unmark(w) \/ Clear(w)
    BY <1>1, <1>2, <1>5 DEF Mark, Unmark, Clear, local
  <1>6. CASE RenameCsr(w) \/ RenameMetadata(w) \/ RenameGeneration(w)
    BY <1>1, <1>2, <1>3, <1>6 DEF RenameCsr, RenameMetadata, RenameGeneration, TypeInv
  <1>7. CASE Withdraw(w)
    <2>1. \E p \in Path : exposed' = [exposed EXCEPT ![w] = @ \ {p}] /\ file' \in {file, [file EXCEPT ![p] = Absent]}
      BY <1>3, <1>7 DEF Withdraw
    <2>2. exposed'[v] = exposed[v] /\ \A p \in Path : file'[p] = v => file[p] = v
      BY <1>3, <2>1 DEF TypeInv
    <2>3. v \in stuck' <=> v \in stuck
      BY <1>7 DEF Withdraw
    <2> QED BY <1>1, <1>2, <2>2, <2>3
  <1> QED BY <1>4, <1>5, <1>6, <1>7 DEF Convert

\* Readers and inspections do nothing to a conversion.
LEMMA IdleFrame ==
  ASSUME TypeInv, UNCHANGED setup, Inspect \/ (\E r \in Reader : Use(r)) \/ UNCHANGED vars
  PROVE  /\ UNCHANGED <<file, gen, exposed, stuck>>
         /\ \A v \in Converter : pc'[v] = pc[v] /\ todo'[v] = todo[v] /\ Pair(v)' = Pair(v)
         /\ Inspect \/ UNCHANGED markers
  <1>1. \A v \in Converter : Pair(v)' = Pair(v)
    BY DEF Pair, CsrOf, MetaOf
  <1>2. CASE Inspect \/ UNCHANGED vars
    BY <1>1, <1>2 DEF Inspect, vars, disk, local
  <1>3. ASSUME NEW r \in Reader, Use(r)
        PROVE  /\ UNCHANGED <<file, gen, markers, exposed, stuck>>
               /\ \A v \in Converter : pc'[v] = pc[v] /\ todo'[v] = todo[v]
    <2>1. Moves(r) /\ UNCHANGED <<file, gen, markers, local>>
      BY <1>3, UseMoves
    <2>2. r \notin Converter /\ r \in Process /\ \A v \in Converter : v \in Process
      BY PublicationAssumption DEF Reader, Process
    <2> QED BY <2>1, <2>2 DEF Moves, TypeInv, local
  <1> QED BY <1>1, <1>2, <1>3

\* Nobody has a marker or an exposed file at the start.
LEMMA PlaceInit == Init => PlaceInv
  <1> SUFFICES ASSUME Init, NEW w \in Converter PROVE Place(w)
    BY DEF PlaceInv
  <1>1. w \in Process /\ w \notin Exporter /\ todo[w] = Pair(w) /\ pc[w] = "check"
    BY PublicationAssumption DEF Init, Process, Reader
  <1>2. w \notin {Absent, Legacy} /\ InitialFile \in {Absent, Legacy}
    BY PublicationAssumption
  <1>3. \A p \in Path : file[p] # w
    BY <1>2 DEF Init
  <1> QED BY <1>1, <1>3 DEF Init, Place, Pair

\* A conversion's own step keeps the account of its markers and files.
LEMMA PlaceSelf ==
  ASSUME TypeInv, PlaceInv, NEW w \in Converter, Convert(w), UNCHANGED setup
  PROVE  Place(w)'
  <1>0. /\ w \in Process /\ w # Absent /\ CsrOf[w] \in Path /\ MetaOf[w] \in Path /\ Place(w)
        /\ Pair(w)' = Pair(w) /\ CsrOf[w] \in Pair(w) /\ MetaOf[w] \in Pair(w)
    BY SetupTypes, PublicationAssumption DEF PlaceInv, Process, Pair, CsrOf, MetaOf
  <1>1. CASE Check(w)
    <2>1. UNCHANGED <<file, exposed, stuck>> /\ pc[w] = "check"
      BY <1>1 DEF Check, disk, local
    <2>2. \/ pc'[w] = "failed" /\ todo'[w] = todo[w]
          \/ pc'[w] = "check" /\ todo'[w] # {} /\ todo'[w] \subseteq todo[w]
          \/ pc'[w] = "stage" /\ todo'[w] = Pair(w)
      <3>1. CASE GraphFirst(w) \in markers
        BY <1>0, <1>1, <3>1 DEF Check, Goto, TypeInv
      <3>2. CASE GraphFirst(w) \notin markers
        BY <1>0, <1>1, <3>2 DEF Check, Goto, TypeInv
      <3> QED BY <3>1, <3>2
    <2> QED BY <1>0, <2>1, <2>2 DEF Place
  <1>2. CASE Stage(w)
    <2>1. UNCHANGED <<file, exposed, stuck, todo>> /\ pc[w] = "stage" /\ pc'[w] \in {"mark", "failed"}
      BY <1>0, <1>2 DEF Stage, Goto, TypeInv, disk, local
    <2> QED BY <1>0, <2>1 DEF Place, Pair
  <1>3. CASE Mark(w)
    <2>1. /\ UNCHANGED <<file, exposed, stuck>> /\ pc[w] = "mark" /\ todo'[w] \subseteq todo[w]
          /\ pc'[w] = IF todo'[w] = {} THEN "csr" ELSE "mark"
          /\ todo'[w] = todo[w] \ {FirstMarker(w)}
      BY <1>0, <1>3 DEF Mark, Goto, TypeInv, local
    <2>2. todo[w] \in SUBSET Nat /\ \A q \in todo[w] : FirstMarker(w) <= q
      BY <1>0, <2>1, FirstMarkerFacts, PublicationAssumption DEF Place, TypeInv
    <2>3. FirstMarker(w) \in Nat
      BY <1>0, <2>1, FirstMarkerFacts, PublicationAssumption DEF Place
    <2>4. \A q \in Pair(w) \ todo'[w] : \A r \in todo'[w] : q < r
      BY <1>0, <2>1, <2>2, <2>3 DEF Place
    <2> QED BY <1>0, <2>1, <2>4 DEF Place
  <1>4. CASE MarkFails(w)
    <2>1. /\ UNCHANGED <<file, exposed, stuck>> /\ pc[w] = "mark" /\ todo'[w] \subseteq Pair(w)
          /\ pc'[w] = "undo"
      BY <1>0, <1>4 DEF MarkFails, Goto, TypeInv, disk, local
    <2> QED BY <1>0, <2>1 DEF Place
  <1>5. CASE RenameCsr(w)
    <2>1. /\ UNCHANGED <<todo, stuck>> /\ pc[w] = "csr" /\ pc'[w] = "meta" /\ exposed'[w] = {CsrOf[w]}
          /\ \A p \in Path : file'[p] = w => file[p] = w \/ p = CsrOf[w]
      BY <1>0, <1>5 DEF RenameCsr, Goto, TypeInv
    <2> QED BY <1>0, <2>1 DEF Place
  <1>6. CASE RenameMetadata(w)
    <2>1. /\ UNCHANGED <<todo, stuck>> /\ pc[w] = "meta" /\ pc'[w] = "gen" /\ exposed'[w] = Pair(w)
          /\ \A p \in Path : file'[p] = w => file[p] = w \/ p = MetaOf[w]
      BY <1>0, <1>6 DEF RenameMetadata, Goto, TypeInv
    <2> QED BY <1>0, <2>1 DEF Place
  <1>7. CASE RenameGeneration(w)
    <2>1. /\ UNCHANGED <<file, stuck>> /\ pc[w] = "gen" /\ pc'[w] = "clear" /\ exposed'[w] = {}
          /\ todo'[w] = Pair(w)
      BY <1>0, <1>7 DEF RenameGeneration, Goto, TypeInv
    <2> QED BY <1>0, <2>1 DEF Place
  <1>8. CASE RenameFails(w)
    <2>1. /\ UNCHANGED <<file, exposed, stuck>> /\ pc[w] \in {"csr", "meta", "gen"} /\ pc'[w] = "undo"
          /\ todo'[w] = Pair(w)
      BY <1>0, <1>8 DEF RenameFails, Goto, TypeInv, disk, local
    <2> QED BY <1>0, <2>1 DEF Place
  <1>9. CASE Clear(w)
    <2>1. /\ UNCHANGED <<file, exposed, stuck>> /\ pc[w] = "clear" /\ todo'[w] \subseteq todo[w]
          /\ pc'[w] \in {"clear", "done", "kept"} /\ (pc'[w] = "clear" => todo'[w] # {})
      BY <1>0, <1>9 DEF Clear, Goto, TypeInv, local
    <2> QED BY <1>0, <2>1 DEF Place
  <1>10. CASE Withdraw(w)
    <2> DEFINE p == IF CsrOf[w] \in exposed[w] THEN CsrOf[w] ELSE MetaOf[w]
    <2>1. /\ UNCHANGED <<pc, todo>> /\ pc[w] = "undo" /\ exposed[w] # {} /\ p \in Path
          /\ exposed' = [exposed EXCEPT ![w] = @ \ {p}]
          /\ \/ file' = [file EXCEPT ![p] = Absent] /\ UNCHANGED stuck
             \/ stuck' = stuck \cup {w} /\ UNCHANGED file
      BY <1>0, <1>10 DEF Withdraw
    <2> HIDE DEF p
    <2>2. exposed'[w] = exposed[w] \ {p}
      BY <2>1 DEF TypeInv
    <2>3. \A q \in Path : file'[q] = w => file[q] = w /\ (q # p \/ w \in stuck')
      BY <1>0, <2>1 DEF TypeInv
    <2>4. w \in stuck => w \in stuck'
      BY <2>1
    <2> QED BY <1>0, <2>1, <2>2, <2>3, <2>4 DEF Place
  <1>11. CASE Unmark(w)
    <2>1. /\ UNCHANGED <<file, exposed, stuck, pc>> /\ pc[w] = "undo" /\ exposed[w] = {} /\ w \notin stuck
          /\ todo'[w] \subseteq todo[w]
      BY <1>0, <1>11 DEF Unmark, KeepsMarkers, TypeInv, local
    <2> QED BY <1>0, <2>1 DEF Place
  <1>12. CASE Undone(w) \/ Crash(w)
    <2>1. /\ UNCHANGED <<file, exposed, stuck, todo>> /\ pc[w] \notin Over
          /\ \/ pc[w] = "undo" /\ pc'[w] = "failed" /\ exposed[w] = {}
             \/ pc'[w] = IF pc[w] = "clear" THEN "kept" ELSE "crashed"
      BY <1>0, <1>12 DEF Undone, Crash, Goto, TypeInv, disk, local, Over
    <2> QED BY <1>0, <2>1 DEF Place, Over
  <1> QED BY <1>1, <1>2, <1>3, <1>4, <1>5, <1>6, <1>7, <1>8, <1>9, <1>10, <1>11, <1>12 DEF Convert

\* A step is one of a conversion, or leaves all conversions where they are.
LEMMA StepCases ==
  ASSUME TypeInv, [Next]_vars
  PROVE  /\ UNCHANGED setup
         /\ \/ \E w \in Converter : Convert(w)
            \/ Inspect \/ (\E r \in Reader : Use(r)) \/ UNCHANGED vars
  <1>1. setup.readers \subseteq Reader
    BY PublicationAssumption DEF TypeInv
  <1> QED BY <1>1 DEF Next, vars

\* Every step keeps the types.
LEMMA TypeStep == TypeInv /\ PlaceInv /\ [Next]_vars => TypeInv'
  <1> SUFFICES ASSUME TypeInv, PlaceInv, [Next]_vars PROVE TypeInv'
    OBVIOUS
  <1>1. UNCHANGED setup
    BY StepCases
  <1>2. ASSUME NEW w \in Converter, Convert(w) PROVE TypeInv'
    BY <1>1, <1>2, TypeConvert
  <1>3. ASSUME NEW r \in Reader, Use(r) PROVE TypeInv'
    BY <1>1, <1>3, TypeUse
  <1>4. CASE Inspect
    BY <1>1, <1>4 DEF Inspect, TypeInv, local, read
  <1>5. CASE UNCHANGED vars
    BY <1>5 DEF vars, disk, local, read, TypeInv
  <1> QED BY <1>2, <1>3, <1>4, <1>5, StepCases

\* Every step keeps every conversion's account of its markers and files:
\* nobody else writes a file with its identity.
LEMMA PlaceStep == TypeInv /\ PlaceInv /\ [Next]_vars => PlaceInv'
  <1> SUFFICES ASSUME TypeInv, PlaceInv, [Next]_vars, NEW v \in Converter PROVE Place(v)'
    BY DEF PlaceInv
  <1>0. UNCHANGED setup /\ Place(v)
    BY StepCases DEF PlaceInv
  <1>1. ASSUME NEW w \in Converter, Convert(w), v # w PROVE Place(v)'
    BY <1>0, <1>1, ConvertFrame DEF Place
  <1>2. CASE Inspect \/ (\E r \in Reader : Use(r)) \/ UNCHANGED vars
    BY <1>0, <1>2, IdleFrame DEF Place
  <1> QED BY <1>0, <1>1, <1>2, PlaceSelf, StepCases
-----------------------------------------------------------------------------
(* Markers. *)

\* A conversion comes to keep a marker by creating it, and removes only those
\* it keeps.
LEMMA KeepsSelf ==
  ASSUME TypeInv, PlaceInv, NEW w \in Converter, Convert(w), UNCHANGED setup, NEW p \in Path
  PROVE  /\ Keeps(w, p)' => Keeps(w, p) \/ (p \notin markers /\ p \in markers')
         /\ p \in markers \ markers' => Keeps(w, p) /\ ~Keeps(w, p)'
         /\ p \in markers' \ markers => Keeps(w, p)' /\ Leads(w, p)'
  <1>0. /\ w \in Process /\ Place(w) /\ Pair(w)' = Pair(w) /\ p \in Nat /\ setup' = setup
    BY PublicationAssumption DEF TypeInv, PlaceInv, Process, Pair, CsrOf, MetaOf
  <1>1. CASE Check(w)
    <2>1. UNCHANGED <<file, markers>> /\ pc[w] = "check" /\ ~HasFile(w) /\ pc'[w] \in {"failed", "check", "stage"}
      BY <1>0, <1>1 DEF Check, Goto, TypeInv, Place, HasFile, disk
    <2>2. ~HasFile(w)'
      BY <2>1 DEF HasFile
    <2> QED BY <1>0, <2>1, <2>2 DEF Keeps, Publishing
  <1>2. CASE Stage(w)
    <2>1. /\ UNCHANGED <<file, markers, todo>> /\ ~HasFile(w) /\ pc'[w] \in {"failed", "mark"}
          /\ todo[w] = Pair(w)
      BY <1>0, <1>2 DEF Stage, Goto, TypeInv, Place, HasFile, disk
    <2>2. ~HasFile(w)'
      BY <2>1 DEF HasFile
    <2> QED BY <1>0, <2>1, <2>2 DEF Keeps, Publishing
  <1>3. CASE Mark(w)
    <2>1. /\ pc[w] = "mark" /\ pc'[w] = IF todo'[w] = {} THEN "csr" ELSE "mark"
          /\ todo'[w] = todo[w] \ {FirstMarker(w)}
          /\ markers' = markers \cup {FirstMarker(w)} /\ FirstMarker(w) \notin markers
      BY <1>0, <1>3 DEF Mark, Goto, TypeInv, Taken
    <2>2. FirstMarker(w) \in todo[w] /\ todo[w] \subseteq Pair(w)
      BY <1>0, <2>1, FirstMarkerFacts DEF Place
    <2>3. p \in markers' \ markers => Keeps(w, p)' /\ Leads(w, p)'
      <3> SUFFICES ASSUME p = FirstMarker(w) PROVE Keeps(w, p)' /\ Leads(w, p)'
        BY <2>1
      <3>1. p \in Pair(w)' /\ p \notin todo'[w] /\ p <= p
        BY <1>0, <2>1, <2>2
      <3> QED BY <2>1, <3>1 DEF Keeps, Publishing, Leads
    <2> QED BY <1>0, <2>1, <2>2, <2>3 DEF Keeps, Publishing
  <1>4. CASE MarkFails(w)
    <2>1. /\ UNCHANGED markers /\ pc[w] = "mark" /\ pc'[w] = "undo" /\ todo'[w] = Pair(w) \ todo[w]
      BY <1>0, <1>4 DEF MarkFails, Goto, TypeInv, disk
    <2> QED BY <1>0, <2>1 DEF Keeps, Publishing
  <1>5. CASE RenameGeneration(w) \/ RenameFails(w)
    <2>1. /\ UNCHANGED markers /\ Publishing(w) /\ pc'[w] \in {"undo", "clear"}
      BY <1>0, <1>5 DEF RenameGeneration, RenameFails, Publishing, Goto, TypeInv, disk
    <2> QED BY <1>0, <2>1 DEF Keeps, Publishing
  <1>6. CASE Clear(w)
    <2>1. /\ pc[w] = "clear" /\ FirstMarker(w) \in todo[w] /\ todo[w] \subseteq Pair(w)
      BY <1>0, <1>6, FirstMarkerFacts DEF Clear, Place
    <2>2. \/ /\ markers' = markers \ {FirstMarker(w)} /\ todo'[w] = todo[w] \ {FirstMarker(w)}
             /\ pc'[w] \in {"done", "clear"}
          \/ UNCHANGED markers /\ pc'[w] = "kept"
      BY <1>0, <1>6 DEF Clear, Goto, TypeInv
    <2> QED BY <1>0, <2>1, <2>2 DEF Keeps, Publishing
  <1>7. CASE Unmark(w)
    <2>1. /\ pc[w] = "undo" /\ FirstMarker(w) \in todo[w] /\ UNCHANGED pc
          /\ todo'[w] = todo[w] \ {FirstMarker(w)} /\ todo[w] \subseteq Pair(w)
          /\ markers' = markers \ {FirstMarker(w)} \/ UNCHANGED markers
      BY <1>0, <1>7, FirstMarkerFacts DEF Unmark, Place, TypeInv
    <2> QED BY <1>0, <2>1 DEF Keeps, Publishing
  <1>8. CASE Undone(w) \/ Crash(w)
    <2>1. UNCHANGED <<file, markers, todo>> /\ pc[w] \notin Over /\ pc[w] \in Step /\ pc'[w] \in Over
      BY <1>0, <1>8 DEF Undone, Crash, Goto, TypeInv, disk, Over
    <2>2. pc'[w] \in {"failed", "crashed"} => pc[w] # "clear"
      BY <1>0, <1>8 DEF Undone, Crash, Goto, TypeInv
    <2>3. HasFile(w)' => HasFile(w)
      BY <2>1 DEF HasFile
    <2>4. HasFile(w) /\ pc[w] # "clear" => Publishing(w) \/ (pc[w] = "undo" /\ todo[w] = Pair(w))
      BY <1>0, <2>1 DEF HasFile, Place, Publishing, Over
    <2>5. Keeps(w, p)' => Keeps(w, p)
      BY <1>0, <2>1, <2>2, <2>3, <2>4 DEF Keeps, Publishing, Over
    <2> QED BY <2>1, <2>5
  <1>9. CASE Withdraw(w)
    <2>1. UNCHANGED <<markers, todo, pc>> /\ pc[w] = "undo"
      BY <1>9 DEF Withdraw
    <2> QED BY <1>0, <2>1 DEF Keeps, Publishing
  <1>10. CASE RenameCsr(w) \/ RenameMetadata(w)
    <2>1. UNCHANGED markers /\ Publishing(w) /\ Publishing(w)'
      BY <1>0, <1>10 DEF RenameCsr, RenameMetadata, Publishing, Goto, TypeInv
    <2> QED BY <1>0, <2>1 DEF Keeps
  <1> QED BY <1>1, <1>2, <1>3, <1>4, <1>5, <1>6, <1>7, <1>8, <1>9, <1>10 DEF Convert

\* Nobody comes to keep a marker by what another conversion does.
LEMMA KeepsFrame ==
  ASSUME TypeInv, PlaceInv, NEW w \in Converter, Convert(w), UNCHANGED setup,
         NEW v \in Converter, v # w, NEW p \in Path
  PROVE  /\ Keeps(v, p)' => Keeps(v, p)
         /\ Leads(v, p)' <=> Leads(v, p)
         /\ pc[v] \notin {"failed", "crashed"} => (Keeps(v, p)' <=> Keeps(v, p))
  <1>1. pc'[v] = pc[v] /\ todo'[v] = todo[v] /\ Pair(v)' = Pair(v) /\ setup' = setup
    BY ConvertFrame
  <1>2. HasFile(v)' => HasFile(v)
    BY ConvertFrame DEF HasFile
  <1> QED BY <1>1, <1>2 DEF Keeps, Publishing, Leads

\* Every step keeps kept markers in place and with one owner: a marker is
\* taken only where there is none, and removed by its owner or by a person once
\* nobody keeps it.
LEMMA MarkerStep == TypeInv /\ PlaceInv /\ MarkerInv /\ [Next]_vars => MarkerInv'
  <1> SUFFICES ASSUME TypeInv, PlaceInv, MarkerInv, [Next]_vars,
                      NEW v \in Converter, NEW p \in Path, Keeps(v, p)'
               PROVE  p \in markers' /\ \A x \in Converter : Keeps(x, p)' => x = v
    BY DEF MarkerInv
  <1>0. UNCHANGED setup
    BY StepCases
  <1>1. ASSUME NEW w \in Converter, Convert(w)
        PROVE  p \in markers' /\ \A x \in Converter : Keeps(x, p)' => x = v
    <2>1. \A x \in Converter : x # w /\ Keeps(x, p)' => Keeps(x, p) /\ p \in markers /\ ~Keeps(w, p)
      BY <1>0, <1>1, KeepsFrame DEF MarkerInv
    <2>2. \A x \in Converter : x # w /\ Keeps(x, p)' => ~Keeps(w, p)'
      BY <1>0, <1>1, <2>1, KeepsSelf
    <2>3. CASE v = w
      <3>1. p \in markers'
        BY <1>0, <1>1, <2>3, KeepsSelf DEF MarkerInv
      <3> QED BY <2>2, <2>3, <3>1
    <2>4. CASE v # w
      <3>1. p \in markers'
        BY <1>0, <1>1, <2>1, <2>4, KeepsSelf
      <3>2. \A x \in Converter : Keeps(x, p)' => x = v
        BY <2>1, <2>2, <2>4 DEF MarkerInv
      <3> QED BY <3>1, <3>2
    <2> QED BY <2>3, <2>4
  <1>2. CASE Inspect \/ (\E r \in Reader : Use(r)) \/ UNCHANGED vars
    <2>0. \A x \in Converter : HasFile(x)' <=> HasFile(x)
      BY <1>0, <1>2, IdleFrame DEF HasFile
    <2>1. \A x \in Converter : Keeps(x, p)' <=> Keeps(x, p)
      BY <1>0, <1>2, <2>0, IdleFrame DEF Keeps, Publishing
    <2>2. p \in markers /\ \A x \in Converter : Keeps(x, p)' => x = v
      BY <2>1 DEF MarkerInv
    <2>3. ASSUME Inspect PROVE p \in markers'
      <3>1. Owned(p)
        BY <2>1, <2>3 DEF Inspect, Keeps, Owned
      <3> QED BY <2>2, <2>3, <3>1 DEF Inspect
    <2> QED BY <1>0, <1>2, <2>2, <2>3, IdleFrame
  <1> QED BY <1>1, <1>2, StepCases

\* Nobody keeps a marker at the start.
LEMMA MarkerInit == Init => MarkerInv
  <1> SUFFICES ASSUME Init, NEW w \in Converter, NEW p \in Path, Keeps(w, p) PROVE FALSE
    BY DEF MarkerInv
  <1>1. w \in Process
    BY DEF Process
  <1> QED BY <1>1 DEF Init, Keeps, Publishing
-----------------------------------------------------------------------------
(* Contention. *)

\* Faults are only counted up.
LEMMA FaultsCount ==
  ASSUME TypeInv, [Next]_vars, faults' = 0
  PROVE  faults = 0
  <1>0. faults \in Nat
    BY DEF TypeInv
  <1>1. ASSUME NEW w \in Converter, Convert(w) PROVE faults' \in {faults, faults + 1}
    BY <1>1 DEF Convert, Check, Stage, Mark, MarkFails, RenameCsr, RenameMetadata, RenameGeneration,
                RenameFails, Clear, Withdraw, Unmark, Undone, Crash, Fault
  <1>2. ASSUME NEW r \in Reader, Use(r) PROVE faults' \in {faults, faults + 1}
    BY <1>2 DEF Use, ReadFails, Look, Sample, Compare, LoadGraph, LoadMetadata, LoadRoutes, Route,
                LoadOutput, WriteRoutes, Fault
  <1>3. CASE Inspect \/ UNCHANGED vars
    BY <1>3 DEF Inspect, vars
  <1> QED BY <1>0, <1>1, <1>2, <1>3, StepCases

\* The state while no call has failed.
Contending == TypeInv /\ PlaceInv /\ MarkerInv /\ ContendInv /\ faults = 0

\* A conversion that stops leading to p met the marker of another one that does.
LEMMA LeadsSelf ==
  ASSUME Contending, NEW w \in Converter, Convert(w), UNCHANGED setup, faults' = 0,
         NEW p \in Path, Leads(w, p), ~Leads(w, p)'
  PROVE  \E r \in markers : p <= r /\ ~Leads(w, r)
  <1>0. w \in Process /\ Place(w) /\ TypeInv /\ Pair(w)' = Pair(w) /\ faults = 0
    BY DEF Contending, PlaceInv, Process, Pair, CsrOf, MetaOf
  <1>f. ~Fault
    BY <1>0 DEF Fault
  <1>1. CASE Check(w) \/ Stage(w) \/ Withdraw(w) \/ Unmark(w) \/ Undone(w) \/ Crash(w) \/ RenameFails(w)
    BY <1>1, <1>f DEF Check, Stage, Withdraw, Unmark, Undone, Crash, RenameFails, Leads
  <1>2. CASE RenameCsr(w) \/ RenameMetadata(w) \/ RenameGeneration(w)
    BY <1>0, <1>2 DEF RenameCsr, RenameMetadata, RenameGeneration, Goto, TypeInv, Leads
  <1>3. CASE Mark(w)
    <2>1. /\ pc[w] = "mark" /\ pc'[w] \in {"csr", "mark"}
          /\ todo'[w] = todo[w] \ {FirstMarker(w)}
      BY <1>0, <1>3 DEF Mark, Goto, TypeInv
    <2>2. PICK q \in Pair(w) \ todo[w] : p <= q
      BY <2>1 DEF Leads
    <2>3. q \in Pair(w)' \ todo'[w]
      BY <1>0, <2>1
    <2> QED BY <2>1, <2>2, <2>3 DEF Leads
  <1>4. CASE Clear(w)
    <2>1. pc[w] = "clear" /\ FirstMarker(w) \in todo[w] /\ FirstMarker(w) \in Path /\ todo[w] \subseteq Pair(w)
      BY <1>0, <1>4, FirstMarkerFacts DEF Clear, Place
    <2>2. FirstMarker(w) \in markers
      BY <2>1 DEF Contending, MarkerInv, Keeps
    <2>3. pc'[w] \in {"clear", "done"}
      BY <1>0, <1>4, <1>f, <2>2 DEF Clear, Goto, TypeInv
    <2> QED BY <2>3 DEF Leads
  <1>5. CASE MarkFails(w)
    <2>1. pc[w] = "mark" /\ FirstMarker(w) \in todo[w] /\ FirstMarker(w) \in markers
      BY <1>0, <1>5, <1>f, FirstMarkerFacts DEF MarkFails, Taken, Place
    <2>2. PICK q \in Pair(w) \ todo[w] : p <= q
      BY <2>1 DEF Leads
    <2>3. \A x \in Pair(w) \ todo[w] : x < FirstMarker(w)
      BY <1>0, <2>1 DEF Place
    <2>4. Pair(w) \subseteq Nat /\ FirstMarker(w) \in Nat /\ p \in Nat
      BY <1>0, <2>1, PublicationAssumption, SetupTypes DEF Pair, TypeInv
    <2>5. p <= FirstMarker(w) /\ ~Leads(w, FirstMarker(w))
      BY <2>1, <2>2, <2>3, <2>4 DEF Leads
    <2> QED BY <2>1, <2>5
  <1> QED BY <1>1, <1>2, <1>3, <1>4, <1>5 DEF Convert

\* Who has taken a marker at r has taken one at or beyond any earlier path.
LEMMA LeadsDown ==
  ASSUME TypeInv, NEW w \in Converter, NEW p \in Path, NEW r \in Path, p <= r, Leads(w, r)
  PROVE  Leads(w, p)
  <1>1. p \in Nat /\ r \in Nat /\ Pair(w) \subseteq Nat
    BY PublicationAssumption, SetupTypes DEF Pair, TypeInv, Process
  <1> QED BY <1>1 DEF Leads

\* Every step keeps distances above the feasible potentials and below the
\* limit.
LEMMA ReachStep ==
  ASSUME Contending, NEW w \in Converter, Convert(w), UNCHANGED setup, faults' = 0,
         NEW p \in Path, Reach(p)
  PROVE  Reach(p)'
  <1>0. TypeInv /\ PlaceInv
    BY DEF Contending
  <1>1. PICK x \in Converter : Leads(x, p)
    BY DEF Reach
  <1>2. CASE x # w \/ Leads(w, p)'
    BY <1>0, <1>1, <1>2, KeepsFrame DEF Reach
  <1>3. CASE x = w /\ ~Leads(w, p)'
    <2>1. PICK r \in markers : p <= r /\ ~Leads(w, r)
      BY <1>1, <1>3, LeadsSelf
    <2>2. r \in Path /\ Reach(r)
      BY <1>0 DEF Contending, ContendInv, TypeInv
    <2>3. PICK z \in Converter : Leads(z, r)
      BY <2>2 DEF Reach
    <2>4. z # w /\ Leads(z, p)
      BY <1>0, <2>1, <2>2, <2>3, LeadsDown
    <2> QED BY <1>0, <2>4, KeepsFrame DEF Reach
  <1> QED BY <1>2, <1>3

\* Without a fault a conversion stops keeping only the markers it removes.
LEMMA HoldsSelf ==
  ASSUME Contending, NEW w \in Converter, Convert(w), UNCHANGED setup, faults' = 0,
         NEW p \in markers', Keeps(w, p)
  PROVE  Keeps(w, p)'
  <1>0. /\ w \in Process /\ Place(w) /\ TypeInv /\ Pair(w)' = Pair(w) /\ faults = 0 /\ stuck = {}
        /\ p \in Pair(w)
    BY DEF Contending, PlaceInv, ContendInv, Process, Pair, CsrOf, MetaOf, Keeps
  <1>f. ~Fault
    BY <1>0 DEF Fault
  <1>1. CASE Check(w) \/ Stage(w) \/ Crash(w) \/ RenameFails(w)
    BY <1>1, <1>f DEF Check, Stage, Crash, RenameFails, Keeps, Publishing
  <1>2. CASE Mark(w)
    <2>1. /\ pc[w] = "mark" /\ pc'[w] = IF todo'[w] = {} THEN "csr" ELSE "mark"
          /\ todo'[w] = todo[w] \ {FirstMarker(w)}
      BY <1>0, <1>2 DEF Mark, Goto, TypeInv
    <2> QED BY <1>0, <2>1 DEF Keeps, Publishing
  <1>3. CASE MarkFails(w)
    <2>1. pc[w] = "mark" /\ pc'[w] = "undo" /\ todo'[w] = Pair(w) \ todo[w]
      BY <1>0, <1>3 DEF MarkFails, Goto, TypeInv
    <2> QED BY <1>0, <2>1 DEF Keeps, Publishing
  <1>4. CASE RenameCsr(w) \/ RenameMetadata(w)
    BY <1>0, <1>4 DEF RenameCsr, RenameMetadata, Goto, TypeInv, Keeps, Publishing
  <1>5. CASE RenameGeneration(w)
    BY <1>0, <1>5 DEF RenameGeneration, Goto, TypeInv, Keeps
  <1>6. CASE Clear(w)
    <2>1. pc[w] = "clear" /\ FirstMarker(w) \in todo[w] /\ FirstMarker(w) \in Path /\ todo[w] \subseteq Pair(w)
      BY <1>0, <1>6, FirstMarkerFacts DEF Clear, Place
    <2>2. FirstMarker(w) \in markers
      BY <2>1 DEF Contending, MarkerInv, Keeps
    <2>3. /\ markers' = markers \ {FirstMarker(w)} /\ todo'[w] = todo[w] \ {FirstMarker(w)}
          /\ pc'[w] = IF todo'[w] = {} THEN "done" ELSE "clear"
      BY <1>0, <1>6, <1>f, <2>2 DEF Clear, Goto, TypeInv
    <2> QED BY <1>0, <2>1, <2>3 DEF Keeps, Publishing
  <1>7. CASE Unmark(w)
    <2>1. pc[w] = "undo" /\ UNCHANGED pc /\ markers' = markers \ {FirstMarker(w)}
          /\ todo'[w] = todo[w] \ {FirstMarker(w)}
      BY <1>0, <1>7, <1>f DEF Unmark, TypeInv
    <2> QED BY <1>0, <2>1 DEF Keeps, Publishing
  <1>8. CASE Undone(w)
    BY <1>0, <1>8 DEF Undone, KeepsMarkers, Keeps, Publishing
  <1>9. CASE Withdraw(w)
    BY <1>0, <1>9 DEF Withdraw, Keeps, Publishing
  <1> QED BY <1>1, <1>2, <1>3, <1>4, <1>5, <1>6, <1>7, <1>8, <1>9 DEF Convert

\* A conversion that gives up has met a marker.
LEMMA GivesUp ==
  ASSUME Contending, NEW w \in Converter, Convert(w), faults' = 0
  PROVE  /\ stuck' = {} /\ pc'[w] \notin {"kept", "crashed"}
         /\ pc'[w] \in {"undo", "failed"} => pc[w] = "undo" \/ markers # {}
  <1>0. /\ w \in Process /\ Place(w) /\ TypeInv /\ faults = 0 /\ stuck = {} /\ pc[w] \in Step
        /\ pc[w] \notin {"kept", "crashed"}
    BY DEF Contending, PlaceInv, ContendInv, Process, TypeInv
  <1>f. ~Fault
    BY <1>0 DEF Fault
  <1>1. CASE Check(w)
    BY <1>0, <1>1 DEF Check, Goto, TypeInv, local
  <1>2. CASE Stage(w) \/ RenameFails(w) \/ Crash(w)
    BY <1>0, <1>2, <1>f DEF Stage, RenameFails, Crash, Goto, TypeInv, local
  <1>3. CASE Mark(w) \/ MarkFails(w)
    BY <1>0, <1>3, <1>f DEF Mark, MarkFails, Taken, Goto, TypeInv, local
  <1>4. CASE RenameCsr(w) \/ RenameMetadata(w) \/ RenameGeneration(w)
    BY <1>0, <1>4 DEF RenameCsr, RenameMetadata, RenameGeneration, Goto, TypeInv
  <1>5. CASE Clear(w)
    <2>1. pc[w] = "clear" /\ FirstMarker(w) \in todo[w] /\ FirstMarker(w) \in Path /\ todo[w] \subseteq Pair(w)
      BY <1>0, <1>5, FirstMarkerFacts DEF Clear, Place
    <2>2. FirstMarker(w) \in markers
      BY <2>1 DEF Contending, MarkerInv, Keeps
    <2> QED BY <1>0, <1>5, <1>f, <2>2 DEF Clear, Goto, TypeInv, local
  <1>6. CASE Withdraw(w) \/ Unmark(w) \/ Undone(w)
    BY <1>0, <1>6, <1>f DEF Withdraw, Unmark, Undone, Goto, TypeInv, local
  <1> QED BY <1>1, <1>2, <1>3, <1>4, <1>5, <1>6 DEF Convert

\* Every step keeps the chain behind each refusal: whoever owns the marker
\* that turned a conversion away has come at least as far.
LEMMA ContendStep ==
  TypeInv /\ TypeInv' /\ PlaceInv /\ MarkerInv /\ ContendInv /\ [Next]_vars => ContendInv'
  <1> SUFFICES ASSUME TypeInv, TypeInv', PlaceInv, MarkerInv, ContendInv, [Next]_vars, faults' = 0
               PROVE  /\ stuck' = {} /\ \A w \in Converter : pc'[w] \notin {"kept", "crashed"}
                      /\ \A p \in markers' : Reach(p)' /\ \E w \in Converter : Keeps(w, p)'
                      /\ (\E w \in Converter : pc'[w] \in {"undo", "failed"}) => \E p \in Path : Reach(p)'
    BY DEF ContendInv
  <1>0. Contending /\ UNCHANGED setup /\ markers \subseteq Path /\ markers' \subseteq Path
    BY FaultsCount, StepCases DEF Contending, TypeInv
  <1>c. /\ stuck = {} /\ \A w \in Converter : pc[w] \notin {"kept", "crashed"}
        /\ \A p \in markers : Reach(p) /\ \E w \in Converter : Keeps(w, p)
        /\ (\E w \in Converter : pc[w] \in {"undo", "failed"}) => \E p \in Path : Reach(p)
    BY <1>0 DEF Contending, ContendInv
  <1>1. ASSUME NEW w \in Converter, Convert(w)
        PROVE  /\ stuck' = {} /\ \A x \in Converter : pc'[x] \notin {"kept", "crashed"}
               /\ \A p \in markers' : Reach(p)' /\ \E x \in Converter : Keeps(x, p)'
               /\ (\E x \in Converter : pc'[x] \in {"undo", "failed"}) => \E p \in Path : Reach(p)'
    <2>1. /\ stuck' = {} /\ pc'[w] \notin {"kept", "crashed"}
          /\ pc'[w] \in {"undo", "failed"} => pc[w] = "undo" \/ markers # {}
      BY <1>0, <1>1, GivesUp
    <2>2. \A x \in Converter \ {w} : pc'[x] = pc[x]
      BY <1>0, <1>1, ConvertFrame
    <2>3. \A p \in Path : Reach(p) => Reach(p)'
      BY <1>0, <1>1, ReachStep
    <2>4. ASSUME NEW p \in markers' PROVE Reach(p)' /\ \E x \in Converter : Keeps(x, p)'
      <3>1. CASE p \notin markers
        <4>1. Keeps(w, p)' /\ Leads(w, p)'
          BY <1>0, <1>1, <2>4, <3>1, KeepsSelf
        <4> QED BY <4>1 DEF Reach
      <3>2. CASE p \in markers
        <4>1. PICK x \in Converter : Keeps(x, p)
          BY <1>c, <3>2
        <4>2. pc[x] \notin {"failed", "crashed"}
          BY <1>c, <4>1 DEF Keeps, PlaceInv, Place, HasFile, Publishing
        <4>3. Keeps(x, p)'
          <5>1. CASE x = w
            BY <1>0, <1>1, <4>1, <5>1, <2>4, HoldsSelf
          <5>2. CASE x # w
            BY <1>0, <1>1, <4>1, <4>2, <5>2, KeepsFrame
          <5> QED BY <5>1, <5>2
        <4> QED BY <1>0, <1>c, <2>3, <3>2, <4>3
      <3> QED BY <3>1, <3>2
    <2>5. ASSUME NEW x \in Converter, pc'[x] \in {"undo", "failed"} PROVE \E p \in Path : Reach(p)'
      <3>1. \E p \in Path : Reach(p)
        BY <1>0, <1>c, <2>1, <2>2, <2>5
      <3> QED BY <2>3, <3>1
    <2> QED BY <1>c, <2>1, <2>2, <2>4, <2>5
  <1>2. CASE Inspect \/ (\E r \in Reader : Use(r)) \/ UNCHANGED vars
    <2>1. /\ UNCHANGED <<file, stuck>>
          /\ \A v \in Converter : pc'[v] = pc[v] /\ todo'[v] = todo[v] /\ Pair(v)' = Pair(v)
      BY <1>0, <1>2, IdleFrame
    <2>2. markers' \subseteq markers
      BY <1>0, <1>2, IdleFrame DEF Inspect
    <2>3. \A p \in Path : Reach(p)' <=> Reach(p)
      BY <2>1 DEF Reach, Leads
    <2>4. \A v \in Converter : HasFile(v)' <=> HasFile(v)
      BY <2>1 DEF HasFile
    <2>5. \A p \in Path : \A v \in Converter : Keeps(v, p)' <=> Keeps(v, p)
      BY <1>0, <2>1, <2>4 DEF Keeps, Publishing
    <2> QED BY <1>0, <1>c, <2>1, <2>2, <2>3, <2>5
  <1> QED BY <1>1, <1>2, StepCases

\* Nobody has been turned away at the start.
LEMMA ContendInit == Init => ContendInv
  <1> SUFFICES ASSUME Init PROVE ContendInv
    OBVIOUS
  <1>1. \A w \in Converter : pc[w] = "check"
    BY DEF Init, Process
  <1> QED BY <1>1 DEF Init, ContendInv

-----------------------------------------------------------------------------
(* What the markers are good for. *)

\* The conversions' invariant.
MarkersInv == TypeInv /\ PlaceInv /\ MarkerInv /\ ContendInv

\* The invariants of the conversions.
LEMMA MarkersInvariant == Spec => []MarkersInv
  <1>1. Init => MarkersInv
    BY TypeInit, PlaceInit, MarkerInit, ContendInit DEF MarkersInv
  <1>2. MarkersInv /\ [Next]_vars => MarkersInv'
    BY TypeStep, PlaceStep, MarkerStep, ContendStep DEF MarkersInv
  <1> QED BY <1>1, <1>2, PTL DEF Spec

\* Conversions that share a path never change files at the same time: both
\* would keep the marker beside it.
THEOREM MarkersExclude == Spec => []OnePublisher
  <1>1. MarkersInv => OnePublisher
    <2> SUFFICES ASSUME MarkersInv, NEW v \in Converter, NEW w \in Converter, v # w,
                        Touching(v), Touching(w), NEW p \in Pair(v) \cap Pair(w)
                 PROVE  FALSE
      BY DEF OnePublisher
    <2>1. p \in Path
      BY SetupTypes DEF MarkersInv, Pair, Process
    <2>2. \A x \in {v, w} : Publishing(x) \/ (pc[x] = "undo" /\ todo[x] = Pair(x))
      BY DEF MarkersInv, PlaceInv, Place, Touching
    <2>3. Keeps(v, p) /\ Keeps(w, p)
      BY <2>2 DEF Keeps
    <2> QED BY <2>1, <2>3 DEF MarkersInv, MarkerInv
  <1> QED BY <1>1, MarkersInvariant, PTL

\* A file of a conversion that has not published all three lies behind both
\* markers until somebody removes them, for any number of faults and crashes.
THEOREM HalfPublishedHidden == Spec => []HalfPublishedIsMarked
  <1>1. MarkersInv => HalfPublishedIsMarked
    <2> SUFFICES ASSUME MarkersInv, ~setup.inspections, NEW w \in Converter,
                        \E p \in Pair(w) : file[p] = w, pc[w] \notin {"clear", "done", "kept"},
                        NEW q \in Pair(w)
                 PROVE  q \in markers
      BY DEF HalfPublishedIsMarked
    <2>0. /\ Pair(w) \subseteq Path /\ Place(w) /\ HasFile(w) /\ w \in Process
      BY SetupTypes DEF MarkersInv, PlaceInv, Pair, HasFile, Process
    <2>1. \/ pc[w] \in {"meta", "gen", "failed", "crashed"}
          \/ pc[w] = "undo" /\ todo[w] = Pair(w)
      BY <2>0 DEF Place, HasFile
    <2>2. Keeps(w, q)
      BY <2>0, <2>1 DEF Keeps, Publishing
    <2> QED BY <2>0, <2>2 DEF MarkersInv, MarkerInv
  <1> QED BY <1>1, MarkersInvariant, PTL

\* Among any number of conversions whose markers collide in any pattern one
\* publishes, unless a call fails, and no marker is left: each takes its markers
\* in the order of their paths.
THEOREM ContentionResolved ==
  ASSUME Converter # {}
  PROVE  Spec => []SomeonePublishes
  <1>1. MarkersInv => SomeonePublishes
    <2> SUFFICES ASSUME MarkersInv, faults = 0, \A w \in Converter : pc[w] \in Over
                 PROVE  markers = {} /\ \E w \in Converter : pc[w] = "done"
      BY DEF SomeonePublishes
    <2>0. /\ stuck = {} /\ \A w \in Converter : pc[w] \notin {"kept", "crashed"}
          /\ \A p \in markers : \E w \in Converter : Keeps(w, p)
          /\ (\E w \in Converter : pc[w] \in {"undo", "failed"}) => \E p \in Path : Reach(p)
      BY DEF MarkersInv, ContendInv
    <2>1. \A w \in Converter : pc[w] \in {"done", "failed"}
      BY <2>0 DEF Over
    <2>2. \A w \in Converter : pc[w] = "failed" => ~HasFile(w)
      BY <2>0 DEF MarkersInv, PlaceInv, Place, HasFile
    <2>3. markers = {}
      BY <2>0, <2>1, <2>2 DEF Keeps, Publishing
    <2>4. \E w \in Converter : pc[w] = "done"
      BY <2>0, <2>1 DEF Reach, Leads
    <2> QED BY <2>3, <2>4
  <1> QED BY <1>1, MarkersInvariant, PTL
-----------------------------------------------------------------------------
(* The readers. *)

\* What a reader shows the register stays as it is.
Kept(x) == UNCHANGED <<Progress(x), Loaded(x), snap[x]>>

\* What a step of a reader is to the register.
Sampling(r)   == /\ Progress(r) = "new" /\ Progress(r)' = "reading"
                 /\ snap'[r] = gen[MetaOf[r]] /\ UNCHANGED Loaded(r)
Accepting(r)  == /\ Progress(r) = "reading" /\ Progress(r)' = "accepted"
                 /\ Loaded(r)' = {snap[r]} /\ UNCHANGED snap[r]
Confirming(r) == /\ Progress(r) = "accepted" /\ Progress(r)' = "confirmed"
                 /\ gen[MetaOf[r]] = snap[r] /\ UNCHANGED <<Loaded(r), snap[r]>>
Writing(r)    == /\ Progress(r) = "confirmed" /\ Progress(r)' = "wrote"
                 /\ UNCHANGED <<Loaded(r), snap[r]>>
Refusing(r)   == /\ Progress(r) \notin {"wrote", "failed"} /\ Progress(r)' = "failed"
                 /\ Loaded(r)' = {} /\ UNCHANGED snap[r]

\* Failing is refusing wherever it happens.
LEMMA FailRefuses ==
  ASSUME NEW r \in Reader, pc'[r] = "failed", pc[r] \notin {"done", "failed"}, UNCHANGED snap[r],
         stage[r] \in {"open", "verify", "confirm", "recheck"}
  PROVE  Refusing(r) /\ Reads(r)'
  BY DEF Refusing, Progress, Loaded, Reads

\* A reader's own step keeps its account, and is one of six: it changes
\* nothing the register shows, samples, accepts, confirms, writes or refuses.
LEMMA ReaderSelf ==
  ASSUME TypeInv, NEW r \in Reader, Reads(r), Use(r), UNCHANGED setup
  PROVE  /\ Reads(r)'
         /\ Kept(r) \/ Sampling(r) \/ Accepting(r) \/ Confirming(r) \/ Writing(r) \/ Refusing(r)
  <1>0. /\ r \in Process /\ stage[r] \in {"open", "verify", "confirm", "recheck"}
        /\ r \in Router <=> r \notin Exporter
    BY PublicationAssumption DEF Process, TypeInv, Reader
  <1>f. ASSUME pc'[r] = "failed", pc[r] \notin {"done", "failed"}, UNCHANGED snap[r]
        PROVE  Refusing(r) /\ Reads(r)'
    BY <1>0, <1>f, FailRefuses
  <1>1. CASE ReadFails(r)
    <2>1. pc'[r] = "failed" /\ pc[r] \notin {"done", "failed"} /\ UNCHANGED snap
      BY <1>0, <1>1 DEF ReadFails, Goto, TypeInv, read
    <2> QED BY <1>f, <2>1
  <1>2. CASE Look(r)
    <2>1. /\ UNCHANGED <<stage, sampled, snap, csr, meta, out>>
          /\ \/ pc[r] = "look" /\ pc'[r] \in {"look", "sample", "failed"}
             \/ pc[r] = "look again" /\ pc'[r] \in {"look again", "compare", "failed"}
      <3>1. CASE GraphFirst(r) \in markers
        BY <1>0, <1>2, <3>1 DEF Look, Goto, TypeInv, read
      <3>2. CASE GraphFirst(r) \notin markers
        BY <1>0, <1>2, <3>2 DEF Look, Goto, TypeInv, read
      <3> QED BY <3>1, <3>2
    <2>2. CASE pc'[r] = "failed"
      BY <1>f, <2>1, <2>2
    <2>3. CASE pc'[r] # "failed"
      <3>1. UNCHANGED Progress(r)
        BY <1>0, <2>1, <2>3 DEF Progress
      <3>2. UNCHANGED <<Loaded(r), Partner(r), EarlyOutput(r)>>
        BY <1>0, <2>1, <2>3, <3>1 DEF Loaded, Partner, EarlyOutput
      <3> QED BY <1>0, <2>1, <2>3, <3>1, <3>2 DEF Reads, Kept
    <2> QED BY <2>2, <2>3
  <1>3. CASE Sample(r)
    <2>1. /\ pc[r] = "sample" /\ pc'[r] = "look again" /\ UNCHANGED <<stage, csr, meta, out>>
          /\ sampled'[r] = gen[MetaOf[r]]
          /\ snap'[r] = IF stage[r] = "open" THEN gen[MetaOf[r]] ELSE snap[r]
      BY <1>0, <1>3 DEF Sample, Goto, TypeInv
    <2>2. UNCHANGED <<Partner(r), EarlyOutput(r)>>
      BY <2>1 DEF Partner, EarlyOutput
    <2>3. CASE stage[r] = "open"
      BY <2>1, <2>3 DEF Progress, Loaded, Sampling, Reads
    <2>4. CASE stage[r] # "open"
      BY <1>0, <2>1, <2>2, <2>4 DEF Progress, Loaded, Confirming, Kept, Reads
    <2> QED BY <2>3, <2>4
  <1>4. CASE Compare(r)
    <2>1. /\ pc[r] = "compare" /\ UNCHANGED <<stage, sampled, snap, csr, meta, out>>
          /\ pc'[r] = IF Passes(r) THEN AfterStage(r) ELSE "failed"
      BY <1>0, <1>4 DEF Compare, Goto, TypeInv, read
    <2>2. UNCHANGED <<Partner(r), EarlyOutput(r)>>
      BY <2>1 DEF Partner, EarlyOutput
    <2>3. CASE ~Passes(r)
      BY <1>f, <2>1, <2>3
    <2>4. CASE Passes(r) /\ stage[r] = "open"
      BY <1>0, <2>1, <2>2, <2>4 DEF AfterStage, Progress, Loaded, Kept, Reads
    <2>5. CASE Passes(r) /\ stage[r] = "verify"
      BY <1>0, <2>1, <2>2, <2>5 DEF AfterStage, Passes, Match, Progress, Loaded, Accepting, Reads, EarlyOutput
    <2>6. CASE Passes(r) /\ stage[r] = "confirm"
      BY <1>0, <2>1, <2>2, <2>6 DEF AfterStage, Progress, Loaded, Kept, Reads
    <2>7. CASE Passes(r) /\ stage[r] = "recheck"
      BY <1>0, <2>1, <2>2, <2>7 DEF AfterStage, Passes, Match, Progress, Loaded, Kept, Reads
    <2> QED BY <1>0, <2>3, <2>4, <2>5, <2>6, <2>7
  <1>5. CASE LoadGraph(r)
    <2>1. /\ pc[r] = "load graph" /\ pc'[r] \in {"failed", "load metadata"} /\ UNCHANGED <<stage, snap>>
      BY <1>0, <1>5 DEF LoadGraph, Goto, TypeInv
    <2> QED BY <1>f, <2>1 DEF Progress, Loaded, Kept, Reads
  <1>6. CASE LoadMetadata(r)
    <2>1. /\ pc[r] = "load metadata" /\ UNCHANGED snap /\ stage'[r] = "verify"
          /\ \/ pc'[r] = "failed" \/ (r \in Router /\ pc'[r] = "look")
             \/ (r \in Exporter /\ pc'[r] = "load routes")
      BY <1>0, <1>6 DEF LoadMetadata, Goto, TypeInv
    <2> QED BY <1>f, <2>1 DEF Progress, Loaded, Kept, Reads
  <1>7. CASE LoadRoutes(r)
    <2>1. /\ pc[r] = "load routes" /\ pc'[r] \in {"failed", "look"} /\ UNCHANGED <<stage, snap>>
      BY <1>0, <1>7 DEF LoadRoutes, Goto, TypeInv
    <2> QED BY <1>f, <2>1 DEF Progress, Loaded, Kept, Reads
  <1>8. CASE Route(r)
    <2>1. /\ pc[r] = "route" /\ UNCHANGED <<sampled, snap, csr, meta, out>>
          /\ \/ pc'[r] = "failed"
             \/ EarlyOutput(r) /\ pc'[r] = "write" /\ UNCHANGED stage
             \/ ~EarlyOutput(r) /\ pc'[r] = "look" /\ stage'[r] = "confirm"
      BY <1>0, <1>8 DEF Route, Goto, TypeInv
    <2>2. UNCHANGED <<Partner(r), EarlyOutput(r)>>
      BY <2>1 DEF Partner, EarlyOutput
    <2>3. CASE pc'[r] = "failed"
      BY <1>f, <2>1, <2>3
    <2>4. CASE pc'[r] # "failed"
      BY <2>1, <2>2, <2>4 DEF Progress, Loaded, Kept, Reads
    <2> QED BY <2>3, <2>4
  <1>9. CASE LoadOutput(r)
    <2>1. /\ pc[r] = "load output" /\ UNCHANGED <<sampled, snap, csr, meta>>
          /\ pc'[r] \in {"failed", "look"} /\ stage'[r] = "recheck"
      BY <1>0, <1>9 DEF LoadOutput, Goto, TypeInv
    <2>2. UNCHANGED <<Partner(r), EarlyOutput(r)>>
      BY <2>1 DEF Partner, EarlyOutput
    <2>3. CASE pc'[r] = "failed"
      BY <1>f, <2>1, <2>3
    <2>4. CASE pc'[r] = "look"
      BY <2>1, <2>2, <2>4 DEF Progress, Loaded, Kept, Reads
    <2> QED BY <2>1, <2>3, <2>4
  <1>10. CASE WriteRoutes(r)
    <2>1. /\ pc[r] = "write" /\ pc'[r] = "done" /\ UNCHANGED <<stage, sampled, snap, csr, meta, out>>
      BY <1>0, <1>10 DEF WriteRoutes, Goto, TypeInv, read
    <2>2. UNCHANGED <<Partner(r), EarlyOutput(r)>>
      BY <2>1 DEF Partner, EarlyOutput
    <2> QED BY <2>1, <2>2 DEF Progress, Loaded, Writing, Reads
  <1> QED BY <1>1, <1>2, <1>3, <1>4, <1>5, <1>6, <1>7, <1>8, <1>9, <1>10 DEF Use

\* A reader's step changes nothing another reader goes by.
LEMMA ReaderFrame ==
  ASSUME TypeInv, NEW r \in Reader, Use(r), NEW x \in Reader, x # r
  PROVE  Kept(x) /\ (Reads(x) => Reads(x)')
  <1>0. r \in Process /\ x \in Process /\ pc'[x] = pc[x]
    BY UseMoves DEF Moves, TypeInv, Process
  <1>1. /\ stage'[x] = stage[x] /\ sampled'[x] = sampled[x] /\ snap'[x] = snap[x]
        /\ csr'[x] = csr[x] /\ meta'[x] = meta[x] /\ out'[x] = out[x]
    <2>1. CASE ReadFails(r) \/ Look(r) \/ Compare(r) \/ WriteRoutes(r)
      BY <2>1 DEF ReadFails, Look, Compare, WriteRoutes, read
    <2>2. CASE Sample(r) \/ Route(r)
      BY <2>2 DEF Sample, Route, TypeInv
    <2>3. CASE LoadGraph(r) \/ LoadMetadata(r) \/ LoadRoutes(r) \/ LoadOutput(r)
      BY <2>3 DEF LoadGraph, LoadMetadata, LoadRoutes, LoadOutput, TypeInv
    <2> QED BY <2>1, <2>2, <2>3 DEF Use
  <1>2. UNCHANGED <<Progress(x), Partner(x), EarlyOutput(x)>>
    BY <1>0, <1>1 DEF Progress, Partner, EarlyOutput
  <1> QED BY <1>0, <1>1, <1>2 DEF Kept, Loaded, Reads

\* Conversions and inspections change no reader.
LEMMA ReadersIdle ==
  ASSUME TypeInv, PlaceInv, (\E w \in Converter : Convert(w)) \/ Inspect \/ UNCHANGED vars, NEW x \in Reader
  PROVE  Kept(x) /\ (Reads(x) => Reads(x)')
  <1>0. pc'[x] = pc[x] /\ UNCHANGED read
    <2>1. ASSUME NEW w \in Converter, Convert(w) PROVE pc'[x] = pc[x] /\ UNCHANGED read
      <3>1. pc'[x] = pc[x]
        <4>1. x # w /\ x \in Process /\ w \in Process
          BY PublicationAssumption DEF Reader, Process
        <4> QED BY <2>1, <4>1, ConvertMoves DEF Moves, TypeInv
      <3>2. UNCHANGED read
        BY <2>1 DEF Convert, Check, Stage, Mark, MarkFails, RenameCsr, RenameMetadata, RenameGeneration,
                    RenameFails, Clear, Withdraw, Unmark, Undone, Crash
      <3> QED BY <3>1, <3>2
    <2>2. CASE Inspect \/ UNCHANGED vars
      BY <2>2 DEF Inspect, vars
    <2> QED BY <2>1, <2>2
  <1>1. UNCHANGED <<stage, sampled, snap, csr, meta, out>>
    BY <1>0 DEF read
  <1>2. UNCHANGED <<Progress(x), Partner(x), EarlyOutput(x)>>
    BY <1>0, <1>1 DEF Progress, Partner, EarlyOutput
  <1> QED BY <1>0, <1>1, <1>2 DEF Kept, Loaded, Reads

\* Every step keeps every reader's account.
LEMMA ReaderStep == TypeInv /\ PlaceInv /\ ReaderInv /\ [Next]_vars => ReaderInv'
  <1> SUFFICES ASSUME TypeInv, PlaceInv, ReaderInv, [Next]_vars, NEW x \in Reader PROVE Reads(x)'
    BY DEF ReaderInv
  <1>1. Reads(x)
    BY DEF ReaderInv
  <1> QED BY <1>1, StepCases, ReaderSelf, ReaderFrame, ReadersIdle
-----------------------------------------------------------------------------
(* The register. *)

LEMMA SharedPath ==
  ASSUME TypeInv
  PROVE  SharedMetadata \in Path /\ \A r \in Reader : MetaOf[r] = SharedMetadata
  <1>1. (CHOOSE r \in Reader : TRUE) \in Reader
    BY SharedAssumption
  <1>2. \A q, r \in Reader : MetaOf[q] = MetaOf[r]
    BY SharedAssumption DEF TypeInv, MetaOf
  <1> QED BY <1>1, <1>2, SetupTypes DEF SharedMetadata, Process

\* The initial files map to an initial register and readers that read nothing.
LEMMA RegisterInit == Init => Register!Init
  <1> SUFFICES ASSUME Init PROVE Register!Init
    OBVIOUS
  <1>1. TypeInv
    BY TypeInit
  <1>2. gen[SharedMetadata] \in PairId
    BY <1>1, SharedPath DEF TypeInv
  <1>3. \A r \in Reader : Progress(r) = "new" /\ Loaded(r) = {}
    <2>1. \A r \in Reader : pc[r] = "look" /\ stage[r] = "open"
      BY PublicationAssumption DEF Init, Process, Reader
    <2> QED BY <2>1 DEF Progress, Loaded
  <1> QED BY <1>1, <1>2, <1>3 DEF Register!Init, TypeInv

\* A step of the system is one of the register, or the register stands still.
LEMMA RegisterStep ==
  TypeInv /\ TypeInv' /\ PlaceInv /\ ReaderInv /\ [Next]_vars => [Register!Next]_Register!vars
  <1> DEFINE state == [r \in Reader |-> Progress(r)]
             used  == [r \in Reader |-> Loaded(r)]
             published == gen[SharedMetadata]
  <1> SUFFICES ASSUME TypeInv, TypeInv', PlaceInv, ReaderInv, [Next]_vars
               PROVE  Register!Next \/ UNCHANGED <<published, state, snap, used>>
    BY DEF Register!vars
  <1>0. /\ UNCHANGED SharedMetadata /\ published \in PairId /\ published' \in PairId
        /\ snap \in [Reader -> PairId] /\ snap' \in [Reader -> PairId]
    <2>1. UNCHANGED SharedMetadata
      BY StepCases DEF SharedMetadata, MetaOf
    <2> QED BY <2>1, SharedPath DEF TypeInv
  <1>1. CASE (\E w \in Converter : Convert(w)) \/ Inspect \/ UNCHANGED vars
    <2>1. \A x \in Reader : Kept(x)
      BY <1>1, ReadersIdle
    <2>2. UNCHANGED <<state, snap, used>>
      BY <1>0, <2>1 DEF Kept
    <2>3. Register!Publish
      BY <1>0, <2>2 DEF Register!Publish
    <2> QED BY <2>3 DEF Register!Next
  <1>2. ASSUME NEW r \in Reader, Use(r)
        PROVE  Register!Next \/ UNCHANGED <<published, state, snap, used>>
    <2>0. \A x \in Reader : x # r => Kept(x)
      BY <1>2, ReaderFrame
    <2>1. UNCHANGED published
      BY <1>0, <1>2, UseMoves
    <2>s. state' = [state EXCEPT ![r] = Progress(r)'] /\ used' = [used EXCEPT ![r] = Loaded(r)']
      BY <2>0 DEF Kept
    <2>t. snap' = [snap EXCEPT ![r] = snap'[r]]
      BY <1>0, <2>0 DEF Kept
    <2>u. snap'[r] = snap[r] => UNCHANGED snap
      BY <1>0, <2>t
    <2>v. UNCHANGED Loaded(r) => UNCHANGED used
      BY <2>0 DEF Kept
    <2>2. MetaOf[r] = SharedMetadata
      BY SharedPath
    <2>3. CASE Kept(r)
      <3>1. \A x \in Reader : Kept(x)
        BY <2>0, <2>3
      <3> QED BY <1>0, <2>1, <3>1 DEF Kept
    <2>4. CASE Sampling(r)
      <3>1. Register!Sample(r)
        BY <2>1, <2>2, <2>4, <2>s, <2>t, <2>v DEF Register!Sample, Sampling
      <3> QED BY <3>1 DEF Register!Next
    <2>5. CASE Accepting(r)
      <3>1. Register!Accept(r)
        BY <2>1, <2>5, <2>s, <2>u DEF Register!Accept, Accepting
      <3> QED BY <3>1 DEF Register!Next
    <2>6. CASE Confirming(r)
      <3>1. Register!Confirm(r)
        BY <2>1, <2>2, <2>6, <2>s, <2>u, <2>v DEF Register!Confirm, Confirming
      <3> QED BY <3>1 DEF Register!Next
    <2>7. CASE Writing(r)
      <3>1. Register!Write(r)
        BY <2>1, <2>7, <2>s, <2>u, <2>v DEF Register!Write, Writing
      <3> QED BY <3>1 DEF Register!Next
    <2>8. CASE Refusing(r)
      <3>1. Register!Refuse(r)
        BY <2>1, <2>8, <2>s, <2>u DEF Register!Refuse, Refusing
      <3> QED BY <3>1 DEF Register!Next
    <2> QED BY <1>2, <2>3, <2>4, <2>5, <2>6, <2>7, <2>8, StepCases, ReaderSelf DEF ReaderInv
  <1> QED BY <1>1, <1>2, StepCases

\* The identities, the generation file and the order in which readers look at
\* them make one register of three files that are replaced one by one: whatever
\* conversions and readers do, fail at or leave behind, a reader that goes on
\* has used one conversion's artifacts.  The markers are not needed for that.
THEOREM PublicationIsRegister == Spec => ReadsOnePair
  <1>1. Init => TypeInv /\ PlaceInv /\ ReaderInv
    <2>1. Init => ReaderInv
      <3> SUFFICES ASSUME Init, NEW r \in Reader PROVE Reads(r)
        BY DEF ReaderInv
      <3>1. pc[r] = "look" /\ stage[r] = "open"
        BY PublicationAssumption DEF Init, Process, Reader
      <3> QED BY <3>1 DEF Reads, Progress
    <2> QED BY <2>1, TypeInit, PlaceInit
  <1>2. Spec => [](TypeInv /\ PlaceInv /\ ReaderInv)
    BY <1>1, TypeStep, PlaceStep, ReaderStep, PTL DEF Spec
  <1>3. Spec => [][Register!Next]_Register!vars
    BY <1>2, RegisterStep, PTL DEF Spec
  <1> QED BY <1>3, RegisterInit, PTL DEF Spec, ReadsOnePair, Register!PairSpec
=============================================================================
