------------------------ MODULE PublicationRefinement ------------------------
(***************************************************************************)
(* The identities, the generation file and the markers together implement  *)
(* the register of PublishedPair for the readers of one metadata path.  A  *)
(* router confirms when it reads the generation for the last time, after   *)
(* it has opened the metadata its output comes from.                       *)
(***************************************************************************)
EXTENDS ArtifactPublication

\* One register for the readers of one metadata path.
ASSUME SharedAssumption ==
    Reader # {} /\ \A s \in Setups : \A q, r \in Reader : s.meta[q] = s.meta[r]

SharedMetadata == MetaOf[CHOOSE r \in Reader : TRUE]

Progress(r) ==
    IF pc[r] = "failed" THEN "failed"
    ELSE CASE stage[r] = "open" ->
                  IF pc[r] \in {"look", "sample"} THEN "new" ELSE "reading"
           [] stage[r] = "verify" ->
                  IF pc[r] \in {"load output", "route", "done"} THEN "accepted" ELSE "reading"
           [] stage[r] = "confirm" -> "accepted"
           [] stage[r] = "recheck" ->
                  IF pc[r] = "done" THEN "wrote"
                  ELSE IF pc[r] \in {"look", "sample"} \/ sampled[r] # snap[r] THEN "accepted"
                  ELSE "confirmed"

\* What a reader goes on with: the routes are written with the identity of the
\* output tables.
Loaded(r) ==
    CASE Progress(r) \in {"new", "reading", "failed"} -> {}
      [] stage[r] = "recheck" /\ pc[r] \in {"route", "write", "done"} ->
             {Partner(r), IdOf(meta[r]), IdOf(out[r])}
      [] OTHER -> {Partner(r), IdOf(meta[r])}

Register == INSTANCE PublishedPair WITH
    published <- gen[SharedMetadata],
    state     <- [r \in Reader |-> Progress(r)],
    seen      <- snap,
    used      <- [r \in Reader |-> Loaded(r)]

\* Whatever the interleaving of conversions and readers, and whatever was left
\* behind by conversions that failed or stopped, a reader that goes on has used
\* a graph, a metadata file and routes of one and the same conversion, the one
\* whose generation it sampled first; a router has seen it in place after it
\* opened the metadata its routes are written with.
ReadsOnePair == Register!PairSpec
=============================================================================
