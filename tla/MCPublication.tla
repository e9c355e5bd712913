--------------------------- MODULE MCPublication ---------------------------
(* Conversions and readers of artifacts at two paths. *)
EXTENDS PublicationRefinement

CONSTANTS v, w, r, e

\* Everybody uses the graph at 1 and the metadata at 2; one fault anywhere, and
\* somebody may remove the markers a stopped conversion left.
Race == [csr |-> [x \in Process |-> 1], meta |-> [x \in Process |-> 2],
         readers |-> Reader, faults |-> 1, inspections |-> TRUE]

\* Two conversions with their paths in opposite order, two faults, and markers
\* that stay.
Crossed == [csr |-> [x \in Process |-> IF x = v THEN 1 ELSE 2],
            meta |-> [x \in Process |-> IF x = v THEN 2 ELSE 1],
            readers |-> {}, faults |-> 2, inspections |-> FALSE]

RaceAndCrossed == {Race, Crossed}
=============================================================================
