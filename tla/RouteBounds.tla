------------------------------ MODULE RouteBounds ------------------------------
(* The box a query is confined to, shared by both SSSP engines: the envelope   *)
(* of its terminals' route-end coordinates widened by a margin.                *)
EXTENDS CsrGraph, FiniteSetsExt

CONSTANTS
    endX, endY,     \* route_end_x, route_end_y sidecars
    MinCoord, MaxCoord  \* the range of int32

MissingCoord == -1

\* What validate_coordinate_columns accepts.
ASSUME CoordinateAssumption ==
    /\ MinCoord \in Int /\ MaxCoord \in Int /\ MinCoord <= MissingCoord /\ 0 <= MaxCoord
    /\ endX \in [Vertex -> MissingCoord .. MaxCoord]
    /\ endY \in [Vertex -> MissingCoord .. MaxCoord]
    /\ \A v \in Vertex : endX[v] = MissingCoord <=> endY[v] = MissingCoord

HasCoordinate(v) == endX[v] # MissingCoord /\ endY[v] # MissingCoord

\* Mutant of Widen: the sum is not clamped and wraps around.
WidenWrapping(c, margin) ==
    MinCoord + ((c + margin - MinCoord) % (MaxCoord - MinCoord + 1))

\* saturating_coordinate_margin
Widen(c, margin) ==
    IF c + margin > MaxCoord THEN MaxCoord
    ELSE IF c + margin < MinCoord THEN MinCoord ELSE c + margin

Unbounded == [enabled |-> FALSE, minX |-> 0, maxX |-> 0, minY |-> 0, maxY |-> 0]

InBox(v, b) == endX[v] \in b.minX .. b.maxX /\ endY[v] \in b.minY .. b.maxY

\* route_node_admitted: spill resources without coordinates stay admissible.
NodeAdmitted(v, b) == \/ ~b.enabled
                      \/ endX[v] = MissingCoord /\ endY[v] = MissingCoord
                      \/ InBox(v, b)

AdmittedNodes(b) == {v \in Vertex : NodeAdmitted(v, b)}

\* derive_query_bounds refuses a target that no box can include.
CannotBound(targets, config) ==
    config.enabled /\ ~config.fallback /\ \E t \in targets : ~HasCoordinate(t)

\* A target without coordinates selects the whole graph; otherwise the envelope
\* covers every terminal that has coordinates.
DeriveBounds(sources, targets, config) ==
    LET known == {v \in sources \cup targets : HasCoordinate(v)}
        Xs    == {endX[v] : v \in known}
        Ys    == {endY[v] : v \in known}
    IN  IF ~config.enabled \/ \E t \in targets : ~HasCoordinate(t)
        THEN Unbounded
        ELSE [enabled |-> TRUE,
              minX |-> Widen(Min(Xs), -config.marginX), maxX |-> Widen(Max(Xs), config.marginX),
              minY |-> Widen(Min(Ys), -config.marginY), maxY |-> Widen(Max(Ys), config.marginY)]
===============================================================================
