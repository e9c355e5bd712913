\* Conversions, a router and an exporter on one pair, and conversions whose artifacts cross.
\* Processes end, so the last state has no successor.
SPECIFICATION Spec
CHECK_DEADLOCK FALSE
CONSTANTS
    v = v
    w = w
    r = r
    e = e
    NoId = NoId
    Absent = Absent
    Legacy = Legacy
    Path = {1, 2}
    Converter = {v, w}
    Router = {r}
    Exporter = {e}
    InitialFile = Legacy
    Setups <- RaceAndCrossed
INVARIANTS
    OnePublisher
    HalfPublishedIsMarked
    SomeonePublishes
PROPERTY ReadsOnePair
