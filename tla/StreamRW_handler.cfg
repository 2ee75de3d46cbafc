SPECIFICATION Spec
CONSTANT MaxUnits = 3
\* One request, which ends.
CHECK_DEADLOCK FALSE
INVARIANTS
    FramingAgrees
    TruncationShows
    HijackedRaw
PROPERTIES
    ImplementsResponse
