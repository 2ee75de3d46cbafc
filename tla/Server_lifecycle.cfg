SPECIFICATION ServerFairSpec
CONSTANTS
    Service = {v1}
    Session = {s1}
    Request = {r1, r2}
    None = None
\* The server stops, and its clients with it.
CHECK_DEADLOCK FALSE
INVARIANTS
    InFlightSpared
    OkMeansCancelled
PROPERTIES
    RunReturns
