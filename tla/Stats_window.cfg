SPECIFICATION Spec
CONSTANTS
    Exchange = {e1, e2}
    Ring = 3
    Samples = 2
    Sizes = {1}
    Latency <- MCLatency
    MaxUsec = 3
    Start = 5
    MaxClock = 7
    MaxDelay = 1
    MaxCalls = 5
SYMMETRY MCSymmetry
\* Finitely many calls and seconds.
CHECK_DEADLOCK FALSE
INVARIANTS
    RingIsLog
    TotalsCoverWindow
PROPERTIES
    SnapshotIsWindow
    PercentilesOfLatest
