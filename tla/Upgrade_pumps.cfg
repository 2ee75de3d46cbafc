SPECIFICATION FairSpec
CONSTANT MaxUnits = 2
\* The exchange ends.
CHECK_DEADLOCK FALSE
INVARIANTS
    SendsAreSafe
    NeverOverReported
PROPERTIES
    TornDown
