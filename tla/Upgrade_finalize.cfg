SPECIFICATION FairSpec
CONSTANT MaxUnits = 1
\* The exchange ends.
CHECK_DEADLOCK FALSE
PROPERTIES
    CountersFinalized
