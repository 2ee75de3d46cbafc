SPECIFICATION FairSpec
CONSTANTS
    Conn = {c1, c2, c3}
    None = None
    ReconnectMin = 2
    ReconnectMax = 3
INVARIANTS
    NothingLeftOpen
PROPERTIES
    Stopped
    Reconnected
