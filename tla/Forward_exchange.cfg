SPECIFICATION FairSpec
CONSTANTS
    Modes = {"handler", "proxy"}
    Window = 2
    MaxUnits = 3
\* One exchange, which ends or waits for the public client.
CHECK_DEADLOCK FALSE
INVARIANTS
    NothingLost
    BadGatewayHonest
PROPERTIES
    Released
    AnswerNotBlocked
