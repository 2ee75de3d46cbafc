SPECIFICATION FairSpec
CONSTANTS
    Label <- MCLabel
    Blank = ""
    Www = "www"
    Lower <- MCLower
    WellFormed <- MCWellFormed
    Base <- MCBase
    Listed = {}
    Wildcard = Wildcard
    Name <- MCName
    Host <- MCHost
    Client = {c1, c2}
    None = None
    MaxConnects = 3
\* Finitely many handshakes.
CHECK_DEADLOCK FALSE
INVARIANTS
    OneAtATime
    NeverRefused
    RoutedAsDocumented
    RedirectSpares
PROPERTIES
    IssuanceEnds
    RetriedOnReconnect
