SPECIFICATION FairSpec
CONSTANTS
    Service = {v1, v2}
    Session = {s1, s2}
    Request = {r1}
    Grace = 1
    None = None
\* Finitely many clients and requests: in the end all of them are used up.
CHECK_DEADLOCK FALSE
INVARIANTS
    NoZombieEntry
    NoOrphanSession
    NoGhostService
    NoLostWakeup
    NoDoubleClose
PROPERTIES
    NeverDroppedAlive
    ImplementsSlot
    LookupReturns
    DeadSessionLeaves
