SPECIFICATION FairSpec
CONSTANTS
    Token = {t1, t2}
    Bound = {b1}
    None = None
    Bad = Bad
    MaxSaves = 2
INVARIANTS
    NoEditMissed
    InSync
PROPERTIES
    EditTakesEffect
    HupTakesEffect
