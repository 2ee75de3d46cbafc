SPECIFICATION Spec
CONSTANTS
    Token = {t1, t2}
    Bound = {b1}
    None = None
    Bad = Bad
    MaxSaves = 1
INVARIANTS
    RevokedNotAccepted
