SPECIFICATION Spec
CONSTANTS
    Service = {v1}
    Session = {s1, s2}
    Request = {r1}
    Grace = 1
    None = None
\* Finitely many clients and requests: in the end all of them are used up.
CHECK_DEADLOCK FALSE
INVARIANTS
    ShownIsCurrent
