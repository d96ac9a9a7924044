SPECIFICATION Spec
CONSTANTS
    Pipe = {p1, p2, p3, p4}
    First = p1
    Send = {r1, r2}
    Registry = Registry
    None = None
INVARIANTS
    TypeOK
    RepairsDoNotOverlap
CHECK_DEADLOCK FALSE
SYMMETRY Interchangeable
