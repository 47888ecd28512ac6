SPECIFICATION Spec
CONSTANTS
    Threads = {t1, t2, t3}
    Inos = {i1, i2}
    Ops <- MCOps
SYMMETRY MCSymmetry
INVARIANTS
    TypeOK
    NoCircle
CHECK_DEADLOCK FALSE
