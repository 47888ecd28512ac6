SPECIFICATION Spec
CONSTANTS
    Records = {1, 2}
    Trees = {t1, t2, t3, t4, t5}
    Daemons = {d1, d2}
    Commands = {c}
    None = None
    Workloads <- MCWorkloads
SYMMETRY MCSymmetry
INVARIANTS
    TypeOK
    NothingLost
    MountShowsAll
    RewriteAlone
CHECK_DEADLOCK FALSE
