SPECIFICATION Spec
CONSTANTS
    Dirs = {"d", "e"}
    Names = {"a", "b"}
    Files = {1, 2}
    Inos = {1, 2, 3}
    Threads = {t1, t2}
    Vals = {1, 2}
    None = None
    Home <- MCHome
    MaxSize = 2
    Workloads <- MCWorkloads
SYMMETRY MCSymmetry
INVARIANTS
    TypeOK
    ViewCurrent
    ReadsCurrent
PROPERTIES
    ImplementsWriteBack
CHECK_DEADLOCK FALSE
