SPECIFICATION Spec
CONSTANTS
    Names = {a, b}
    Threads = {t1, t2}
    Depth = 2
    MaxIno = 4
    MaxLookups = 2
    Objects = {o1, o2, o3}
    None = None
    Workloads <- MCWorkloads
SYMMETRY MCSymmetry
INVARIANTS
    TypeOK
    KernelKnown
    NumberServes
