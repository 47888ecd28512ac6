SPECIFICATION Spec
CONSTANTS
    Files = {"log", "note"}
    Records = {1, 2, 3}
    Procs = {p1, p2}
    None = None
    Workloads <- MountedWorkloads
SYMMETRY MCSymmetry
INVARIANT MountedWritesServed
