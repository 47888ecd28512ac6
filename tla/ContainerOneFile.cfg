SPECIFICATION Spec
CONSTANTS
    N = 1
    Limit <- MCOneFile
    Vals = {1}
    None = None
    Ops = {"create", "write", "empty", "cut", "grow", "read", "fsync", "unlink", "rename", "chmod", "crash"}
    Faults = {"flush", "unlink"}
INVARIANTS
    NoOrphans
