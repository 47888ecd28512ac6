SPECIFICATION Spec
CONSTANTS
    N = 2
    Limit <- MCTwoFiles
    Vals = {1}
    None = None
    Ops = {"create", "write", "empty", "read", "fsync", "unlink", "crash"}
    Faults = {"flush"}
INVARIANTS
    TypeOK
    FsyncDurable
    ReadThrough
PROPERTIES
    ImplementsWriteBack
