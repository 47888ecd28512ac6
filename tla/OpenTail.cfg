SPECIFICATION Spec
CONSTANTS
    Bad = Bad
    Modes <- MCModes
INVARIANTS
    TypeOK
    ReadBack
    FsyncDurable
    NothingInvented
    JournalMatchesTail
