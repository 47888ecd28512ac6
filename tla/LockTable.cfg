SPECIFICATION FairSpec
CONSTANTS
    Inos = {1}
    Workers = {w1, w2}
    Locks = {l1, l2}
    None = None
    Ops <- MCOps
    MaxVersion = 2
    MaxSyncs = 1
INVARIANTS
    TypeOK
    WriterAlone
    NoStaleBlock
    SyncedPagesFresh
PROPERTY EveryCallReturns
CHECK_DEADLOCK FALSE
