SPECIFICATION Spec
CONSTANTS
    Blocks <- MCOneBlock
    Vals = {v1}
    Deltas = {d1}
    Zero = Zero
    Junk = Junk
    Torn = Torn
    MaxEof = 5
    FailedSyncDropsDirty = FALSE
INVARIANTS
    TypeOK
    AckedSurvives
    AlwaysOpenable
PROPERTIES
    ReachableNeverOverwritten
    ImplementsDurableFile
