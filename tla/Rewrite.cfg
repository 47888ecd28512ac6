SPECIFICATION Spec
CONSTANTS
    Ids = {i1, i2, i3}
    Bytes = {0, 1}
    MaxLen = 6
    ChunkSizes = {1, 2, 3}
    Holes = FALSE
    None = None
    Torn = Torn
SYMMETRY MCSymmetry
INVARIANTS
    TypeOK
    ContentKept
