CONSTANTS
    Inodes = {i1, i2}
    Pages = {p, nul}
    Binary = nul
    Limit = 2
    MaxPages = 3
    MaxWrites = 2
    None = None
SPECIFICATION FairSpec
INVARIANTS SingleRevision
PROPERTIES ReadEnds
