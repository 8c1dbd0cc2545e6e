SPECIFICATION Spec
CONSTANTS
    Entries <- MCEntries
    Files <- MCFiles
    Reserved <- MCReserved
    Dotted <- MCDotted
    Patterns <- MCPatterns
    Covers <- MCCovers
    Malformed = {"bad"}
    Buildable <- MCBuildable
    ListBytes <- MCListBytes
    Plain <- MCPlain
    PlainList = 2
    AnyList = 4
    FrameCap = 10
    MaxResponse = 12
    Asks <- MCAsks
    Lists <- MCLists
    IgnoreFiles <- MCIgnoreFiles
    MaxPatterns = 2
    MaxLines = 2
    None = None
INVARIANTS
    SelectionIsReference
    NarrowNeverWidens
    RefusedForItsLists
\* A registration that is refused leaves nothing to do.
CHECK_DEADLOCK FALSE
