SPECIFICATION Spec
CONSTANTS
    QueryBytes = 3
    PathBytes = 3
    PatternBytes = 3
    MaxPatterns = 2
    FrameCap = 3
    MaxHits = 2
    MaxDeadline = 2
    MinResponse = 2
    MaxResponse = 4
    ExcerptBytes = 3
    MaxFile = 6
    Requests <- MCRequests
    Contexts <- MCContexts
    Caps <- MCCaps
    FileLimits = {3, 5}
    Files <- MCFiles
    Continuation = {0}
    None = None
INVARIANTS
    
    EvidencePasses
    OnlyTrueEvidence
\* A call that is refused, or whose evidence has been judged, is over.
CHECK_DEADLOCK FALSE
