SPECIFICATION Spec
CONSTANTS
    Registrations = {a, b, c}
    Searches = {s}
    Objects = {o, p, q}
    Inodes = {i, j, k}
    Cap = 2
    None = None
INVARIANTS
    TypeOK
    CapHolds
    NothingLeaks
PROPERTIES
    AnswersComeFromTheLease
SYMMETRY Symmetry
CHECK_DEADLOCK FALSE
