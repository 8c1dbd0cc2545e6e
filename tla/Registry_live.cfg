SPECIFICATION FairSpec
CONSTANTS
    Registrations = {a}
    Searches = {s, t}
    Objects = {o, p}
    Inodes = {i, j}
    Cap = 1
    None = None
PROPERTIES
    CallsEnd
    ClosedReleasesAll
CHECK_DEADLOCK FALSE
