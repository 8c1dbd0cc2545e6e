SPECIFICATION FairSpec
CONSTANTS
    H = 2
    Cap = 3
    RequestSizes = {1, 4}
    HelloSizes = {1}
    ReplySizes = {3}
    MaxRequests = 2
    MaxSessions = 2
    MaxFaults = 1
INVARIANTS
    RefusalsAreEarned
    NoFrameWaits
PROPERTIES
    WholeAndInOrder
    NoSearchWaits
    OrphansEnd
\* Callers need not ask again, and children are bounded.
CHECK_DEADLOCK FALSE
