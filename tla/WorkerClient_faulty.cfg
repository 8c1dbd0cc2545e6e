SPECIFICATION Spec
CONSTANTS
    Searches = {q1, q2}
    Signals = {q1, q2}
    Opens = {}
    Roots = {r1}
    None = None
    MaxFaults = 1
INVARIANTS
    WaitingIsHeld
    OwnReason
SYMMETRY Symmetry
CHECK_DEADLOCK FALSE
