SPECIFICATION Spec
CONSTANTS
    Searches = {q1, q2}
    Signals = {}
    Opens = {o1}
    Roots = {r1, r2}
    None = None
    MaxFaults = 0
INVARIANTS
    TypeOK
    AnsweredFromPinnedRoot
    CurrentStreamIsPendings
    AtMostOneAlive
PROPERTIES
    ClientIsSerial
SYMMETRY Symmetry
CHECK_DEADLOCK FALSE
