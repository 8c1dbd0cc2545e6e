SPECIFICATION FairSpec
CONSTANTS
    Searches = {q1}
    Signals = {q1}
    Opens = {o1}
    Roots = {r1}
    None = None
    MaxFaults = 1
PROPERTIES
    EveryCallSettles
    KilledChildrenGo
CHECK_DEADLOCK FALSE
