\* One moment per millisecond would hide the rounding of the remaining time.
CONSTANTS
    MaxMatches = 4
    Ms = 2
    Deadlines = {1, 2}
    Budgets = {2, 3, 4}
    Mark = 1
    Reasons <- MCReasons
    Thrown <- MCThrown
    Sizes <- MCSizes
    Horizon = 4
    None = None
SPECIFICATION FairSpec
INVARIANTS TypeOK HonestCoverage TrimIsTight OwnContractHolds
PROPERTIES OnTime Settles
