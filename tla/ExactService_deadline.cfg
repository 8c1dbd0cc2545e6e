CONSTANTS
    MaxMatches = 4
    Ms = 2
    Deadlines = {2}
    Budgets = {4}
    Mark = 1
    Reasons <- MCReasons
    Thrown <- MCThrown
    Sizes <- MCSizes
    Horizon = 4
    None = None
SPECIFICATION Spec
INVARIANTS DeadlineKeepsMatches
