SPECIFICATION Spec
CONSTANTS
    NumUsers = 3
    MaxAmount = 5
    MaxStart = 2
    MaxIncrement = 2
INVARIANTS
    MinimumNecessaryBid
CHECK_DEADLOCK FALSE
