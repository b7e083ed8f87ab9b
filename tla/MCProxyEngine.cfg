SPECIFICATION Spec
CONSTANTS
    NumUsers = 3
    MaxAmount = 5
    MaxStart = 2
    MaxIncrement = 2
INVARIANTS
    WinnerPaysWithinLimit
    WinningBidRaisesPrice
    ExhaustedMeansReached
    BestLimitWins
    WarIsOver
CHECK_DEADLOCK FALSE
