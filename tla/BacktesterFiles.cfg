SPECIFICATION Spec
CONSTANTS
    InitialBalance = 50000
    MakerFees = 2
    TakerFees = 5
    Prices = {98, 100, 103}
    StopLosses = {65}
    RRs = {1, 3}
    NumFiles = 2
    MaxEntries = 5
INVARIANT ExitInOwnFile
CHECK_DEADLOCK FALSE
