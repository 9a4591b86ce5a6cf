SPECIFICATION MCSpec
CONSTANTS
    Callers <- MCCallers
    Home <- MCHome
    FirstSize = 32
    EmptyKey = EmptyKey
    ReusableKey = ReusableKey
    NoCaller = NoCaller
    MaxProducers = 40
    MaxTables = 2
    MaxCalls = 120
    MaxExits = 50
INVARIANT SlotsLeft
CHECK_DEADLOCK FALSE
