SPECIFICATION FairSpec
CONSTANTS
    OrderIds = {o1, o2}
    NoOrder = NoOrder
    Status <- MCBracketStatus
    LagTicks = 1
    MaxBacklog = 2
INVARIANTS
    TypeOK
    NoOrphanedTrade
    EntryDecidedAtCheck
    NoStaleCandle
PROPERTIES
    MonitorUntilExit
    ExitNoticed
    PlaceTradeReturns
    ImplementsOneTrade
