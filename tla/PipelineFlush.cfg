SPECIFICATION Spec
CONSTANTS
    eth = eth
    Tickers = {eth}
    Prices = {1}
    Volumes = {1}
    Times <- MCTimes
    TimesPerMinute = 1
    MinutesPerHour = 3
    MaxGap = 2
    MaxTrades = 8
    NoTrades = NoTrades
    Incomplete = Incomplete
    Unreadable = Unreadable
    Messages <- MCMessages
    MaxMessages = 4
INVARIANT BadDataFlushed
CHECK_DEADLOCK FALSE
