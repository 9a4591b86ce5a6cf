SPECIFICATION Spec
CONSTANTS
    Tickers = {eth}
    Prices = {1, 2}
    Volumes = {1}
    Times <- MCTimes
    TimesPerMinute = 2
    MinutesPerHour = 2
    MaxGap = 2
    MaxTrades = 3
PROPERTY ClosedOneMinuteCandles
CHECK_DEADLOCK FALSE
