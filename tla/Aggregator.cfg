SPECIFICATION Spec
CONSTANTS
    Tickers = {eth, btc}
    Prices = {1, 2}
    Volumes = {1}
    Times <- MCTimes
    TimesPerMinute = 2
    MinutesPerHour = 2
    MaxGap = 1
    MaxTrades = 3
SYMMETRY MCSymmetry
INVARIANTS
    TypeOK
    OneMinuteCandles
    EveryMinuteOnce
    CandlesInOrder
PROPERTY ClosedOneMinuteCandles
CHECK_DEADLOCK FALSE
