SPECIFICATION MCSpec
CONSTANTS
    t1 = t1
    t2 = t2
    t3 = t3
    n1 = n1
    n2 = n2
    small = small
    capital = capital
    bad = bad
    Threads = {t1, t2, t3}
    Nodes = {n1, n2}
    NoNode = NoNode
    Callers = {t1, t2, t3}
    Home <- MCHome
    FirstSize = 2
    EmptyKey = EmptyKey
    ReusableKey = ReusableKey
    NoCaller = NoCaller
    MaxProducers = 2
    MaxTables = 3
    MaxCalls = 4
    MaxExits = 1
    Entries <- MCEntries
    DictSize = 4
    ReadSizes = {1, 5}
    Ahead = 4
    Garbage = Garbage
    FileNames <- MCFileNames
    Alphabet = 10
    MaxNames = 4
    Members = {small, capital, bad}
    Folded <- MCFolded
    BadNames = {bad}
    Contents <- MCContents
    Comment = Comment
    Downloads <- MCDownloads
    Spoiled = Spoiled
    MaxFiles = 2
    MaxUnread = 2
    MaxComments = 2
    CandleKinds <- MCCandleKinds
    Num = 1
    Den = 5
    TouchThreshold = 1
    MaxAge = 2
    HighestPrice = 1000
    MaxTouches = 2
    InitialBalance = 50000
    MakerFees = 2
    TakerFees = 5
    Prices = {98, 100, 103}
    StopLosses = {65}
    RRs = {1, 3}
    NumFiles = 2
    MaxEntries = 5
INVARIANTS
    NodeInOnePlace
    OneThreadPerProducer
    SameProducer
    SlotsLeft
    SoundExtracted
    
    LocateFinds
    
    OwnContent
    TypeOK
    LadderOrdered
    FullRiskAtPeakOnly
    EntriesAccountedFor
PROPERTIES
    EveryExtractionEnds
    SignalEarned
    StreaksBend
CHECK_DEADLOCK FALSE
