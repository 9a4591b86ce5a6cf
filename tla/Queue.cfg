SPECIFICATION MCSpec
CONSTANTS
    Consumers = {c1, c2}
    Amounts = {1, 3}
    BlockSize = 2
    FirstCapacity = 1
    Blocks = {1, 2, 3, 4}
    MaxElements = 4
    MaxFailures = 1
    MaxTickets = 2
    k1 = k1
    k2 = k2
    Takers = {k1, k2}
    Uses <- MCUses
    Wanted = {1, 2}
    Quota = 2
    OffsetValues = 4
    MaxListed = 2
    MaxSize = 1
INVARIANTS
    HeadBehindTail
    ElementInPlace
    BlocksAccounted
    DestroyedClean
    NothingMissed
PROPERTIES
    ElementsReach
    EveryProducerServed
CHECK_DEADLOCK FALSE
