SPECIFICATION Spec
CONSTANTS
    OrderIds = {o1, o2}
    NoOrder = NoOrder
    Status <- MCBracketStatus
    LagTicks = 1
    MaxBacklog = 2
PROPERTY EmptyOnlyIfUnfilled
