\* Two threads pass the check against the same position, then both trade.
CONSTANTS
    OrderIds = {1, 2, 3}
    NoOrder = NoOrder
    Prices = {1}
    MaxQty = 2
    Clients = {c1, c2}
    NoClient = NoClient
    RiskLimits <- OneLimits
SPECIFICATION Spec
INVARIANTS
    PositionWithinLimit
\* All ids are used up: the bounded system stops.
CHECK_DEADLOCK FALSE
