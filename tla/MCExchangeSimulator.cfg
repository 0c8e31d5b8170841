\* Two threads and three orders, up to more than the position limit; an amendment
\* can make a resting order larger, so that both threads find enough to fill.
CONSTANTS
    OrderIds = {1, 2, 3}
    NoOrder = NoOrder
    Prices = {1}
    MaxQty = 2
    Clients = {c1, c2}
    NoClient = NoClient
    RiskLimits <- TwoLimits
SPECIFICATION Spec
INVARIANTS
    TypeOK
    ExposureBounded
    FillsBookedOnce
    NothingLost
PROPERTIES
    SubmitReturns
\* All ids are used up: the bounded system stops.
CHECK_DEADLOCK FALSE
