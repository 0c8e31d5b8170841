\* Two symbols, three orders to a session, any number of sessions; a feed of three
\* ticks, steps of one tick and of more than the most (2); logs of two.
CONSTANTS
    OrderIds = {1, 2, 3}
    Prices = {1}
    MaxQty = 2
    Symbols = {"AAPL", "GOOG"}
    Unlisted = "IBM"
    Inputs <- Asks
    DefaultLimits <- Loose
    Bad = Bad
    LimitInputs <- Bodies
    Feed <- Ticks
    StepInputs = {0, 3}
    MaxStep = 2
    MaxLog = 2
SPECIFICATION Spec
INVARIANTS
    LogsAreRecent
    PositionWithinLimits
    LimitsExplained
    MarksFollowFeed
    RepliesTruthful
