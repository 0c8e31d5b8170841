\* A window of two units on a clock of five: approvals enter, meet at the
\* window's edge and leave it, while the allowed rate moves between 3 and 1.
\* Four fills: open, add, reduce or flip, and close again, at prices whose
\* averages are not whole numbers.
CONSTANTS
    Second = 2
    LimitChoices <- MCLimitChoices
    Requests <- MCRequests
    MaxTime = 5
    MaxApprovals = 4
    FillPrices = {1, 2, 5}
    FillQtys = {1, 2, 3}
    MaxFills = 4
    MaxMarks = 1
SPECIFICATION HalvesSpec
INVARIANTS
    RateBounded
    RealizedIsCashFlow
    PnlIsMarkToMarket
PROPERTIES
    NoFalseThrottle
\* The clock stops at its bound, and the fills are used up.
CHECK_DEADLOCK FALSE
