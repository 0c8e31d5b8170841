\* Three orders, two prices, quantities up to 3: every pair of order types on
\* either side, a sweep over two orders or two levels, and every cancel and
\* amendment in between.
CONSTANTS
    OrderIds = {o1, o2, o3}
    NoOrder = NoOrder
    Prices = {1, 2}
    MaxQty = 3
SYMMETRY IdSymmetry
SPECIFICATION PromisingSpec
INVARIANTS
    TypeOK
    BookWellFormed
    StatusAgrees
    LevelTotals
    Uncrossed
    FokAllOrNothing
    ObserversUpToDate
    SnapshotTruthful
PROPERTIES
    DoneIsFinal
    PriceTimePriorityHolds
\* All ids used and closed: the bounded system stops.
CHECK_DEADLOCK FALSE
