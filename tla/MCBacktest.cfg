\* Four orders: two entries and exits of a strategy with a rejected order in
\* between, at bids and asks that would cross.
CONSTANTS
    OrderIds = {o1, o2, o3, o4}
    NoOrder = NoOrder
    Prices = {1, 2, 3}
    MaxQty = 1
    Qty = 1
    HalfSpread = 1
    Window = 2
SYMMETRY IdSymmetry
SPECIFICATION Spec
INVARIANTS
    TypeOK
    NeverTrades
    LiveCoversBook
    OutMeansOut
\* All ids used up: the bounded backtest stops in the middle of a signal.
CHECK_DEADLOCK FALSE
