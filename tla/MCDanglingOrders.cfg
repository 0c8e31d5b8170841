\* The run that ends in a counterexample: two threads are enough.
CONSTANTS
    Threads = {t1, t2}
    Ids = {1, 2, 3}
    Named = {1, 2}
    DefaultLimits <- Tight
    LimitBodies <- Bodies
    Bad = Bad
    FeedSize = 2
    Steps = {0, 2}
    MaxLog = 2
    MaxRequests = 3
SPECIFICATION Spec
INVARIANT
    NoDanglingOrders
\* All requests are answered, or freed memory was used: the bounded system stops.
CHECK_DEADLOCK FALSE
