\* Three threads and three requests: all at once, or one after the other.
CONSTANTS
    Threads = {t1, t2, t3}
    Ids = {1, 2, 3}
    Named = {1, 2}
    DefaultLimits <- Tight
    LimitBodies <- Bodies
    Bad = Bad
    FeedSize = 2
    Steps = {2}
    MaxLog = 2
    MaxRequests = 3
SPECIFICATION Spec
INVARIANTS
    TypeOK
    OnlyResetIsUnsafe
    FeedTakenOnce
    LimitsInForce
PROPERTIES
    Answered
\* All requests are answered, or freed memory was used: the bounded system stops.
CHECK_DEADLOCK FALSE
