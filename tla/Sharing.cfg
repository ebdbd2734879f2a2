SPECIFICATION SharingSpec
CONSTANTS
    Transfers = {t1, t2}
    TicksPerSec = 5
    AvgRates = {5, 0}
    MaxRates = {0, 6}
    BucketLimits = {0}
    Requests = {3}
    SingleRequestLimit = 2
    MaxClock = 4
    MaxProgress = 6
CHECK_DEADLOCK FALSE
INVARIANTS
    AverageRateHolds
    PeakRateHolds
    CountsAreExact
    RunningSenderIsCounted
PROPERTIES
    QuotaNeverExceeded
    EveryCallReturns
