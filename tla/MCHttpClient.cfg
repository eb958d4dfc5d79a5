SPECIFICATION HttpFairSpec
CONSTANTS
    r1 = r1
    r2 = r2
    k1 = k1
    Requests = {r1, r2}
    Keys = {k1}
    KeyOf <- OneKey
    MaxConcurrency = 1
    MaxRetries = 2
    Timeout = 3
    MaxRetryAfter = 4
    Delays = {0, 3, 6}
    Budget = 8
INVARIANTS
    PermitsBalance
    SleepsInsideBudget
    CacheServesDocuments
PROPERTY EveryRequestEnds
CHECK_DEADLOCK FALSE
