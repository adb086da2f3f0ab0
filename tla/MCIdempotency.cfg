\* Three attempts on two keys, two different requests, skewed clocks, a cleanup
\* that deletes one row at a time.
CONSTANTS
    p1 = p1
    p2 = p2
    p3 = p3
    k1 = k1
    k2 = k2
    f1 = f1
    f2 = f2
    Requests <- ThreeRequests
    Keys <- TwoKeys
    Prints <- TwoPrints
    NoRequest = NoRequest
    Lifetime = 1
    Skew = 1
    MaxTime = 2
    BatchSize = 1
SPECIFICATION CanonicalSpec
CONSTRAINT RetrySecond
CHECK_DEADLOCK FALSE
INVARIANTS
    AnswersSound
PROPERTIES
    PromiseSpec
    RequestsEnd
    ExpiredRowsGo
