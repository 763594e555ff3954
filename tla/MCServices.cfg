CONSTANTS
    Services = {s1, s2, s3}
    Waiters = {w1, w2}
    Producers = {p1, p2}
    Consumers = {q1, q2}
    QUEUE_CAPACITY = 1
    ITEMS = 2
    NoItem = NoItem
    Requests = {r1, r2, r3}
    Workers = {w1, w2}
    NoTask = NoTask
    Browsers = {b1, b2}
    NoBrowser = NoBrowser
    MAX_CONNECTIONS = 2
    REQUEST = 1
    RESPONSE = 2
    RequestThreads = {t1, t2, t3, t4}
    POOL_CONNECTIONS = 2
    MAX_TRANSACTIONS = 4
    MAX_EDGES = 4
SPECIFICATION Spec
INVARIANT DetectIsExact
PROPERTIES
    LatchOpensOnce
    AllIsConsumed
    ImplementsAsyncExecutor
    AnsweredWhenAwake
    NobodyStarvesBesideAConnection
    DeadlocksEnd
CHECK_DEADLOCK FALSE
