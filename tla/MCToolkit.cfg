CONSTANTS
    Callers = {c1, c2}
    retryMaxAttempts = 2
    failureThreshold = 2
    cooldown = 2
    timeout = 1
    Resources = {r1, r2}
    Workers = {w1, w2, w3}
    lockTtl = 2
    NoLock = NoLock
    DedupKeys = {k1, k2}
    Tasks = {t1, t2, t3}
    dedupTtl = 2
    NoTask = NoTask
    IdemKeys = {k1, k2}
    Payloads = {p1, p2}
    Processors = {x1, x2}
    idemTtl = 2
    NoEntry = NoEntry
    capacity = 4
    Costs = {2, 3}
    MaxWatched = 5
    Clients = {k1, k2}
    windowTicks = 2
    maxRequests = 2
    Values = {v1, v2}
    Priorities = {1, 2}
    queueSize = 5
    MaxSeq = 6
    Messages = {m1, m2, m3}
    Sweepers = {s1, s2}
    Operators = {s2}
    maxRetries = 2
    maxCapacity = 2
    maxWait = 1
    NoMessage = NoMessage
    Channels = {e1}
    Handlers = {h1}
    Wrappers = {d1, d2}
    historyMaxSize = 2
    MaxReplays = 2
    Nothing = Nothing
SPECIFICATION ToolkitSpec
INVARIANTS
    ToolkitTypeOK
    ClosedBelowThreshold
    OnlyProbesInHalfOpen
    OneLiveHolder
    OneTaskPerKey
    ProcessedOnce
    BurstBound
    DeliveredWithinRetries
PROPERTIES
    ClosesAfterOutage
    EveryCallEnds
    HeapImplementsOrderedQueue
    NeverPublishedTwice
    KeepsAdmitting
    EveryLetterSettles
